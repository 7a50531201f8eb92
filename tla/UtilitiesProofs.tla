--------------------------- MODULE UtilitiesProofs ---------------------------
(***************************************************************************)
(* Proofs about the C utilities in Libraries: the lists, the arrays and    *)
(* the parser of the texts of calls.  As in LibrariesProofs, a property is *)
(* proved of its part, and then of the whole specification.                *)
(***************************************************************************)
EXTENDS LibrariesProofs

-----------------------------------------------------------------------------
(* Containers: the loop over a list, the memory of an array, and the       *)
(* places that the binary search gives                                     *)

\* While a loop runs, the elements it gave are those up to the cursor, unless its
\* body removed one far from the cursor.
LoopInv ==
  /\ list \in [elems : Seq(Data), cursor : Nat] /\ list.cursor <= Len(list.elems)
  /\ IsInjective(list.elems)
  /\ loop \in [runs : BOOLEAN, astray : BOOLEAN, given : Seq(Data)]
  /\ ~loop.astray => IsInjective(loop.given)
  /\ loop.runs /\ ~loop.astray =>
       \A i \in 1..Len(list.elems) : i <= list.cursor <=> list.elems[i] \in ToSet(loop.given)

\* The elements of a sequence, with one more behind it or in front of it.
LEMMA ToSetAppend ==
  ASSUME NEW D, NEW s \in Seq(D), NEW d \in D
  PROVE  /\ ToSet(Append(s, d)) = ToSet(s) \cup {d}
         /\ Last(Append(s, d)) = d
         /\ IsInjective(s) /\ d \notin ToSet(s) => IsInjective(Append(s, d))
<1> DEFINE t == Append(s, d)
<1>1. /\ t \in Seq(D) /\ Len(t) = Len(s) + 1 /\ t[Len(s) + 1] = d /\ Len(s) \in Nat
      /\ \A i \in 1..Len(s) : t[i] = s[i]
      /\ DOMAIN s = 1..Len(s) /\ DOMAIN t = 1..(Len(s) + 1)
  OBVIOUS
<1> HIDE DEF t
<1>2. ToSet(t) = ToSet(s) \cup {d}
  BY <1>1 DEF ToSet
<1>3. Last(t) = d
  BY <1>1 DEF Last
<1>4. ASSUME IsInjective(s), d \notin ToSet(s) PROVE IsInjective(t)
  <2>1. \A i, j \in 1..Len(s) : s[i] = s[j] => i = j
    BY <1>1, <1>4 DEF IsInjective
  <2>2. \A i \in 1..Len(s) : s[i] # d
    BY <1>1, <1>4 DEF ToSet
  <2>3. ASSUME NEW i \in 1..(Len(s) + 1), NEW j \in 1..(Len(s) + 1), t[i] = t[j] PROVE i = j
    <3>1. CASE i = Len(s) + 1 BY <1>1, <2>2, <2>3, <3>1
    <3>2. CASE j = Len(s) + 1 BY <1>1, <2>2, <2>3, <3>2
    <3>3. CASE i # Len(s) + 1 /\ j # Len(s) + 1
      <4>1. i \in 1..Len(s) /\ j \in 1..Len(s) BY <1>1, <3>3
      <4>2. QED BY <1>1, <2>1, <2>3, <4>1
    <3>4. QED BY <3>1, <3>2, <3>3
  <2>4. QED BY <1>1, <2>3 DEF IsInjective
<1>5. QED BY <1>2, <1>3, <1>4 DEF t

LEMMA ConsFacts ==
  ASSUME NEW D, NEW s \in Seq(D), NEW d \in D, IsInjective(s), d \notin ToSet(s)
  PROVE  <<d>> \o s \in Seq(D) /\ IsInjective(<<d>> \o s) /\ Len(<<d>> \o s) = Len(s) + 1
<1> DEFINE t == <<d>> \o s
<1>1. /\ t \in Seq(D) /\ Len(t) = Len(s) + 1 /\ t[1] = d /\ Len(s) \in Nat
      /\ \A i \in 2..(Len(s) + 1) : t[i] = s[i - 1]
      /\ DOMAIN s = 1..Len(s) /\ DOMAIN t = 1..(Len(s) + 1)
  OBVIOUS
<1> HIDE DEF t
<1>2. \A i, j \in 1..Len(s) : s[i] = s[j] => i = j
  BY <1>1 DEF IsInjective
<1>3. \A i \in 1..Len(s) : s[i] # d
  BY <1>1 DEF ToSet
<1>4. ASSUME NEW i \in 1..(Len(s) + 1), NEW j \in 1..(Len(s) + 1), t[i] = t[j] PROVE i = j
  <2>1. \A k \in 1..(Len(s) + 1) : k # 1 => k \in 2..(Len(s) + 1) /\ k - 1 \in 1..Len(s)
    BY <1>1
  <2>2. CASE i = 1 BY <1>1, <1>3, <1>4, <2>1, <2>2
  <2>3. CASE j = 1 BY <1>1, <1>3, <1>4, <2>1, <2>3
  <2>4. CASE i # 1 /\ j # 1
    <3>1. s[i - 1] = s[j - 1] BY <1>1, <1>4, <2>1, <2>4
    <3>2. i - 1 = j - 1 BY <1>2, <2>1, <2>4, <3>1
    <3>3. QED BY <3>2
  <2>5. QED BY <2>2, <2>3, <2>4
<1>5. QED BY <1>1, <1>4 DEF IsInjective, t

LEMMA RemoveAtFacts ==
  ASSUME NEW D, NEW s \in Seq(D), NEW k \in 1..Len(s)
  PROVE  /\ RemoveAt(s, k) \in Seq(D) /\ Len(RemoveAt(s, k)) = Len(s) - 1
         /\ \A i \in 1..(Len(s) - 1) : RemoveAt(s, k)[i] = s[IF i < k THEN i ELSE i + 1]
<1> DEFINE a == SubSeq(s, 1, k - 1)
           b == SubSeq(s, k + 1, Len(s))
<1>0. Len(s) \in Nat /\ k \in Nat
  OBVIOUS
<1>1. a \in Seq(D) /\ Len(a) = k - 1 /\ \A i \in 1..(k - 1) : a[i] = s[i]
  <2>1. \A i \in 1..(k - 1) : s[i] \in D
    OBVIOUS
  <2>2. QED BY <1>0, <2>1, SubSeqProperties
<1>2. b \in Seq(D) /\ Len(b) = Len(s) - k /\ \A i \in 1..(Len(s) - k) : b[i] = s[k + i]
  <2>1. CASE k = Len(s)
    BY <1>0, <2>1, SubSeqProperties
  <2>2. CASE k < Len(s)
    BY <1>0, <2>2, SubSeqProperties
  <2>3. QED BY <2>1, <2>2
<1> HIDE DEF a, b
<1>3. /\ a \o b \in Seq(D) /\ Len(a \o b) = Len(s) - 1
      /\ \A i \in 1..(Len(s) - 1) : (a \o b)[i] = IF i <= k - 1 THEN a[i] ELSE b[i - (k - 1)]
  <2>1. Len(a) + Len(b) = Len(s) - 1
    BY <1>0, <1>1, <1>2
  <2>2. /\ a \o b \in Seq(D) /\ Len(a \o b) = Len(a) + Len(b)
        /\ \A i \in 1..(Len(a) + Len(b)) : (a \o b)[i] = IF i <= Len(a) THEN a[i] ELSE b[i - Len(a)]
    BY <1>1, <1>2, ConcatProperties
  <2>3. QED BY <1>1, <2>1, <2>2
<1>4. ASSUME NEW i \in 1..(Len(s) - 1) PROVE (a \o b)[i] = s[IF i < k THEN i ELSE i + 1]
  <2>1. CASE i < k
    <3>1. i <= k - 1 /\ i \in 1..(k - 1) BY <1>0, <2>1
    <3>2. QED BY <1>1, <1>3, <2>1, <3>1
  <2>2. CASE ~(i < k)
    <3>1. ~(i <= k - 1) /\ i - (k - 1) \in 1..(Len(s) - k) /\ k + (i - (k - 1)) = i + 1
      BY <1>0, <2>2
    <3>2. QED BY <1>2, <1>3, <2>2, <3>1
  <2>3. QED BY <2>1, <2>2
<1>5. QED BY <1>3, <1>4 DEF RemoveAt, a, b

LEMMA LoopInitInv == ListInit => LoopInv
  BY DEF ListInit, LoopInv, NewList, IsInjective

LEMMA HeadKeeps ==
  ASSUME LoopInv, NEW d \in Data, InsertAtHead(d)
  PROVE  LoopInv'
<1> USE DEF LoopInv
<1>1. ~loop.runs /\ d \notin ToSet(list.elems) /\ loop' = loop /\ list' = Added(list, d, TRUE)
  BY DEF InsertAtHead
<1>2. CASE list.elems = <<>>
  BY <1>1, <1>2 DEF Added, IsInjective
<1>3. CASE list.elems # <<>>
  <2>1. list' = [elems |-> <<d>> \o list.elems,
                 cursor |-> IF list.cursor = 0 THEN 0 ELSE list.cursor + 1]
    BY <1>1, <1>3 DEF Added
  <2>2. list'.elems \in Seq(Data) /\ IsInjective(list'.elems)
        /\ Len(list'.elems) = Len(list.elems) + 1
    <3>1. list.elems \in Seq(Data) /\ IsInjective(list.elems)
      OBVIOUS
    <3>2. list'.elems = <<d>> \o list.elems
      BY <2>1
    <3>3. /\ <<d>> \o list.elems \in Seq(Data) /\ IsInjective(<<d>> \o list.elems)
          /\ Len(<<d>> \o list.elems) = Len(list.elems) + 1
      BY <1>1, <3>1, ConsFacts, Zenon
    <3>4. QED BY <3>2, <3>3, Zenon
  <2>3. list'.cursor \in Nat /\ list'.cursor <= Len(list.elems) + 1
    BY <2>1
  <2>4. QED BY <1>1, <2>1, <2>2, <2>3
<1>4. QED BY <1>2, <1>3

LEMMA TailKeeps ==
  ASSUME LoopInv, NEW d \in Data, AppendAtTail(d)
  PROVE  LoopInv'
<1> USE DEF LoopInv
<1>1. d \notin ToSet(list.elems) /\ d \notin ToSet(loop.given) /\ loop' = loop
      /\ list' = Added(list, d, FALSE)
  BY DEF AppendAtTail
<1>2. list' = [elems |-> Append(list.elems, d), cursor |-> list.cursor]
  <2>1. CASE list.elems = <<>>
    <3>1. list.cursor = 0 /\ Append(list.elems, d) = <<d>> BY <2>1
    <3>2. QED BY <1>1, <2>1, <3>1 DEF Added
  <2>2. CASE list.elems # <<>>
    BY <1>1, <2>2 DEF Added
  <2>3. QED BY <2>1, <2>2
<1>3. /\ list'.elems \in Seq(Data) /\ Len(list'.elems) = Len(list.elems) + 1
      /\ list'.elems[Len(list.elems) + 1] = d
      /\ \A i \in 1..Len(list.elems) : list'.elems[i] = list.elems[i]
  BY <1>2
<1>4. IsInjective(list'.elems) /\ ToSet(list'.elems) = ToSet(list.elems) \cup {d}
  <2>1. list.elems \in Seq(Data) /\ IsInjective(list.elems)
    OBVIOUS
  <2>2. list'.elems = Append(list.elems, d)
    BY <1>2
  <2>3. /\ IsInjective(Append(list.elems, d))
        /\ ToSet(Append(list.elems, d)) = ToSet(list.elems) \cup {d}
    <3>1. \A D : \A s \in Seq(D) : \A x \in D :
            IsInjective(s) /\ x \notin ToSet(s) => IsInjective(Append(s, x))
      BY ToSetAppend, Zenon
    <3>2. IsInjective(Append(list.elems, d))
      BY <1>1, <2>1, <3>1, Zenon
    <3>3. ToSet(Append(list.elems, d)) = ToSet(list.elems) \cup {d}
      BY <2>1, ToSetAppend
    <3>4. QED BY <3>2, <3>3
  <2>4. QED BY <2>2, <2>3, Zenon
<1>5. list'.cursor = list.cursor
  BY <1>2
<1>6. ASSUME loop.runs, ~loop.astray
      PROVE  \A i \in 1..Len(list'.elems) :
                  i <= list.cursor <=> list'.elems[i] \in ToSet(loop.given)
  <2>1. ASSUME NEW i \in 1..(Len(list.elems) + 1)
        PROVE  i <= list.cursor <=> list'.elems[i] \in ToSet(loop.given)
    <3>1. CASE i = Len(list.elems) + 1
      <4>1. list'.elems[i] = d /\ ~(i <= list.cursor) BY <1>3, <3>1
      <4>2. QED BY <1>1, <4>1
    <3>2. CASE i # Len(list.elems) + 1
      <4>1. i \in 1..Len(list.elems) BY <3>2
      <4>2. QED BY <1>3, <1>6, <4>1
    <3>3. QED BY <3>1, <3>2
  <2>2. QED BY <1>3, <2>1
<1>7. list' \in [elems : Seq(Data), cursor : Nat] /\ list'.cursor <= Len(list'.elems)
  BY <1>2, <1>3
<1> HIDE DEF LoopInv
<1>8. loop \in [runs : BOOLEAN, astray : BOOLEAN, given : Seq(Data)]
      /\ (~loop.astray => IsInjective(loop.given))
  BY DEF LoopInv
<1>9. QED BY <1>1, <1>4, <1>5, <1>6, <1>7, <1>8, Zenon DEF LoopInv

\* An element leaves the list.
LEMMA RemovedKeeps ==
  ASSUME LoopInv, NEW k \in 1..Len(list.elems), Removes(k)
  PROVE  LoopInv'
<1> USE DEF LoopInv
<1> DEFINE s == list.elems
           t == RemoveAt(s, k)
<1>1. list' = [elems |-> t, cursor |-> k - 1]
  BY DEF Removes, Removed
<1>1a. loop' = [loop EXCEPT !.astray = @ \/ FarFromCursor(k)]
  BY DEF Removes
<1>2. /\ t \in Seq(Data) /\ Len(t) = Len(s) - 1
      /\ \A i \in 1..(Len(s) - 1) : t[i] = s[IF i < k THEN i ELSE i + 1]
  BY RemoveAtFacts
<1>3. \A i, j \in 1..Len(s) : s[i] = s[j] => i = j
  BY DEF IsInjective
<1> HIDE DEF t
<1>4. ASSUME NEW i \in 1..(Len(s) - 1)
      PROVE  /\ i < k => i \in 1..Len(s) /\ t[i] = s[i]
             /\ ~(i < k) => i + 1 \in 1..Len(s) /\ i + 1 > k /\ t[i] = s[i + 1]
  BY <1>2
<1>5. ASSUME NEW i \in 1..(Len(s) - 1) PROVE t[i] # s[k] /\ t[i] \in ToSet(s)
  <2>1. DOMAIN s = 1..Len(s)
    OBVIOUS
  <2>2. CASE i < k
    <3>1. t[i] = s[i] /\ i \in 1..Len(s) /\ i # k
      BY <1>4, <2>2
    <3>2. QED BY <1>3, <2>1, <3>1 DEF ToSet
  <2>3. CASE ~(i < k)
    <3>1. t[i] = s[i + 1] /\ i + 1 \in 1..Len(s) /\ i + 1 # k
      BY <1>4, <2>3
    <3>2. QED BY <1>3, <2>1, <3>1 DEF ToSet
  <2>4. QED BY <2>2, <2>3
<1>6. IsInjective(t)
  <2>1. ASSUME NEW i \in 1..(Len(s) - 1), NEW j \in 1..(Len(s) - 1), t[i] = t[j] PROVE i = j
    BY <1>3, <1>4, <2>1
  <2>2. DOMAIN t = 1..(Len(s) - 1) BY <1>2
  <2>3. QED BY <2>1, <2>2 DEF IsInjective
<1>7. ASSUME loop.runs, ~loop.astray, ~FarFromCursor(k)
      PROVE  \A i \in 1..Len(t) : i <= k - 1 <=> t[i] \in ToSet(loop.given)
  <2>1. list.cursor = k \/ list.cursor = k - 1
    <3>1. k \in {list.cursor, list.cursor + 1}
      BY <1>7 DEF FarFromCursor
    <3>2. list.cursor \in Nat
      OBVIOUS
    <3>3. QED BY <3>1, <3>2
  <2>2. \A i \in 1..Len(s) : i <= list.cursor <=> s[i] \in ToSet(loop.given)
    BY <1>7
  <2>3. ASSUME NEW i \in 1..(Len(s) - 1) PROVE i <= k - 1 <=> t[i] \in ToSet(loop.given)
    <3>1. CASE i < k
      <4>1. t[i] = s[i] /\ i \in 1..Len(s) /\ i <= k - 1 /\ i <= list.cursor
        BY <1>4, <2>1, <3>1
      <4>2. QED BY <2>2, <4>1
    <3>2. CASE ~(i < k)
      <4>1. t[i] = s[i + 1] /\ i + 1 \in 1..Len(s) /\ ~(i + 1 <= k) BY <1>4, <3>2
      <4>2. ~(i + 1 <= list.cursor) /\ ~(i <= k - 1) BY <2>1, <4>1
      <4>3. QED BY <2>2, <4>1, <4>2
    <3>3. QED BY <3>1, <3>2
  <2>4. QED BY <1>2, <2>3
<1>8. k - 1 \in Nat /\ k - 1 <= Len(t)
  BY <1>2
<1>9. list' \in [elems : Seq(Data), cursor : Nat] /\ list'.elems = t /\ list'.cursor = k - 1
  BY <1>1, <1>2, <1>8
<1>10. /\ loop' \in [runs : BOOLEAN, astray : BOOLEAN, given : Seq(Data)]
       /\ loop'.runs = loop.runs /\ loop'.given = loop.given
       /\ ~loop'.astray => ~loop.astray /\ ~FarFromCursor(k)
  BY <1>1a DEF FarFromCursor
<1>11. QED BY <1>6, <1>7, <1>8, <1>9, <1>10

LEMMA ElementKeeps ==
  ASSUME LoopInv, NEW d \in Data, RemoveElement(d)
  PROVE  LoopInv'
  BY RemovedKeeps DEF RemoveElement

LEMMA PopKeeps ==
  ASSUME LoopInv, PopFirst
  PROVE  LoopInv'
<1>1. 1 \in 1..Len(list.elems)
  BY DEF PopFirst, LoopInv
<1>2. QED BY <1>1, RemovedKeeps DEF PopFirst

LEMMA BeginKeeps ==
  ASSUME LoopInv, LoopBegins
  PROVE  LoopInv'
<1> USE DEF LoopInv
<1>1. list' = First(list)
      /\ loop' = [runs |-> list.elems # <<>>, astray |-> FALSE,
                  given |-> IF list.elems = <<>> THEN <<>> ELSE <<Head(list.elems)>>]
  BY DEF LoopBegins
<1>2. CASE list.elems = <<>>
  <2>1. list' = list /\ loop' = [runs |-> FALSE, astray |-> FALSE, given |-> <<>>]
    BY <1>1, <1>2 DEF First
  <2>2. IsInjective(<<>>)
    BY DEF IsInjective
  <2>3. /\ list \in [elems : Seq(Data), cursor : Nat] /\ list.cursor <= Len(list.elems)
        /\ IsInjective(list.elems)
    OBVIOUS
  <2> HIDE DEF LoopInv
  <2>4. loop' \in [runs : BOOLEAN, astray : BOOLEAN, given : Seq(Data)]
        /\ loop'.given = <<>> /\ loop'.runs = FALSE
    BY <2>1
  <2>5. QED BY <2>1, <2>2, <2>3, <2>4 DEF LoopInv
<1>3. CASE list.elems # <<>>
  <2>1. list' = [elems |-> list.elems, cursor |-> 1]
    BY <1>1, <1>3 DEF First
  <2>2. loop' = [runs |-> TRUE, astray |-> FALSE, given |-> <<list.elems[1]>>] /\ 1 \in 1..Len(list.elems)
        /\ list.elems[1] \in Data
    <3>1. Head(list.elems) = list.elems[1] /\ 1 \in 1..Len(list.elems) /\ list.elems[1] \in Data
      BY <1>3
    <3>2. loop' = [runs |-> TRUE, astray |-> FALSE, given |-> <<Head(list.elems)>>]
      BY <1>1, <1>3
    <3>3. QED BY <3>1, <3>2
  <2>3. /\ ToSet(loop'.given) = {list.elems[1]} /\ Last(loop'.given) = list.elems[1]
        /\ IsInjective(loop'.given) /\ loop'.given # <<>> /\ loop'.given \in Seq(Data)
    <3>1. loop'.given = <<list.elems[1]>> BY <2>2
    <3>2. DOMAIN <<list.elems[1]>> = {1} /\ Len(<<list.elems[1]>>) = 1
      OBVIOUS
    <3>3. QED BY <2>2, <3>1, <3>2 DEF ToSet, Last, IsInjective
  <2>4. \A i \in 1..Len(list.elems) : i <= 1 <=> list.elems[i] = list.elems[1]
    BY <2>2 DEF IsInjective
  <2>5. loop' \in [runs : BOOLEAN, astray : BOOLEAN, given : Seq(Data)] BY <2>2, <2>3
  <2>6. list' \in [elems : Seq(Data), cursor : Nat] /\ list'.cursor = 1
        /\ list'.elems = list.elems /\ list'.cursor <= Len(list.elems)
    BY <2>1, <2>2
  <2>7. /\ \A i \in 1..Len(list'.elems) :
             i <= list'.cursor <=> list'.elems[i] \in ToSet(loop'.given)
        /\ list'.elems[list'.cursor] = Last(loop'.given) /\ IsInjective(list'.elems)
    BY <2>2, <2>3, <2>4, <2>6
  <2> HIDE DEF LoopInv
  <2>8. QED BY <2>3, <2>5, <2>6, <2>7 DEF LoopInv
<1>4. QED BY <1>2, <1>3

LEMMA OnKeeps ==
  ASSUME LoopInv, LoopGoesOn
  PROVE  LoopInv'
<1> USE DEF LoopInv
<1>1. CASE NextIsNull(list)
  <2>1. loop' = [loop EXCEPT !.runs = FALSE] /\ list' = list
    BY <1>1 DEF LoopGoesOn
  <2>2. QED BY <2>1
<1>2. CASE ~NextIsNull(list) /\ ~loop.astray
  <2> DEFINE c == list.cursor + 1
             d == list.elems[c]
  <2>1. list.elems # <<>> /\ c \in 1..Len(list.elems)
    BY <1>2 DEF NextIsNull
  <2>2. list' = [elems |-> list.elems, cursor |-> c]
    <3>1. list' = Next1(list) BY <1>2 DEF LoopGoesOn
    <3>2. CASE list.cursor = 0 BY <2>1, <3>1, <3>2 DEF Next1, First
    <3>3. CASE list.cursor # 0 BY <1>2, <2>1, <3>1, <3>3 DEF Next1, NextIsNull
    <3>4. QED BY <3>2, <3>3
  <2>3. loop.runs /\ loop' = [loop EXCEPT !.given = Append(@, d)]
    BY <1>2, <2>2 DEF LoopGoesOn
  <2>4. d \in Data /\ d \notin ToSet(loop.given)
    BY <1>2, <2>1, <2>3
  <2> HIDE DEF d
  <2>5. /\ ToSet(Append(loop.given, d)) = ToSet(loop.given) \cup {d}
        /\ Last(Append(loop.given, d)) = d
        /\ IsInjective(Append(loop.given, d))
        /\ Append(loop.given, d) \in Seq(Data) /\ Append(loop.given, d) # <<>>
    <3>1. loop.given \in Seq(Data) /\ IsInjective(loop.given) BY <1>2
    <3>2. QED BY <2>4, <3>1, ToSetAppend
  <2>6. loop'.given = Append(loop.given, d) /\ loop'.runs = TRUE /\ loop'.astray = FALSE
        /\ loop' \in [runs : BOOLEAN, astray : BOOLEAN, given : Seq(Data)]
    BY <1>2, <2>3, <2>5
  <2>7. ASSUME NEW i \in 1..Len(list.elems)
        PROVE  i <= c <=> list.elems[i] \in ToSet(loop.given) \cup {d}
    <3>1. list.elems[i] = d <=> i = c
      BY <2>1 DEF IsInjective, d
    <3>2. i <= list.cursor <=> list.elems[i] \in ToSet(loop.given)
      BY <1>2, <2>3
    <3>3. QED BY <2>1, <3>1, <3>2
  <2>8. list' \in [elems : Seq(Data), cursor : Nat] /\ list'.cursor = c
        /\ list'.elems = list.elems /\ list'.cursor <= Len(list.elems) /\ list'.cursor # 0
    BY <2>1, <2>2
  <2>9. list'.elems[list'.cursor] = d
    BY <2>8 DEF d
  <2> HIDE DEF c
  <2>10. QED BY <2>5, <2>6, <2>7, <2>8, <2>9
<1>3. CASE ~NextIsNull(list) /\ loop.astray
  <2> DEFINE c == IF list.cursor = 0 THEN 1 ELSE list.cursor + 1
  <2>1. list.elems # <<>> /\ c \in 1..Len(list.elems)
    BY <1>3 DEF NextIsNull
  <2>2. list' = [elems |-> list.elems, cursor |-> c]
    BY <1>3, <2>1 DEF LoopGoesOn, Next1, First, NextIsNull
  <2>3. loop' = [loop EXCEPT !.given = Append(@, list.elems[c])]
    BY <1>3, <2>2 DEF LoopGoesOn
  <2>4. loop' \in [runs : BOOLEAN, astray : BOOLEAN, given : Seq(Data)] /\ loop'.astray
    <3>1. list.elems[c] \in Data
      BY <2>1
    <3> DEFINE g == Append(loop.given, list.elems[c])
    <3>2. loop \in [runs : BOOLEAN, astray : BOOLEAN, given : Seq(Data)] /\ g \in Seq(Data)
      BY <3>1
    <3>3. loop' = [loop EXCEPT !.given = g]
      BY <2>3
    <3> HIDE DEF g, LoopInv
    <3>4. QED BY <1>3, <3>2, <3>3
  <2>5. QED BY <2>1, <2>2, <2>4
<1>4. QED BY <1>1, <1>2, <1>3

LEMMA LoopStep == LoopInv /\ [ListNext]_listVars => LoopInv'
<1>1. ASSUME LoopInv, UNCHANGED listVars PROVE LoopInv'
  BY <1>1 DEF LoopInv, listVars, Last, ToSet, IsInjective
<1>2. ASSUME LoopInv, ListNext PROVE LoopInv'
  BY <1>2, HeadKeeps, TailKeeps, ElementKeeps, PopKeeps, BeginKeeps, OnKeeps DEF ListNext
<1>3. QED BY <1>1, <1>2

LEMMA LoopShows == LoopInv => LoopGivesAll
<1> SUFFICES ASSUME LoopInv PROVE LoopGivesAll
  OBVIOUS
<1>1. ASSUME loop.runs, ~loop.astray, NextIsNull(list)
      PROVE  ToSet(list.elems) \subseteq ToSet(loop.given)
  <2>1. \A i \in 1..Len(list.elems) : list.elems[i] \in ToSet(loop.given)
    BY <1>1 DEF LoopInv, NextIsNull
  <2>2. DOMAIN list.elems = 1..Len(list.elems)
    BY DEF LoopInv
  <2>3. QED BY <2>1, <2>2 DEF ToSet
<1>2. QED BY <1>1 DEF LoopInv, LoopGivesAll

\* The binary search as a function of the range that is left.
OneProbe(f, s, key, range) ==
  IF key < s[Middle(range)] /\ range[1] < Middle(range) THEN f[<<range[1], Middle(range) - 1>>]
  ELSE IF s[Middle(range)] < key /\ Middle(range) < range[2] THEN f[<<Middle(range) + 1, range[2]>>]
  ELSE Middle(range)

ProbesAll(f, s, key) ==
  f = [range \in (1..Len(s)) \X (1..Len(s)) |-> OneProbe(f, s, key, range)]

\* The middle of a range is in it; a range that has no place is not divided.
Divides(n, range) ==
  /\ range[1] \in 1..n /\ range[2] \in 1..n /\ Middle(range) \in 1..n
  /\ range[1] <= range[2] => Middle(range) \in range[1]..range[2]
  /\ range[2] < range[1] => ~(range[1] < Middle(range)) /\ ~(Middle(range) < range[2])
  /\ range[1] < Middle(range) =>
       /\ <<range[1], Middle(range) - 1>> \in (1..n) \X (1..n)
       /\ (Middle(range) - 1) - range[1] < range[2] - range[1]
  /\ Middle(range) < range[2] =>
       /\ <<Middle(range) + 1, range[2]>> \in (1..n) \X (1..n)
       /\ range[2] - (Middle(range) + 1) < range[2] - range[1]

LEMMA MiddleFacts ==
  ASSUME NEW n \in Nat, NEW range \in (1..n) \X (1..n)
  PROVE  Divides(n, range)
<1> DEFINE lo == range[1]
           hi == range[2]
<1>1. lo \in 1..n /\ hi \in 1..n /\ range = <<lo, hi>>
  OBVIOUS
<1> HIDE DEF lo, hi
<1>2. Middle(range) = (lo + hi) \div 2
  BY DEF Middle, lo, hi
<1> DEFINE mid == (lo + hi) \div 2
<1>3. mid \in Nat /\ 2 * mid <= lo + hi /\ lo + hi <= 2 * mid + 1
  BY <1>1
<1> HIDE DEF mid
<1>4. mid \in 1..n
  BY <1>1, <1>3
<1>5. lo <= hi => mid \in lo..hi
  BY <1>1, <1>3
<1>6. lo < mid => mid - 1 \in 1..n /\ (mid - 1) - lo < hi - lo
  BY <1>1, <1>3
<1>7. mid < hi => mid + 1 \in 1..n /\ hi - (mid + 1) < hi - lo
  BY <1>1, <1>3
<1>8. Middle(range) = mid
  BY <1>2 DEF mid
<1>9. hi < lo => ~(lo < mid) /\ ~(mid < hi)
  BY <1>1, <1>3
<1>10. QED BY <1>1, <1>4, <1>5, <1>6, <1>7, <1>8, <1>9 DEF lo, hi, Divides

LEMMA ProbesExist ==
  ASSUME NEW s, NEW key, Len(s) \in Nat
  PROVE  \E f : ProbesAll(f, s, key)
<1> DEFINE D == (1..Len(s)) \X (1..Len(s))
           P(f, n) == \A range \in D :
                        range[2] - range[1] < n => f[range] = OneProbe(f, s, key, range)
           S == {n \in Nat : \E f : P(f, n)}
<1>0. \A range \in D : Divides(Len(s), range)
  BY MiddleFacts, Zenon
<1>1. 0 \in S
  <2> DEFINE f0 == [range \in D |-> Middle(range)]
  <2>1. ASSUME NEW range \in D, range[2] - range[1] < 0
        PROVE  f0[range] = OneProbe(f0, s, key, range)
    <3>1. ~(range[1] < Middle(range)) /\ ~(Middle(range) < range[2])
      <4>1. Divides(Len(s), range) BY <1>0
      <4>2. QED BY <2>1, <4>1 DEF Divides
    <3>2. QED BY <3>1 DEF OneProbe
  <2> HIDE DEF f0
  <2>2. P(f0, 0)
    BY <2>1
  <2>3. QED BY <2>2
<1>2. ASSUME NEW n \in Nat, n \in S PROVE n + 1 \in S
  <2>1. PICK f : P(f, n)
    BY <1>2
  <2> DEFINE g == [range \in D |-> IF range[2] - range[1] < n THEN f[range]
                                   ELSE OneProbe(f, s, key, range)]
  <2>2. ASSUME NEW range \in D, range[2] - range[1] < n + 1
        PROVE  g[range] = OneProbe(g, s, key, range)
    <3>1. g[range] = OneProbe(f, s, key, range)
      BY <2>1
    <3>2. Divides(Len(s), range)
      BY <1>0
    <3>3. ASSUME range[1] < Middle(range)
          PROVE  g[<<range[1], Middle(range) - 1>>] = f[<<range[1], Middle(range) - 1>>]
      <4>1. <<range[1], Middle(range) - 1>> \in D /\ (Middle(range) - 1) - range[1] < n
        BY <2>2, <3>2, <3>3 DEF Divides
      <4>2. QED BY <4>1
    <3>4. ASSUME Middle(range) < range[2]
          PROVE  g[<<Middle(range) + 1, range[2]>>] = f[<<Middle(range) + 1, range[2]>>]
      <4>1. <<Middle(range) + 1, range[2]>> \in D /\ range[2] - (Middle(range) + 1) < n
        BY <2>2, <3>2, <3>4 DEF Divides
      <4>2. QED BY <4>1
    <3> HIDE DEF g
    <3>5. QED BY <3>1, <3>3, <3>4 DEF OneProbe
  <2> HIDE DEF g
  <2>3. P(g, n + 1)
    BY <2>2
  <2>4. QED BY <2>3
<1> HIDE DEF S
<1>3. Nat \subseteq S
  BY <1>1, <1>2, AllNumbers
<1> USE DEF S
<1>4. PICK f : P(f, Len(s))
  <2>1. Len(s) \in S
    BY <1>3
  <2>2. QED BY <2>1
<1> DEFINE h == [range \in D |-> f[range]]
<1>5. ASSUME NEW range \in D PROVE h[range] = OneProbe(h, s, key, range)
  <2>1. Divides(Len(s), range) /\ range[2] - range[1] < Len(s)
    BY <1>0 DEF Divides
  <2>2. h[range] = OneProbe(f, s, key, range)
    BY <1>4, <2>1
  <2>3. range[1] < Middle(range) =>
          h[<<range[1], Middle(range) - 1>>] = f[<<range[1], Middle(range) - 1>>]
    BY <2>1 DEF Divides
  <2>4. Middle(range) < range[2] =>
          h[<<Middle(range) + 1, range[2]>>] = f[<<Middle(range) + 1, range[2]>>]
    BY <2>1 DEF Divides
  <2> HIDE DEF h
  <2>5. QED BY <2>2, <2>3, <2>4 DEF OneProbe
<1>6. h = [range \in D |-> h[range]]
  OBVIOUS
<1> HIDE DEF h
<1>7. h = [range \in D |-> OneProbe(h, s, key, range)]
  BY <1>5, <1>6
<1>8. QED BY <1>7 DEF ProbesAll

LEMMA ProbeIs ==
  ASSUME NEW s, NEW key, Len(s) \in Nat
  PROVE  \E f : ProbesAll(f, s, key) /\ Probe(s, key) = f[<<1, Len(s)>>]
<1> DEFINE c == CHOOSE f : f = [range \in (1..Len(s)) \X (1..Len(s)) |->
             IF key < s[Middle(range)] /\ range[1] < Middle(range)
             THEN f[<<range[1], Middle(range) - 1>>]
             ELSE IF s[Middle(range)] < key /\ Middle(range) < range[2]
             THEN f[<<Middle(range) + 1, range[2]>>]
             ELSE Middle(range)]
<1>1. c = [range \in (1..Len(s)) \X (1..Len(s)) |->
             IF key < s[Middle(range)] /\ range[1] < Middle(range)
             THEN c[<<range[1], Middle(range) - 1>>]
             ELSE IF s[Middle(range)] < key /\ Middle(range) < range[2]
             THEN c[<<Middle(range) + 1, range[2]>>]
             ELSE Middle(range)]
  <2>1. \E f : ProbesAll(f, s, key)
    BY ProbesExist
  <2>2. \E f : f = [range \in (1..Len(s)) \X (1..Len(s)) |->
             IF key < s[Middle(range)] /\ range[1] < Middle(range)
             THEN f[<<range[1], Middle(range) - 1>>]
             ELSE IF s[Middle(range)] < key /\ Middle(range) < range[2]
             THEN f[<<Middle(range) + 1, range[2]>>]
             ELSE Middle(range)]
    BY <2>1, Zenon DEF ProbesAll, OneProbe
  <2>3. QED BY <2>2, Zenon
<1>2. ProbesAll(c, s, key)
  BY <1>1, Zenon DEF ProbesAll, OneProbe
<1>3. Probe(s, key) = c[<<1, Len(s)>>]
  BY Zenon DEF Probe
<1> HIDE DEF c
<1>4. QED BY <1>2, <1>3

\* The place that a search ends at is the key's, or the key would come next to
\* it in the range.
EndsAt(s, key, range, m) ==
  /\ m \in range[1]..range[2]
  /\ key < s[m] => m = range[1] \/ s[m - 1] < key
  /\ s[m] < key => m = range[2] \/ key < s[m + 1]

LEMMA ProbeEnds ==
  ASSUME NEW s \in Seq(Int), NEW key \in Int, s # <<>>
  PROVE  EndsAt(s, key, <<1, Len(s)>>, Probe(s, key))
<1>1. PICK f : ProbesAll(f, s, key) /\ Probe(s, key) = f[<<1, Len(s)>>]
  BY ProbeIs
<1> DEFINE D == (1..Len(s)) \X (1..Len(s))
           S == {n \in Nat : \A range \in D : range[1] <= range[2] /\ range[2] - range[1] < n =>
                                EndsAt(s, key, range, f[range])}
<1>2. \A range \in D : f[range] = OneProbe(f, s, key, range)
  BY <1>1 DEF ProbesAll
<1>3. 0 \in S
  OBVIOUS
<1>4. ASSUME NEW n \in Nat, n \in S PROVE n + 1 \in S
  <2> SUFFICES ASSUME NEW range \in D, range[1] <= range[2], range[2] - range[1] < n + 1
               PROVE  EndsAt(s, key, range, f[range])
    OBVIOUS
  <2> DEFINE lo == range[1]
             hi == range[2]
             mid == Middle(range)
  <2>0. Divides(Len(s), range)
    <3>1. Len(s) \in Nat /\ range \in (1..Len(s)) \X (1..Len(s))
      OBVIOUS
    <3>2. QED BY <3>1, MiddleFacts, Zenon
  <2>1. lo \in 1..Len(s) /\ hi \in 1..Len(s) /\ mid \in lo..hi /\ mid \in 1..Len(s)
    BY <2>0 DEF Divides
  <2>2. f[range] = OneProbe(f, s, key, range)
    BY <1>2
  <2>3. CASE key < s[mid] /\ lo < mid
    <3> DEFINE left == <<lo, mid - 1>>
               m == f[left]
    <3>1. left \in D /\ left[1] = lo /\ left[2] = mid - 1 /\ lo <= mid - 1 /\ (mid - 1) - lo < n
      <4>1. /\ <<lo, mid - 1>> \in (1..Len(s)) \X (1..Len(s))
            /\ (mid - 1) - lo < hi - lo
        BY <2>0, <2>3 DEF Divides
      <4>2. lo <= mid - 1 /\ hi - lo < n + 1 /\ lo \in Int /\ hi \in Int /\ mid \in Int
        BY <2>1, <2>3
      <4>3. (mid - 1) - lo < n
        <5> HIDE DEF lo, hi, mid
        <5>1. QED BY <4>1, <4>2
      <4>4. left \in D /\ left[1] = lo /\ left[2] = mid - 1
        <5>1. left \in D BY <4>1
        <5> HIDE DEF lo, mid
        <5>2. QED BY <5>1
      <4>5. QED BY <4>2, <4>3, <4>4
    <3>2. EndsAt(s, key, left, m)
      BY <1>4, <3>1
    <3>3. f[range] = m
      BY <2>2, <2>3 DEF OneProbe
    <3> HIDE DEF m, left
    <3>4. m \in lo..(mid - 1) /\ m \in lo..hi
          /\ (key < s[m] => m = lo \/ s[m - 1] < key)
          /\ (s[m] < key => m = mid - 1 \/ key < s[m + 1])
      BY <2>1, <3>1, <3>2 DEF EndsAt
    <3>5. m = mid - 1 => key < s[m + 1]
      BY <2>1, <2>3
    <3>6. QED BY <3>3, <3>4, <3>5 DEF EndsAt
  <2>4. CASE ~(key < s[mid] /\ lo < mid) /\ s[mid] < key /\ mid < hi
    <3> DEFINE right == <<mid + 1, hi>>
               m == f[right]
    <3>1. right \in D /\ right[1] = mid + 1 /\ right[2] = hi /\ mid + 1 <= hi /\ hi - (mid + 1) < n
      <4>1. /\ <<mid + 1, hi>> \in (1..Len(s)) \X (1..Len(s))
            /\ hi - (mid + 1) < hi - lo
        BY <2>0, <2>4 DEF Divides
      <4>2. mid + 1 <= hi /\ hi - lo < n + 1 /\ lo \in Int /\ hi \in Int /\ mid \in Int
        BY <2>1, <2>4
      <4>3. hi - (mid + 1) < n
        <5> HIDE DEF lo, hi, mid
        <5>1. QED BY <4>1, <4>2
      <4>4. right \in D /\ right[1] = mid + 1 /\ right[2] = hi
        <5>1. right \in D BY <4>1
        <5> HIDE DEF hi, mid
        <5>2. QED BY <5>1
      <4>5. QED BY <4>2, <4>3, <4>4
    <3>2. EndsAt(s, key, right, m)
      BY <1>4, <3>1
    <3>3. f[range] = m
      BY <2>2, <2>4 DEF OneProbe
    <3> HIDE DEF m, right
    <3>4. m \in (mid + 1)..hi /\ m \in lo..hi
          /\ (key < s[m] => m = mid + 1 \/ s[m - 1] < key)
          /\ (s[m] < key => m = hi \/ key < s[m + 1])
      BY <2>1, <3>1, <3>2 DEF EndsAt
    <3>5. m = mid + 1 => s[m - 1] < key
      <4>1. ASSUME m = mid + 1 PROVE m - 1 = mid
        BY <2>1, <4>1
      <4>2. QED BY <2>4, <4>1
    <3>6. QED BY <3>3, <3>4, <3>5 DEF EndsAt
  <2>5. CASE ~(key < s[mid] /\ lo < mid) /\ ~(s[mid] < key /\ mid < hi)
    <3>1. f[range] = mid
      BY <2>2, <2>5 DEF OneProbe
    <3>2. key < s[mid] => mid = lo
      BY <2>1, <2>5
    <3>3. s[mid] < key => mid = hi
      BY <2>1, <2>5
    <3>4. QED BY <2>1, <3>1, <3>2, <3>3 DEF EndsAt
  <2>6. QED BY <2>3, <2>4, <2>5
<1> HIDE DEF S
<1>5. Nat \subseteq S
  BY <1>3, <1>4, AllNumbers
<1> USE DEF S
<1>6. <<1, Len(s)>> \in D /\ <<1, Len(s)>>[1] = 1 /\ <<1, Len(s)>>[2] = Len(s) /\ 1 <= Len(s)
      /\ Len(s) - 1 < Len(s) /\ Len(s) \in Nat
  OBVIOUS
<1>7. Len(s) \in S
  BY <1>5, <1>6
<1>8. EndsAt(s, key, <<1, Len(s)>>, f[<<1, Len(s)>>])
  BY <1>6, <1>7
<1>9. QED BY <1>1, <1>8

\* In an ordered sequence the elements are in order, not only those side by side.
LEMMA OrderedAll ==
  ASSUME NEW s \in Seq(Int), Ordered(s), NEW i \in 1..Len(s), NEW j \in 1..Len(s), i <= j
  PROVE  s[i] <= s[j]
<1> DEFINE S == {n \in Nat : i + n <= Len(s) => s[i] <= s[i + n]}
<1>1. 0 \in S
  OBVIOUS
<1>2. ASSUME NEW n \in Nat, n \in S PROVE n + 1 \in S
  <2>1. SUFFICES ASSUME i + (n + 1) <= Len(s) PROVE s[i] <= s[i + (n + 1)]
    OBVIOUS
  <2>2. i + n \in 1..(Len(s) - 1) /\ i + (n + 1) = (i + n) + 1 /\ i + n \in 1..Len(s)
        /\ i + (n + 1) \in 1..Len(s)
    BY <2>1
  <2>3. s[i + n] <= s[(i + n) + 1]
    BY <2>2 DEF Ordered
  <2>4. s[i] <= s[i + n]
    BY <1>2, <2>2
  <2>5. s[i] \in Int /\ s[i + n] \in Int /\ s[i + (n + 1)] \in Int
    BY <2>2
  <2>6. QED BY <2>2, <2>3, <2>4, <2>5
<1> HIDE DEF S
<1>3. Nat \subseteq S
  BY <1>1, <1>2, AllNumbers
<1> USE DEF S
<1>4. j - i \in S /\ i + (j - i) = j
  BY <1>3
<1>5. QED BY <1>4

\* How many elements are below a key that comes behind the place m.
LEMMA BelowCount ==
  ASSUME NEW s \in Seq(Int), Ordered(s), NEW key \in Int, NEW m \in 0..Len(s),
         m # 0 => s[m] < key, m # Len(s) => key < s[m + 1]
  PROVE  /\ Cardinality({i \in 1..Len(s) : s[i] < key}) = m
         /\ key \notin ToSet(s)
<1>1. ASSUME NEW i \in 1..Len(s) PROVE (s[i] < key <=> i <= m) /\ s[i] # key
  <2>1. CASE i <= m
    <3>1. m \in 1..Len(s) /\ m # 0 BY <2>1
    <3>2. s[i] <= s[m] BY <2>1, <3>1, OrderedAll
    <3>3. s[i] \in Int /\ s[m] \in Int BY <3>1
    <3>4. QED BY <2>1, <3>1, <3>2, <3>3
  <2>2. CASE ~(i <= m)
    <3>1. m + 1 \in 1..Len(s) /\ m # Len(s) /\ m + 1 <= i BY <2>2
    <3>2. s[m + 1] <= s[i] BY <3>1, OrderedAll
    <3>3. s[i] \in Int /\ s[m + 1] \in Int BY <3>1
    <3>4. QED BY <2>2, <3>1, <3>2, <3>3
  <2>3. QED BY <2>1, <2>2
<1>2. {i \in 1..Len(s) : s[i] < key} = 1..m
  BY <1>1
<1>3. Cardinality(1..m) = m
  <2>1. m \in Int /\ 1 \in Int
    OBVIOUS
  <2>2. Cardinality(1..m) = IF 1 > m THEN 0 ELSE m - 1 + 1
    BY <2>1, FS_Interval
  <2>3. QED BY <2>2
<1>4. key \notin ToSet(s)
  BY <1>1 DEF ToSet
<1>5. QED BY <1>2, <1>3, <1>4

\* What an array's fields can be, and the last answer of a search.
ArrayInv ==
  /\ array \in [state : {"none", "live", "freed"}, elems : Seq(ArrayKeys), allocated : Nat,
                cursor : Nat]
  /\ array.state # "live" => array.allocated = 0
  /\ memory \in [counted : Int, live : Int]
  /\ MemoryIsTrue
  /\ NeighboursAreTrue

\* The answer of a search in an ordered array.
LEMMA NeighboursShow ==
  ASSUME NEW s \in Seq(Int), Ordered(s), NEW key \in Int
  PROVE  LET a == Neighbours(s, key)
             below == Cardinality({i \in 1..Len(s) : s[i] < key})
         IN /\ a.key = key
            /\ IF key \in ToSet(s)
               THEN /\ a.found # 0 /\ s[a.found] = key
                    /\ a.before = a.found - 1
                    /\ a.after = (a.found + 1) % (Len(s) + 1)
               ELSE /\ a.found = 0
                    /\ a.before = below
                    /\ a.after = IF s = <<>> THEN 0 ELSE (below + 1) % (Len(s) + 1)
<1> DEFINE at == Probe(s, key)
           up == IF at < Len(s) THEN at + 1 ELSE 0
           below == Cardinality({i \in 1..Len(s) : s[i] < key})
           answer(f, b, a) == [done |-> TRUE, key |-> key, found |-> f, before |-> b, after |-> a]
<1>1. CASE s = <<>>
  <2>1. Neighbours(s, key) = answer(0, 0, 0)
    BY <1>1 DEF Neighbours
  <2>2. Cardinality({i \in 1..Len(s) : s[i] < key}) = 0 /\ key \notin ToSet(s)
    <3>1. 0 \in 0..Len(s) /\ Len(s) = 0 BY <1>1
    <3>2. QED BY <3>1, BelowCount
  <2> HIDE DEF below
  <2>3. QED BY <1>1, <2>1, <2>2 DEF below
<1>2. CASE s # <<>>
  <2>1. EndsAt(s, key, <<1, Len(s)>>, at)
    BY <1>2, ProbeEnds
  <2>2. /\ at \in 1..Len(s) /\ s[at] \in Int
        /\ key < s[at] => at = 1 \/ s[at - 1] < key
        /\ s[at] < key => at = Len(s) \/ key < s[at + 1]
    BY <2>1 DEF EndsAt
  <2>3. \A n \in 1..Len(s) : (n + 1) % (Len(s) + 1) = IF n < Len(s) THEN n + 1 ELSE 0
    <3>1. ASSUME NEW l \in Nat, NEW n \in 1..l PROVE (n + 1) % (l + 1) = IF n < l THEN n + 1 ELSE 0
      <4>1. CASE n < l
        <5>1. n + 1 \in 0..((l + 1) - 1) /\ l + 1 \in Nat \ {0}
          BY <4>1
        <5>2. (n + 1) % (l + 1) = n + 1
          BY <5>1, SMTT(30)
        <5>3. QED BY <4>1, <5>2
      <4>2. CASE n = l
        <5>1. l + 1 \in Nat \ {0}
          OBVIOUS
        <5>2. (l + 1) % (l + 1) = 0
          BY <5>1, SMTT(30)
        <5>3. QED BY <4>2, <5>2
      <4>3. QED BY <4>1, <4>2
    <3>2. Len(s) \in Nat
      OBVIOUS
    <3>3. QED BY <3>1, <3>2
  <2>0. /\ s[at] = key => Neighbours(s, key) = answer(at, at - 1, up)
        /\ s[at] # key /\ key < s[at] => Neighbours(s, key) = answer(0, at - 1, at)
        /\ s[at] # key /\ ~(key < s[at]) => Neighbours(s, key) = answer(0, at, up)
    <3> HIDE DEF up
    <3>1. Neighbours(s, key) =
            IF s[at] = key THEN answer(at, at - 1, up)
            ELSE IF key < s[at] THEN answer(0, at - 1, at) ELSE answer(0, at, up)
      BY <1>2, Zenon DEF Neighbours, up
    <3> HIDE DEF at, answer
    <3>2. QED BY <3>1
  <2> HIDE DEF at
  <2>4. CASE s[at] = key
    <3>1. Neighbours(s, key) = answer(at, at - 1, up)
      BY <2>0, <2>4
    <3>2. key \in ToSet(s)
      BY <2>2, <2>4 DEF ToSet
    <3>3. up = (at + 1) % (Len(s) + 1)
      BY <2>2, <2>3
    <3>4. QED BY <2>2, <2>4, <3>1, <3>2, <3>3
  <2>5. CASE key < s[at]
    <3>1. Neighbours(s, key) = answer(0, at - 1, at)
      BY <2>0, <2>2, <2>5
    <3>2. at - 1 \in 0..Len(s) /\ (at - 1 # 0 => s[at - 1] < key) /\ (at - 1) + 1 = at
      BY <2>2, <2>5
    <3>3. Cardinality({i \in 1..Len(s) : s[i] < key}) = at - 1 /\ key \notin ToSet(s)
      BY <2>5, <3>2, BelowCount
    <3>4. at = at % (Len(s) + 1)
      BY <2>2
    <3> HIDE DEF below
    <3>5. below = at - 1 BY <3>3 DEF below
    <3>6. QED BY <1>2, <3>1, <3>2, <3>3, <3>4, <3>5 DEF below
  <2>6. CASE s[at] < key
    <3>1. Neighbours(s, key) = answer(0, at, up)
      BY <2>0, <2>2, <2>6
    <3>2. at \in 0..Len(s) /\ (at # Len(s) => key < s[at + 1])
      BY <2>2, <2>6
    <3>3. Cardinality({i \in 1..Len(s) : s[i] < key}) = at /\ key \notin ToSet(s)
      BY <2>6, <3>2, BelowCount
    <3>4. up = (at + 1) % (Len(s) + 1)
      BY <2>2, <2>3
    <3> HIDE DEF below, up
    <3>5. below = at BY <3>3 DEF below
    <3>6. QED BY <1>2, <3>1, <3>3, <3>4, <3>5 DEF below
  <2>7. QED BY <2>2, <2>4, <2>5, <2>6
<1>3. QED BY <1>1, <1>2

LEMMA ArrayInitInv == ArrayInit => ArrayInv
  BY ContainersAssumption DEF ArrayInit, ArrayInv, NoArray, NoSearch, MemoryIsTrue, NeighboursAreTrue

\* Every step but a search forgets the last answer, or leaves the array alone.
LEMMA ArrayKeeps ==
  ASSUME ArrayInv, array' \in [state : {"none", "live", "freed"}, elems : Seq(ArrayKeys),
                               allocated : Nat, cursor : Nat],
         array'.state # "live" => array'.allocated = 0,
         Len(array'.elems) <= array'.allocated, array'.allocated <= MaxAllocatable,
         memory' = [counted |-> array'.allocated, live |-> array'.allocated],
         search' = NoSearch \/ (search' = search /\ array'.elems = array.elems)
  PROVE  ArrayInv'
<1>1. memory' \in [counted : Int, live : Int] /\ MemoryIsTrue'
  BY DEF MemoryIsTrue
<1>2. NeighboursAreTrue'
  <2>1. CASE search' = NoSearch
    BY <2>1 DEF NeighboursAreTrue, NoSearch
  <2>2. CASE search' = search /\ array'.elems = array.elems
    BY <2>2 DEF NeighboursAreTrue, ArrayInv
  <2>3. QED BY <2>1, <2>2
<1>3. QED BY <1>1, <1>2 DEF ArrayInv

LEMMA MemoryNow ==
  ASSUME ArrayInv
  PROVE  /\ memory = [counted |-> array.allocated, live |-> array.allocated]
         /\ array.allocated \in Nat /\ array.elems \in Seq(ArrayKeys) /\ array.cursor \in Nat
         /\ array = [state |-> array.state, elems |-> array.elems, allocated |-> array.allocated,
                     cursor |-> array.cursor]
         /\ Len(array.elems) <= array.allocated /\ array.allocated <= MaxAllocatable
  BY DEF ArrayInv, MemoryIsTrue

LEMMA CreateKeeps ==
  ASSUME ArrayInv, CreateArray
  PROVE  ArrayInv'
<1>1. InitialSize \in Nat /\ array.allocated = 0 /\ search' = NoSearch
  BY ContainersAssumption DEF CreateArray, ArrayInv
<1>2. CASE CanGrow(NoArray, InitialSize)
  <2>1. /\ array' = [state |-> "live", elems |-> <<>>, allocated |-> InitialSize, cursor |-> 0]
        /\ memory' = Counted1(memory, InitialSize, 0) /\ InitialSize <= MaxAllocatable
    <3>1. Grown(NoArray, InitialSize) =
            [state |-> "none", elems |-> <<>>, allocated |-> InitialSize, cursor |-> 0]
      BY <1>1 DEF Grown, NoArray
    <3>2. array' = [Grown(NoArray, InitialSize) EXCEPT !.state = "live"]
          /\ memory' = Counted1(memory, InitialSize, 0)
      BY <1>2 DEF CreateArray
    <3>3. InitialSize <= MaxAllocatable
      BY <1>1, <1>2 DEF CanGrow, NoArray
    <3>4. QED BY <3>1, <3>2, <3>3
  <2>2. memory' = [counted |-> InitialSize, live |-> InitialSize]
    BY <1>1, <2>1, MemoryNow DEF Counted1
  <2>3. QED BY <1>1, <2>1, <2>2, ArrayKeeps
<1>3. CASE ~CanGrow(NoArray, InitialSize)
  BY <1>1, <1>3, MemoryNow, ArrayKeeps DEF CreateArray, ArrayInv
<1>4. QED BY <1>2, <1>3

LEMMA AddKeeps ==
  ASSUME ArrayInv, NEW k \in ArrayKeys, AddNewElement(k)
  PROVE  ArrayInv'
<1>1. /\ array.state = "live" /\ search' = NoSearch /\ Growth \in Nat \ {0}
      /\ Append(array.elems, k) \in Seq(ArrayKeys)
      /\ Len(Append(array.elems, k)) = Len(array.elems) + 1
  BY ContainersAssumption, MemoryNow DEF AddNewElement
<1>2. CASE Len(array.elems) < array.allocated
  <2>1. /\ array' = [state |-> "live", elems |-> Append(array.elems, k),
                     allocated |-> array.allocated, cursor |-> array.cursor]
        /\ memory' = memory
    BY <1>1, <1>2, MemoryNow DEF AddNewElement
  <2>2. QED BY <1>1, <1>2, <2>1, MemoryNow, ArrayKeeps
<1>3. CASE ~(Len(array.elems) < array.allocated) /\ memory' = memory
  <2>1. array' = array
    BY <1>1, <1>3, MemoryNow, ContainersAssumption DEF AddNewElement, Counted1
  <2>2. QED BY <1>1, <1>3, <2>1, MemoryNow, ArrayKeeps DEF ArrayInv
<1>4. CASE ~(Len(array.elems) < array.allocated) /\ memory' # memory
  <2>1. /\ array' = [state |-> "live", elems |-> Append(array.elems, k),
                     allocated |-> array.allocated + Growth, cursor |-> array.cursor]
        /\ memory' = Counted1(memory, array.allocated + Growth, array.allocated)
        /\ array.allocated + Growth <= MaxAllocatable
        /\ Len(array.elems) = array.allocated
    BY <1>1, <1>4, MemoryNow DEF AddNewElement, CanGrow, Grown
  <2>2. memory' = [counted |-> array.allocated + Growth, live |-> array.allocated + Growth]
    BY <1>1, <2>1, MemoryNow DEF Counted1
  <2>3. QED BY <1>1, <2>1, <2>2, MemoryNow, ArrayKeeps
<1>5. QED BY <1>2, <1>3, <1>4

LEMMA CursorKeeps ==
  ASSUME ArrayInv, GetFirst \/ GetNext
  PROVE  ArrayInv'
<1>1. /\ array.state = "live" /\ search' = search /\ memory' = memory
      /\ \E c \in Nat : array' = [array EXCEPT !.cursor = c]
  BY MemoryNow DEF GetFirst, GetNext
<1>2. PICK c \in Nat : array' = [array EXCEPT !.cursor = c]
  BY <1>1
<1>3. array' = [state |-> "live", elems |-> array.elems, allocated |-> array.allocated, cursor |-> c]
  BY <1>1, <1>2, MemoryNow
<1>4. QED BY <1>1, <1>3, MemoryNow, ArrayKeeps

LEMMA EmptyFreeKeep ==
  ASSUME ArrayInv, EmptyArray \/ FreeArray
  PROVE  ArrayInv'
<1>1. CASE EmptyArray
  <2>1. /\ array' = [state |-> "live", elems |-> <<>>, allocated |-> array.allocated, cursor |-> 0]
        /\ memory' = memory /\ search' = NoSearch
    BY <1>1, MemoryNow DEF EmptyArray
  <2>2. QED BY <2>1, MemoryNow, ArrayKeeps
<1>2. CASE FreeArray
  <2>1. /\ array' = [state |-> "freed", elems |-> <<>>, allocated |-> 0, cursor |-> array.cursor]
        /\ memory' = Counted1(memory, 0, array.allocated) /\ search' = NoSearch
    BY <1>2, MemoryNow DEF FreeArray, NoArray
  <2>2. memory' = [counted |-> 0, live |-> 0]
    BY <2>1, MemoryNow DEF Counted1
  <2>3. MaxAllocatable \in Nat
    BY ContainersAssumption
  <2>4. QED BY <2>1, <2>2, <2>3, MemoryNow, ArrayKeeps
<1>3. QED BY <1>1, <1>2

LEMMA SortKeeps ==
  ASSUME ArrayInv, Sort
  PROVE  ArrayInv'
<1>1. PICK order \in Bijection(DOMAIN array.elems, DOMAIN array.elems) :
        array' = [array EXCEPT !.elems = [i \in 1..Len(array.elems) |-> array.elems[order[i]]]]
  BY DEF Sort
<1> DEFINE sorted == [i \in 1..Len(array.elems) |-> array.elems[order[i]]]
<1>2. order \in [DOMAIN array.elems -> DOMAIN array.elems]
  BY DEF Bijection, Injection
<1>3. DOMAIN array.elems = 1..Len(array.elems) /\ Len(array.elems) \in Nat
  BY MemoryNow
<1>4. \A i \in 1..Len(array.elems) : array.elems[order[i]] \in ArrayKeys
  BY <1>2, <1>3, MemoryNow
<1>5. sorted \in Seq(ArrayKeys) /\ Len(sorted) = Len(array.elems)
  BY <1>3, <1>4
<1> HIDE DEF sorted
<1>6. array.state = "live" /\ memory' = memory /\ search' = NoSearch
  BY DEF Sort
<1>7. array' = [state |-> "live", elems |-> sorted, allocated |-> array.allocated,
                cursor |-> array.cursor]
  BY <1>1, <1>6, MemoryNow DEF sorted
<1>8. QED BY <1>5, <1>6, <1>7, MemoryNow, ArrayKeeps

LEMMA SearchKeeps ==
  ASSUME ArrayInv, NEW key \in ArrayKeys, Search(key)
  PROVE  ArrayInv'
<1>1. array' = array /\ memory' = memory /\ search' = Neighbours(array.elems, key)
      /\ Ordered(array.elems)
  BY DEF Search
<1>2. array.elems \in Seq(Int) /\ key \in Int
  BY MemoryNow, ContainersAssumption
<1>3. NeighboursAreTrue'
  <2> DEFINE s == array.elems
             a == Neighbours(s, key)
             below == Cardinality({i \in 1..Len(s) : s[i] < key})
  <2>1. /\ a.key = key
        /\ IF key \in ToSet(s)
           THEN /\ a.found # 0 /\ s[a.found] = key
                /\ a.before = a.found - 1
                /\ a.after = (a.found + 1) % (Len(s) + 1)
           ELSE /\ a.found = 0
                /\ a.before = below
                /\ a.after = IF s = <<>> THEN 0 ELSE (below + 1) % (Len(s) + 1)
    BY <1>1, <1>2, NeighboursShow
  <2>2. array'.elems = s /\ search' = a
    BY <1>1
  <2> HIDE DEF a, s
  <2>3. QED BY <2>1, <2>2 DEF NeighboursAreTrue
<1>4. QED BY <1>1, <1>3 DEF ArrayInv, MemoryIsTrue

LEMMA ArrayStep == ArrayInv /\ [ArrayNext]_arrayVars => ArrayInv'
<1>1. ASSUME ArrayInv, UNCHANGED arrayVars PROVE ArrayInv'
  BY <1>1 DEF ArrayInv, arrayVars, MemoryIsTrue, NeighboursAreTrue
<1>2. ASSUME ArrayInv, ArrayNext PROVE ArrayInv'
  BY <1>2, CreateKeeps, AddKeeps, CursorKeeps, EmptyFreeKeep, SortKeeps, SearchKeeps DEF ArrayNext
<1>3. QED BY <1>1, <1>2

LEMMA ContainersOfLib == [LibNext]_libVars => [ListNext]_listVars /\ [ArrayNext]_arrayVars
  BY DEF libVars, responseVars, dataVars, LibNext, SybPart, ClientPart, GatewayPart, ReaderPart,
     ListPart, ArrayPart, ConfigPart, SocketPart, TextPart, QueuePart, ForwardPart

\* A loop over a list gives every element of it once, whatever removals at the
\* cursor do to it; an array never counts more elements than it has room for,
\* and its memory is its own; and the search finds a key that is there, between
\* the neighbours it names: for any data, any room of an array and any number of
\* operations.
THEOREM ContainersTrue == LibSpec => []ContainersAreTrue
<1> DEFINE Inv == LoopInv /\ ArrayInv
<1>1. LibInit => Inv
  BY LoopInitInv, ArrayInitInv DEF LibInit
<1>2. Inv /\ [LibNext]_libVars => Inv'
  <2> SUFFICES ASSUME LoopInv, ArrayInv, [LibNext]_libVars PROVE LoopInv' /\ ArrayInv'
    OBVIOUS
  <2>1. [ListNext]_listVars /\ [ArrayNext]_arrayVars
    BY ContainersOfLib
  <2>2. QED BY <2>1, LoopStep, ArrayStep
<1>3. Inv => ContainersAreTrue
  BY LoopShows DEF ArrayInv, ContainersAreTrue
<1>4. QED BY <1>1, <1>2, <1>3, PTL DEF LibSpec

-----------------------------------------------------------------------------
(* The text of a call: nothing of one parameter shows in another one       *)

TextChars == {"letter", "digit", "sign", "dot", "at", "space", "equal", "quote", "comma",
              "other", "open", "close", "end"}
TextEnds == {"OK", "ERROR_RPC", "ERROR_PARM"}
BeforeParm == {"start", "name", "next"}
InName == {"param name", "named", "equal"}
InValue == {"value", "quoted", "date", "after value", "out", "after out"}
TextLevels == BeforeParm \cup InName \cup InValue
TextPlace == Nat \X Nat
TextBuffers ==
  [name : TextPlace, value : TextPlace, out : TextPlace, word : TextPlace,
   chars : Seq(TextChars), quote : {"none", "quote", "date"}, current : 0..TableSize,
   from : Nat, ok : BOOLEAN]
TextParam ==
  [name : TextPlace, value : TextPlace, out : TextPlace, chars : Seq(TextChars),
   quote : {"none", "quote", "date"}, kind : {"CHAR", "DATETIME", "INT", "FLOAT"},
   from : Nat, to : Nat]

\* A place in the text n, behind from and up to to.
InPart(f, n, from, to) == f[1] = n /\ f[2] \in (from + 1)..to

\* What the buffers hold at a level: fields of the parameter that is read, which
\* begins behind b.from, and none that it does not have yet.
BuffersOwn(b, level, n, at) ==
  /\ b.ok /\ b.from < at
  /\ \A f \in {b.name, b.value, b.out} : f # Nowhere => InPart(f, n, b.from, at - 1)
  /\ level \in BeforeParm => b.name = Nowhere
  /\ level \notin InValue => b.value = Nowhere /\ b.out = Nowhere
  /\ level \in InValue => b.value # Nowhere /\ (b.name # Nowhere => b.name[2] < b.value[2])
  /\ level = "out" => InPart(b.word, n, b.from, at - 1)

TextInv ==
  /\ text \in [number : Nat, chars : SUBSET TextChars, at : Nat, level : TextLevels \cup {"idle"}]
  /\ buffers \in TextBuffers
  /\ "table" \in DOMAIN params /\ params.table \in Seq(TextParam)
  /\ text.level # "idle" =>
       text.number # 0 /\ BuffersOwn(buffers, text.level, text.number, text.at)
  /\ FieldsAreOwn

\* What a turn of the automaton leads to, by what it does.
LeadsTo(level, t) ==
  \/ /\ t.do = <<>>
     /\ t.level \in TextEnds \/ \E same \in {BeforeParm, InName, InValue} :
                                   level \in same /\ t.level \in same
     /\ t.level = "out" => level = "out"
  \/ t.do = <<"name">> /\ level \in BeforeParm /\ t.level = "name"
  \/ t.do = <<"name begins">> /\ level \in BeforeParm /\ t.level = "param name"
  \/ /\ t.do \in {<<"value begins">>, <<"quote begins">>, <<"date begins">>}
     /\ level \in BeforeParm \cup InName /\ t.level \in InValue \ {"out"}
  \/ t.do = <<"value">> /\ level \in InValue /\ t.level \in InValue \ {"out"}
  \/ t.do = <<"out begins">> /\ level \in InValue /\ t.level = "out"
  \/ t.do = <<"out">> /\ level = "out" /\ t.level = "after out"
  \/ t.do = <<"param">> /\ level \in InValue /\ t.level = "OK"
  \/ t.do = <<"param", "more">> /\ level \in InValue /\ t.level = "next"
  \/ t.do = <<"out", "param">> /\ level = "out" /\ t.level = "OK"
  \/ t.do = <<"out", "param", "more">> /\ level = "out" /\ t.level = "next"

LEMMA TurnLeads ==
  ASSUME NEW level \in TextLevels, NEW c \in TextChars
  PROVE  LeadsTo(level, Turn(level, c))
<1> USE DEF To, Error, TextEnds, BeforeParm, InName, InValue
<1>1. CASE level = "start"
  BY <1>1, ZenonT(60) DEF Turn, LeadsTo
<1>2. CASE level = "name"
  BY <1>2, ZenonT(60) DEF Turn, LeadsTo
<1>3. CASE level = "next"
  BY <1>3, ZenonT(60) DEF Turn, LeadsTo
<1>4. CASE level = "param name"
  BY <1>4, ZenonT(60) DEF Turn, LeadsTo
<1>5. CASE level = "named"
  BY <1>5, ZenonT(60) DEF Turn, LeadsTo
<1>6. CASE level = "equal"
  BY <1>6, ZenonT(60) DEF Turn, LeadsTo
<1>7. CASE level = "value"
  BY <1>7, ZenonT(60) DEF Turn, LeadsTo
<1>8. CASE level = "quoted"
  BY <1>8, ZenonT(60) DEF Turn, LeadsTo
<1>9. CASE level = "date"
  BY <1>9, ZenonT(60) DEF Turn, LeadsTo
<1>10. CASE level = "after value"
  BY <1>10, ZenonT(60) DEF Turn, LeadsTo
<1>11. CASE level = "out"
  BY <1>11, ZenonT(60) DEF Turn, LeadsTo
<1>12. CASE level = "after out"
  BY <1>12, ZenonT(60) DEF Turn, LeadsTo
<1>13. QED BY <1>1, <1>2, <1>3, <1>4, <1>5, <1>6, <1>7, <1>8, <1>9, <1>10, <1>11, <1>12
            DEF TextLevels

\* One function of a list, and the buffers after each function of it.
OneDone(f, c, b, isOut) == IF b.ok THEN Effect(f, c, b, isOut) ELSE b

DoneAll(a, do, c, b, isOut) ==
  a = [n \in 0..Len(do) |-> IF n = 0 THEN b ELSE OneDone(do[n], c, a[n - 1], isOut)]

LEMMA DoneExists ==
  ASSUME NEW do, NEW c, NEW b, NEW isOut, Len(do) \in Nat
  PROVE  \E a : DoneAll(a, do, c, b, isOut)
<1> DEFINE P(a, n) == \A i \in 0..n : a[i] = IF i = 0 THEN b ELSE OneDone(do[i], c, a[i - 1], isOut)
           S == {n \in Nat : \E a : P(a, n)}
<1>1. 0 \in S
  <2>1. P([i \in 0..0 |-> b], 0)
    OBVIOUS
  <2>2. QED BY <2>1
<1>2. ASSUME NEW n \in Nat, n \in S PROVE n + 1 \in S
  <2>1. PICK a : P(a, n)
    BY <1>2
  <2> DEFINE g == [i \in 0..(n + 1) |-> IF i = n + 1 THEN OneDone(do[n + 1], c, a[n], isOut) ELSE a[i]]
  <2>2. ASSUME NEW i \in 0..(n + 1)
        PROVE  g[i] = IF i = 0 THEN b ELSE OneDone(do[i], c, g[i - 1], isOut)
    <3>1. CASE i = n + 1
      <4>1. i # 0 /\ n \in 0..(n + 1) /\ n # n + 1 /\ i - 1 = n
        BY <3>1
      <4>2. g[i] = OneDone(do[n + 1], c, a[n], isOut) /\ g[n] = a[n]
        BY <3>1, <4>1
      <4>3. QED BY <3>1, <4>1, <4>2
    <3>2. CASE i # n + 1
      <4>1. i \in 0..n
        BY <3>2
      <4>2. g[i] = a[i]
        BY <3>2
      <4>3. i # 0 => i - 1 \in 0..(n + 1) /\ i - 1 # n + 1
        BY <4>1
      <4>4. i # 0 => g[i - 1] = a[i - 1]
        BY <4>3
      <4>5. a[i] = IF i = 0 THEN b ELSE OneDone(do[i], c, a[i - 1], isOut)
        BY <2>1, <4>1
      <4>6. QED BY <4>2, <4>4, <4>5
    <3>3. QED BY <3>1, <3>2
  <2> HIDE DEF g
  <2>3. P(g, n + 1)
    BY <2>2
  <2>4. QED BY <2>3
<1> HIDE DEF S
<1>3. Nat \subseteq S
  BY <1>1, <1>2, AllNumbers
<1> USE DEF S
<1>4. PICK a : P(a, Len(do))
  <2>1. Len(do) \in S
    BY <1>3
  <2>2. QED BY <2>1
<1> DEFINE h == [i \in 0..Len(do) |-> a[i]]
<1>5. ASSUME NEW i \in 0..Len(do)
      PROVE  h[i] = IF i = 0 THEN b ELSE OneDone(do[i], c, h[i - 1], isOut)
  <2>1. i # 0 => i - 1 \in 0..Len(do)
    OBVIOUS
  <2>2. i # 0 => h[i - 1] = a[i - 1]
    BY <2>1
  <2>3. h[i] = a[i]
    OBVIOUS
  <2> HIDE DEF h
  <2>4. QED BY <1>4, <2>2, <2>3
<1>6. h = [i \in 0..Len(do) |-> h[i]]
  OBVIOUS
<1> HIDE DEF h
<1>7. h = [i \in 0..Len(do) |-> IF i = 0 THEN b ELSE OneDone(do[i], c, h[i - 1], isOut)]
  BY <1>5, <1>6
<1>8. QED BY <1>7 DEF DoneAll

LEMMA DoneIs ==
  ASSUME NEW do, NEW c, NEW b, NEW isOut, Len(do) \in Nat
  PROVE  \E a : DoneAll(a, do, c, b, isOut) /\ Done(do, c, b, isOut) = a[Len(do)]
<1> DEFINE d == CHOOSE a : a = [n \in 0..Len(do) |->
                   IF n = 0 THEN b
                   ELSE IF a[n - 1].ok THEN Effect(do[n], c, a[n - 1], isOut) ELSE a[n - 1]]
<1>1. d = [n \in 0..Len(do) |->
             IF n = 0 THEN b
             ELSE IF d[n - 1].ok THEN Effect(do[n], c, d[n - 1], isOut) ELSE d[n - 1]]
  <2>1. \E a : DoneAll(a, do, c, b, isOut)
    BY DoneExists
  <2>2. \E a : a = [n \in 0..Len(do) |->
                   IF n = 0 THEN b
                   ELSE IF a[n - 1].ok THEN Effect(do[n], c, a[n - 1], isOut) ELSE a[n - 1]]
    BY <2>1, Zenon DEF DoneAll, OneDone
  <2>3. QED BY <2>2, Zenon
<1>2. DoneAll(d, do, c, b, isOut)
  BY <1>1, Zenon DEF DoneAll, OneDone
<1>3. Done(do, c, b, isOut) = d[Len(do)]
  BY Zenon DEF Done
<1> HIDE DEF d
<1>4. QED BY <1>2, <1>3

\* The lists of the automaton have at most three functions.
LEMMA DoneNone ==
  ASSUME NEW c, NEW b, NEW isOut
  PROVE  Done(<<>>, c, b, isOut) = b
<1>1. Len(<<>>) = 0
  OBVIOUS
<1>2. PICK a : DoneAll(a, <<>>, c, b, isOut) /\ Done(<<>>, c, b, isOut) = a[Len(<<>>)]
  BY <1>1, DoneIs
<1>3. QED BY <1>1, <1>2 DEF DoneAll

LEMMA DoneOne ==
  ASSUME NEW c, NEW b, NEW isOut, NEW f
  PROVE  Done(<<f>>, c, b, isOut) = OneDone(f, c, b, isOut)
<1> DEFINE do == <<f>>
<1>1. Len(do) = 1 /\ Len(do) \in Nat /\ do[1] = f
  OBVIOUS
<1> HIDE DEF do
<1>2. PICK a : DoneAll(a, do, c, b, isOut) /\ Done(do, c, b, isOut) = a[Len(do)]
  BY <1>1, DoneIs, Zenon
<1>3. a[0] = b /\ a[1] = OneDone(do[1], c, a[0], isOut)
  BY <1>1, <1>2 DEF DoneAll
<1>4. QED BY <1>1, <1>2, <1>3 DEF do

LEMMA DoneTwo ==
  ASSUME NEW c, NEW b, NEW isOut, NEW f, NEW g
  PROVE  Done(<<f, g>>, c, b, isOut) = OneDone(g, c, OneDone(f, c, b, isOut), isOut)
<1> DEFINE do == <<f, g>>
<1>1. Len(do) = 2 /\ Len(do) \in Nat /\ do[1] = f /\ do[2] = g
  OBVIOUS
<1> HIDE DEF do
<1>2. PICK a : DoneAll(a, do, c, b, isOut) /\ Done(do, c, b, isOut) = a[Len(do)]
  BY <1>1, DoneIs, Zenon
<1>3. a[0] = b /\ a[1] = OneDone(do[1], c, a[0], isOut) /\ a[2] = OneDone(do[2], c, a[1], isOut)
  BY <1>1, <1>2 DEF DoneAll
<1>4. QED BY <1>1, <1>2, <1>3 DEF do

LEMMA DoneThree ==
  ASSUME NEW c, NEW b, NEW isOut, NEW f, NEW g, NEW h
  PROVE  Done(<<f, g, h>>, c, b, isOut)
         = OneDone(h, c, OneDone(g, c, OneDone(f, c, b, isOut), isOut), isOut)
<1> DEFINE do == <<f, g, h>>
<1>1. Len(do) = 3 /\ Len(do) \in Nat /\ do[1] = f /\ do[2] = g /\ do[3] = h
  OBVIOUS
<1> HIDE DEF do
<1>2. PICK a : DoneAll(a, do, c, b, isOut) /\ Done(do, c, b, isOut) = a[Len(do)]
  BY <1>1, DoneIs, Zenon
<1>3. /\ a[0] = b /\ a[1] = OneDone(do[1], c, a[0], isOut)
      /\ a[2] = OneDone(do[2], c, a[1], isOut) /\ a[3] = OneDone(do[3], c, a[2], isOut)
  BY <1>1, <1>2 DEF DoneAll
<1>4. QED BY <1>1, <1>2, <1>3 DEF do

LEMMA OneMoreChar ==
  ASSUME NEW D, NEW s \in Seq(D), NEW d \in D
  PROVE  Append(s, d) \in Seq(D) /\ <<d>> \in Seq(D) /\ <<>> \in Seq(D)
  OBVIOUS

LEMMA OneMoreEntry ==
  ASSUME NEW n \in 0..TableSize
  PROVE  /\ (IF n = 0 THEN 1 ELSE n) \in 0..TableSize
         /\ ~(n >= TableSize) => n + 1 \in 0..TableSize
<1>1. TableSize \in Nat \ {0}
  BY RpcTextAssumption
<1>2. n \in Nat /\ n <= TableSize
  BY <1>1
<1>3. QED BY <1>1, <1>2

\* Every function keeps the type of the buffers.
LEMMA EffectTyped ==
  ASSUME NEW b \in TextBuffers, NEW c \in TextChars, NEW isOut \in BOOLEAN,
         text.number \in Nat, text.at \in Nat,
         NEW f \in {"name", "name begins", "value begins", "quote begins", "date begins", "value",
                    "out begins", "out", "param", "more"}
  PROVE  Effect(f, c, b, isOut) \in TextBuffers
<1>1. TableSize \in Nat \ {0} /\ Here \in TextPlace /\ Nowhere \in TextPlace
  BY RpcTextAssumption DEF Here, Nowhere, TextPlace
<1>2. FirstParm(b) \in TextBuffers
  <2> DEFINE first1 == IF b.current = 0 THEN 1 ELSE b.current
  <2>0. b.current \in 0..TableSize
    BY DEF TextBuffers
  <2>1. first1 \in 0..TableSize
    BY <2>0, OneMoreEntry
  <2>2. FirstParm(b) = [b EXCEPT !.current = first1]
    BY DEF FirstParm
  <2> HIDE DEF first1
  <2>3. QED BY <2>1, <2>2 DEF TextBuffers
<1>3. Append(b.chars, c) \in Seq(TextChars) /\ <<c>> \in Seq(TextChars) /\ <<>> \in Seq(TextChars)
  <2>1. b.chars \in Seq(TextChars)
    BY DEF TextBuffers
  <2>2. QED BY <2>1, OneMoreChar
<1> DEFINE first == FirstParm(b)
<1>4. ASSUME NEW chars \in Seq(TextChars), NEW quote \in {"none", "quote", "date"}
      PROVE  ValueBegins(b, quote, chars) \in TextBuffers
  <2>1. ValueBegins(b, quote, chars) = [first EXCEPT !.value = Here, !.chars = chars, !.quote = quote]
    BY DEF ValueBegins
  <2> HIDE DEF first
  <2>2. first \in TextBuffers BY <1>2 DEF first
  <2>3. QED BY <1>1, <2>1, <2>2 DEF TextBuffers
<1>5. CASE f = "name"
  BY <1>5 DEF Effect
<1>6. CASE f = "name begins"
  <2>1. Effect(f, c, b, isOut) = [first EXCEPT !.name = Here]
    BY <1>6 DEF Effect
  <2> HIDE DEF first
  <2>2. first \in TextBuffers BY <1>2 DEF first
  <2>3. QED BY <1>1, <2>1, <2>2 DEF TextBuffers
<1>7. CASE f \in {"value begins", "quote begins", "date begins"}
  <2>1. \E chars \in Seq(TextChars), quote \in {"none", "quote", "date"} :
          Effect(f, c, b, isOut) = ValueBegins(b, quote, chars)
    BY <1>3, <1>7 DEF Effect
  <2>2. QED BY <1>4, <2>1
<1>8. CASE f = "value"
  <2>1. Effect(f, c, b, isOut) =
          [b EXCEPT !.chars = IF b.quote = "none" THEN Append(b.chars, c) ELSE b.chars]
    BY <1>8 DEF Effect
  <2>2. QED BY <1>3, <2>1 DEF TextBuffers
<1>9. CASE f = "out begins"
  BY <1>1, <1>9 DEF Effect, TextBuffers
<1>10. CASE f = "out"
  BY <1>1, <1>10 DEF Effect, TextBuffers
<1>11. CASE f = "param"
  BY <1>1, <1>3, <1>11 DEF Effect, Cleared, TextBuffers
<1>12. CASE f = "more"
  <2>0. b.current \in 0..TableSize
    BY DEF TextBuffers
  <2>1. CASE b.current >= TableSize
    <3>1. Effect(f, c, b, isOut) = [b EXCEPT !.ok = FALSE]
      BY <1>12, <2>1 DEF Effect
    <3>2. QED BY <3>1 DEF TextBuffers
  <2>2. CASE ~(b.current >= TableSize)
    <3>1. Effect(f, c, b, isOut) = [b EXCEPT !.current = b.current + 1, !.from = text.at]
      BY <1>12, <2>2 DEF Effect
    <3>2. b.current + 1 \in 0..TableSize
      BY <2>0, <2>2, OneMoreEntry
    <3>3. QED BY <3>1, <3>2 DEF TextBuffers
  <2>3. QED BY <2>1, <2>2
<1>13. QED BY <1>5, <1>6, <1>7, <1>8, <1>9, <1>10, <1>11, <1>12

\* A parameter made at the end of its part has only what is in its part.
MadeOwn(p, n) ==
  /\ p.value[1] = n /\ p.value[2] \in (p.from + 1)..p.to
  /\ \A f \in {p.name, p.out} : f # Nowhere => f[1] = n /\ f[2] \in (p.from + 1)..p.to
  /\ p.name # Nowhere => p.name[2] < p.value[2]

LEMMA MadeFacts ==
  ASSUME NEW b \in TextBuffers, NEW level \in InValue, text.number \in Nat, text.at \in Nat,
         BuffersOwn(b, level, text.number, text.at + 1)
  PROVE  Made(b) \in TextParam /\ MadeOwn(Made(b), text.number)
<1>1. KindOf(b) \in {"CHAR", "DATETIME", "INT", "FLOAT"}
  BY DEF KindOf
<1>2. Made(b) = [name |-> b.name, value |-> b.value, out |-> b.out, chars |-> b.chars,
                 quote |-> b.quote, kind |-> KindOf(b), from |-> b.from, to |-> text.at]
  BY DEF Made
<1>3. Made(b) \in TextParam
  BY <1>1, <1>2 DEF TextParam, TextBuffers
<1>4. /\ b.from \in Nat /\ b.value # Nowhere
      /\ \A f \in {b.name, b.value, b.out} : f # Nowhere => f[1] = text.number
            /\ f[2] \in (b.from + 1)..text.at
      /\ b.name # Nowhere => b.name[2] < b.value[2]
  BY DEF BuffersOwn, InPart, TextBuffers
<1> DEFINE m == Made(b)
<1>5. m.name = b.name /\ m.value = b.value /\ m.out = b.out /\ m.from = b.from /\ m.to = text.at
  BY <1>2
<1> HIDE DEF m
<1>6. MadeOwn(m, text.number)
  BY <1>4, <1>5 DEF MadeOwn
<1>7. QED BY <1>3, <1>6 DEF m

LEMMA FieldsAreMade == FieldsAreOwn <=> \A i \in 1..Len(params.table) : MadeOwn(params.table[i], text.number)
  BY DEF FieldsAreOwn, MadeOwn

\* The fields of the buffers at the next character.
LEMMA OwnAgain ==
  ASSUME NEW e, NEW l, NEW n, NEW at \in Nat, e.from \in Nat, e.ok, e.from < at + 1,
         \A f \in {e.name, e.value, e.out} : f # Nowhere => InPart(f, n, e.from, at),
         l \in BeforeParm => e.name = Nowhere,
         l \notin InValue => e.value = Nowhere /\ e.out = Nowhere,
         l \in InValue => e.value # Nowhere /\ (e.name # Nowhere => e.name[2] < e.value[2]),
         l = "out" => InPart(e.word, n, e.from, at)
  PROVE  BuffersOwn(e, l, n, at + 1)
<1>1. (at + 1) - 1 = at
  OBVIOUS
<1>2. QED BY <1>1, Zenon DEF BuffersOwn

\* A list of one function is one of these.
LEMMA OneLeads ==
  ASSUME NEW level \in TextLevels, NEW t, LeadsTo(level, t), NEW f, t.do = <<f>>, f # "param"
  PROVE  \/ f = "name" /\ level \in BeforeParm /\ t.level = "name"
         \/ f = "name begins" /\ level \in BeforeParm /\ t.level = "param name"
         \/ /\ f \in {"value begins", "quote begins", "date begins"}
            /\ level \in BeforeParm \cup InName /\ t.level \in InValue \ {"out"}
         \/ f = "value" /\ level \in InValue /\ t.level \in InValue \ {"out"}
         \/ f = "out begins" /\ level \in InValue /\ t.level = "out"
         \/ f = "out" /\ level = "out" /\ t.level = "after out"
<1> DEFINE do == t.do
<1>1. Len(do) = 1 /\ do[1] = f
  OBVIOUS
<1>2. /\ \A g : do = <<g>> => f = g
      /\ \A g, h : do # <<g, h>>
      /\ \A g, h, k : do # <<g, h, k>>
      /\ do # <<>>
  <2> HIDE DEF do
  <2>1. \A g : do = <<g>> => f = g BY <1>1
  <2>2. \A g, h : do # <<g, h>> BY <1>1
  <2>3. \A g, h, k : do # <<g, h, k>> BY <1>1
  <2>4. do # <<>> BY <1>1
  <2>5. QED BY <2>1, <2>2, <2>3, <2>4
<1> HIDE DEF do
<1>3. f \in {"value begins", "quote begins", "date begins"}
        <=> (f = "value begins" \/ f = "quote begins" \/ f = "date begins")
  OBVIOUS
<1>4. do \in {<<"value begins">>, <<"quote begins">>, <<"date begins">>}
        <=> (do = <<"value begins">> \/ do = <<"quote begins">> \/ do = <<"date begins">>)
  OBVIOUS
<1>5. QED BY <1>2, <1>3, <1>4, Zenon DEF LeadsTo, do

\* What a turn that makes no parameter leaves in the buffers.
LEMMA BuffersStay ==
  ASSUME NEW b \in TextBuffers, NEW level \in TextLevels, NEW c \in TextChars,
         NEW isOut \in BOOLEAN, NEW n \in Nat, NEW at \in Nat, n # 0,
         text.number = n, text.at = at, BuffersOwn(b, level, n, at),
         NEW t, LeadsTo(level, t), NEW f, t.do = <<f>>, f # "param", OneDone(f, c, b, isOut).ok
  PROVE  BuffersOwn(OneDone(f, c, b, isOut), t.level, n, at + 1)
<1> DEFINE e == Effect(f, c, b, isOut)
           l == t.level
<1>1. OneDone(f, c, b, isOut) = e /\ b.ok /\ e.ok
  BY DEF OneDone, BuffersOwn
<1>2. Here = <<n, at>> /\ Here # Nowhere
  BY DEF Here, Nowhere
<1>3. /\ b.from \in Nat /\ b.from < at /\ b.from < at + 1
      /\ \A g \in {b.name, b.value, b.out} : g # Nowhere => InPart(g, n, b.from, at)
      /\ InPart(Here, n, b.from, at)
      /\ level = "out" => InPart(b.word, n, b.from, at)
      /\ b.name # Nowhere => b.name[2] < Here[2]
  <2>1. /\ b.from < at
        /\ \A g \in {b.name, b.value, b.out} : g # Nowhere => InPart(g, n, b.from, at - 1)
        /\ level = "out" => InPart(b.word, n, b.from, at - 1)
    BY DEF BuffersOwn
  <2>2. b.from \in Nat
    BY DEF TextBuffers
  <2>3. \A g : InPart(g, n, b.from, at - 1) => InPart(g, n, b.from, at) /\ g[2] < at
    BY <2>2 DEF InPart
  <2>4. Here[1] = n /\ Here[2] = at /\ InPart(Here, n, b.from, at)
    BY <1>2, <2>1, <2>2 DEF InPart
  <2>5. b.from < at + 1
    BY <2>1, <2>2
  <2>6. QED BY <2>1, <2>2, <2>3, <2>4, <2>5, Zenon
<1>4. /\ level \in BeforeParm => b.name = Nowhere
      /\ level \notin InValue => b.value = Nowhere /\ b.out = Nowhere
      /\ level \in InValue => b.value # Nowhere /\ (b.name # Nowhere => b.name[2] < b.value[2])
  BY DEF BuffersOwn
<1> HIDE DEF l
<1>5. CASE f = "name" /\ level \in BeforeParm /\ l = "name"
  <2>1. e = b
    BY <1>5 DEF Effect
  <2>2. l \notin InValue /\ level \notin InValue /\ l # "out"
    BY <1>5 DEF BeforeParm, InValue
  <2>3. BuffersOwn(b, l, n, at + 1)
    BY <1>1, <1>3, <1>4, <1>5, <2>1, <2>2, OwnAgain
  <2>4. QED BY <1>1, <2>1, <2>3 DEF l
<1>6. CASE f = "name begins" /\ level \in BeforeParm /\ l = "param name"
  <2>1. e.name = Here /\ e.value = b.value /\ e.out = b.out /\ e.from = b.from
    BY <1>6 DEF Effect, FirstParm, TextBuffers
  <2> HIDE DEF e
  <2>2. l \notin InValue /\ level \notin InValue /\ l # "out" /\ l \notin BeforeParm
    BY <1>6 DEF BeforeParm, InValue
  <2>3. BuffersOwn(e, l, n, at + 1)
    BY <1>1, <1>3, <1>4, <2>1, <2>2, OwnAgain
  <2>4. QED BY <1>1, <2>3 DEF l
<1>7. CASE /\ f \in {"value begins", "quote begins", "date begins"}
           /\ level \in BeforeParm \cup InName /\ l \in InValue \ {"out"}
  <2>1. e.name = b.name /\ e.value = Here /\ e.out = b.out /\ e.from = b.from
    BY <1>7 DEF Effect, ValueBegins, FirstParm, TextBuffers
  <2> HIDE DEF e
  <2>2. l \in InValue /\ level \notin InValue /\ l # "out" /\ l \notin BeforeParm
    BY <1>7 DEF BeforeParm, InValue, InName
  <2>3. BuffersOwn(e, l, n, at + 1)
    BY <1>1, <1>2, <1>3, <1>4, <2>1, <2>2, OwnAgain
  <2>4. QED BY <1>1, <2>3 DEF l
<1>8. CASE f = "value" /\ level \in InValue /\ l \in InValue \ {"out"}
  <2>1. e.name = b.name /\ e.value = b.value /\ e.out = b.out /\ e.from = b.from
    BY <1>8 DEF Effect, TextBuffers
  <2> HIDE DEF e
  <2>2. l \in InValue /\ level \in InValue /\ l # "out" /\ l \notin BeforeParm
    BY <1>8 DEF BeforeParm, InValue
  <2>3. BuffersOwn(e, l, n, at + 1)
    BY <1>1, <1>3, <1>4, <2>1, <2>2, OwnAgain
  <2>4. QED BY <1>1, <2>3 DEF l
<1>9. CASE f = "out begins" /\ level \in InValue /\ l = "out"
  <2>1. e.name = b.name /\ e.value = b.value /\ e.out = b.out /\ e.from = b.from /\ e.word = Here
    BY <1>9 DEF Effect, TextBuffers
  <2> HIDE DEF e
  <2>2. l \in InValue /\ level \in InValue /\ l \notin BeforeParm
    BY <1>9 DEF BeforeParm, InValue
  <2>3. BuffersOwn(e, l, n, at + 1)
    BY <1>1, <1>3, <1>4, <2>1, <2>2, OwnAgain
  <2>4. QED BY <1>1, <2>3 DEF l
<1>10. CASE f = "out" /\ level = "out" /\ l = "after out"
  <2>1. e.name = b.name /\ e.value = b.value /\ e.from = b.from /\ e.out \in {b.out, b.word}
    BY <1>10 DEF Effect, TextBuffers
  <2> HIDE DEF e
  <2>2. l \in InValue /\ level \in InValue /\ l \notin BeforeParm /\ l # "out"
    BY <1>10 DEF BeforeParm, InValue
  <2>3. ASSUME NEW g \in {e.name, e.value, e.out}, g # Nowhere PROVE InPart(g, n, e.from, at)
    <3>1. g \in {b.name, b.value, b.out} \/ g = b.word
      BY <2>1
    <3>2. InPart(b.word, n, b.from, at)
      BY <1>3, <1>10
    <3>3. QED BY <1>3, <2>1, <2>3, <3>1, <3>2, Zenon
  <2>4. BuffersOwn(e, l, n, at + 1)
    BY <1>1, <1>3, <1>4, <2>1, <2>2, <2>3, OwnAgain
  <2>5. QED BY <1>1, <2>4 DEF l
<1>11. QED BY <1>5, <1>6, <1>7, <1>8, <1>9, <1>10, OneLeads, ZenonT(60) DEF l

\* A list of functions keeps the type of the buffers.
LEMMA DoneTyped ==
  ASSUME NEW b \in TextBuffers, NEW c \in TextChars, NEW isOut \in BOOLEAN,
         text.number \in Nat, text.at \in Nat,
         NEW level \in TextLevels, NEW t, LeadsTo(level, t)
  PROVE  Done(t.do, c, b, isOut) \in TextBuffers
<1> DEFINE F == {"name", "name begins", "value begins", "quote begins", "date begins", "value",
                 "out begins", "out", "param", "more"}
<1>1. ASSUME NEW f \in F, NEW x \in TextBuffers PROVE OneDone(f, c, x, isOut) \in TextBuffers
  BY EffectTyped DEF OneDone
<1>2. \/ t.do = <<>>
      \/ \E f \in F : t.do = <<f>>
      \/ t.do = <<"param", "more">> \/ t.do = <<"out", "param">>
      \/ t.do = <<"out", "param", "more">>
  BY DEF LeadsTo
<1>3. "param" \in F /\ "more" \in F /\ "out" \in F
  OBVIOUS
<1> HIDE DEF F
<1>4. CASE t.do = <<>>
  <2>1. Done(t.do, c, b, isOut) = b
    BY <1>4, DoneNone, Zenon
  <2>2. QED BY <2>1
<1>5. CASE \E f \in F : t.do = <<f>>
  <2>1. PICK f \in F : t.do = <<f>>
    BY <1>5
  <2>2. Done(<<f>>, c, b, isOut) = OneDone(f, c, b, isOut)
    BY DoneOne, Zenon
  <2>3. QED BY <1>1, <2>1, <2>2
<1>6. CASE t.do = <<"param", "more">>
  <2>1. Done(t.do, c, b, isOut) = OneDone("more", c, OneDone("param", c, b, isOut), isOut)
    <3>1. Done(<<"param", "more">>, c, b, isOut)
             = OneDone("more", c, OneDone("param", c, b, isOut), isOut)
      BY DoneTwo
    <3>2. QED BY <1>6, <3>1
  <2>2. QED BY <1>1, <1>3, <2>1
<1>7. CASE t.do = <<"out", "param">>
  <2>1. Done(t.do, c, b, isOut) = OneDone("param", c, OneDone("out", c, b, isOut), isOut)
    <3>1. Done(<<"out", "param">>, c, b, isOut)
             = OneDone("param", c, OneDone("out", c, b, isOut), isOut)
      BY DoneTwo
    <3>2. QED BY <1>7, <3>1
  <2>2. QED BY <1>1, <1>3, <2>1
<1>8. CASE t.do = <<"out", "param", "more">>
  <2>1. Done(t.do, c, b, isOut)
          = OneDone("more", c, OneDone("param", c, OneDone("out", c, b, isOut), isOut), isOut)
    <3>1. Done(<<"out", "param", "more">>, c, b, isOut)
             = OneDone("more", c, OneDone("param", c, OneDone("out", c, b, isOut), isOut), isOut)
      BY DoneThree
    <3>2. QED BY <1>8, <3>1
  <2>2. QED BY <1>1, <1>3, <2>1
<1>9. QED BY <1>2, <1>4, <1>5, <1>6, <1>7, <1>8

\* The buffers after "param" and "more": nothing is left of the parameter.
LEMMA MoreOwn ==
  ASSUME NEW b \in TextBuffers, NEW c, NEW isOut, NEW n \in Nat, NEW at \in Nat, text.at = at,
         OneDone("more", c, OneDone("param", c, b, isOut), isOut).ok
  PROVE  BuffersOwn(OneDone("more", c, OneDone("param", c, b, isOut), isOut), "next", n, at + 1)
<1> DEFINE p == OneDone("param", c, b, isOut)
           m == OneDone("more", c, p, isOut)
<1>1. m.ok => p.ok
  BY DEF OneDone
<1>2. p.ok => b.ok /\ p = Cleared(b)
  BY DEF OneDone, Effect
<1>3. p = Cleared(b) /\ p.name = Nowhere /\ p.value = Nowhere /\ p.out = Nowhere
  <2>1. p = Cleared(b)
    BY <1>1, <1>2
  <2> HIDE DEF p
  <2>2. QED BY <2>1 DEF Cleared, TextBuffers
<1>4. p = [name |-> Nowhere, value |-> Nowhere, out |-> Nowhere, word |-> b.word, chars |-> <<>>,
           quote |-> b.quote, current |-> b.current, from |-> b.from, ok |-> b.ok]
  <2> HIDE DEF p
  <2>1. QED BY <1>3 DEF Cleared, TextBuffers
<1> HIDE DEF p
<1>5. m = IF p.current >= TableSize THEN [p EXCEPT !.ok = FALSE]
          ELSE [p EXCEPT !.current = p.current + 1, !.from = text.at]
  <2>1. m = Effect("more", c, p, isOut)
    <3>1. p.ok BY <1>1 DEF p
    <3>2. QED BY <3>1, Zenon DEF OneDone
  <2> HIDE DEF m
  <2>2. QED BY <2>1 DEF Effect
<1>6. ~(p.current >= TableSize)
  <2>1. m.ok
    BY DEF m, p
  <2> HIDE DEF m
  <2>2. ASSUME p.current >= TableSize PROVE FALSE
    <3>1. m = [p EXCEPT !.ok = FALSE]
      BY <1>5, <2>2
    <3>2. m.ok = FALSE
      BY <1>4, <3>1
    <3>3. QED BY <2>1, <3>2
  <2>3. QED BY <2>2
<1>7. m = [p EXCEPT !.current = p.current + 1, !.from = text.at]
  BY <1>5, <1>6
<1> HIDE DEF m
<1>8. m.name = Nowhere /\ m.value = Nowhere /\ m.out = Nowhere /\ m.from = at
  BY <1>4, <1>7
<1>9. m.ok
  BY DEF m, p
<1>10. "next" \in BeforeParm /\ "next" \notin InValue /\ "next" # "out" /\ at < at + 1
  BY DEF BeforeParm, InValue
<1>11. BuffersOwn(m, "next", n, at + 1)
  BY <1>8, <1>9, <1>10 DEF BuffersOwn
<1>12. QED BY <1>11 DEF m, p

\* The buffers as they are are those of the next character too.
LEMMA OwnLater ==
  ASSUME NEW b \in TextBuffers, NEW level, NEW l, NEW n, NEW at \in Nat,
         BuffersOwn(b, level, n, at),
         \E same \in {BeforeParm, InName, InValue} : level \in same /\ l \in same,
         l = "out" => level = "out"
  PROVE  BuffersOwn(b, l, n, at + 1)
<1>1. (l \in BeforeParm <=> level \in BeforeParm) /\ (l \in InValue <=> level \in InValue)
  BY DEF BeforeParm, InName, InValue
<1>2. b.from \in Nat /\ b.from < at + 1 /\ b.ok
  BY DEF BuffersOwn, TextBuffers
<1>3. /\ \A g \in {b.name, b.value, b.out} : g # Nowhere => InPart(g, n, b.from, at)
      /\ level = "out" => InPart(b.word, n, b.from, at)
  BY DEF BuffersOwn, InPart, TextBuffers
<1>4. QED BY <1>1, <1>2, <1>3, OwnAgain DEF BuffersOwn

\* The lists with and without "param".
LEMMA WithParam ==
  /\ "param" \in ToSet(<<"param", "more">>) /\ "param" \in ToSet(<<"out", "param">>)
  /\ "param" \in ToSet(<<"out", "param", "more">>)
<1>1. Len(<<"param", "more">>) = 2 /\ <<"param", "more">>[1] = "param"
  OBVIOUS
<1>2. Len(<<"out", "param">>) = 2 /\ <<"out", "param">>[2] = "param"
  OBVIOUS
<1>3. Len(<<"out", "param", "more">>) = 3 /\ <<"out", "param", "more">>[2] = "param"
  OBVIOUS
<1>4. QED BY <1>1, <1>2, <1>3 DEF ToSet

LEMMA NoParam ==
  ASSUME NEW do, "param" \in ToSet(do)
  PROVE  /\ do # <<>>
         /\ \A f : f # "param" => do # <<f>>
         /\ do # <<"name">> /\ do # <<"name begins">> /\ do # <<"value">> /\ do # <<"out begins">>
         /\ do # <<"out">>
         /\ do \notin {<<"value begins">>, <<"quote begins">>, <<"date begins">>}
<1>1. PICK k \in DOMAIN do : do[k] = "param"
  BY DEF ToSet
<1>2. do # <<>>
  BY <1>1
<1>3. ASSUME NEW f, f # "param", do = <<f>> PROVE FALSE
  <2>1. DOMAIN <<f>> = {1} /\ <<f>>[1] = f
    OBVIOUS
  <2>2. QED BY <1>1, <1>3, <2>1
<1>4. QED BY <1>2, <1>3

\* What a turn that makes a parameter makes, and what it leaves.
LEMMA ParamMade ==
  ASSUME NEW b \in TextBuffers, NEW level \in TextLevels, NEW c \in TextChars,
         NEW isOut \in BOOLEAN, text.number \in Nat, text.at \in Nat, text.number # 0,
         BuffersOwn(b, level, text.number, text.at),
         NEW t, LeadsTo(level, t), "param" \in ToSet(t.do),
         NEW before, NEW after, after = Done(t.do, c, b, isOut),
         before = Done(IF "out" \in ToSet(t.do) THEN <<"out">> ELSE <<>>, c, b, isOut)
  PROVE  /\ before.ok => Made(before) \in TextParam /\ MadeOwn(Made(before), text.number)
         /\ after.ok /\ t.level \notin TextEnds =>
              BuffersOwn(after, t.level, text.number, text.at + 1)
<1> DEFINE n == text.number
           at == text.at
           o == OneDone("out", c, b, isOut)
<1>1. \/ t.do = <<"param">> /\ level \in InValue /\ t.level = "OK"
      \/ t.do = <<"param", "more">> /\ level \in InValue /\ t.level = "next"
      \/ t.do = <<"out", "param">> /\ level = "out" /\ t.level = "OK"
      \/ t.do = <<"out", "param", "more">> /\ level = "out" /\ t.level = "next"
  BY NoParam, Zenon DEF LeadsTo
<1>2. t.do \in {<<"param">>, <<"param", "more">>} => "out" \notin ToSet(t.do)
  BY DEF ToSet
<1>3. t.do \in {<<"out", "param">>, <<"out", "param", "more">>} => "out" \in ToSet(t.do)
  BY DEF ToSet
<1>4. ASSUME level \in InValue, before = b, t.do \in {<<"param">>, <<"param", "more">>}
      PROVE  before \in TextBuffers /\ BuffersOwn(before, level, n, at + 1)
  BY <1>4, OwnLater
<1>5. ASSUME level = "out", o.ok
      PROVE  o \in TextBuffers /\ BuffersOwn(o, "after out", n, at + 1)
  <2> DEFINE u == [level |-> "after out", do |-> <<"out">>]
  <2>1. u.do = <<"out">> /\ u.level = "after out"
    OBVIOUS
  <2> HIDE DEF u
  <2>2. LeadsTo(level, u)
    BY <1>5, <2>1 DEF LeadsTo
  <2>3. BuffersOwn(o, "after out", n, at + 1)
    BY <1>5, <2>1, <2>2, BuffersStay
  <2>4. o = Effect("out", c, b, isOut)
    BY <1>5 DEF OneDone, BuffersOwn
  <2>5. QED BY <2>3, <2>4, EffectTyped
<1>6. CASE t.do \in {<<"param">>, <<"param", "more">>}
  <2>1. before = b /\ level \in InValue
    <3>1. before = Done(<<>>, c, b, isOut)
      BY <1>2, <1>6
    <3>2. Done(<<>>, c, b, isOut) = b
      BY DoneNone, Zenon
    <3>3. level \in InValue
      BY <1>1, <1>6 DEF InValue
    <3>4. QED BY <3>1, <3>2, <3>3
  <2>2. Made(before) \in TextParam /\ MadeOwn(Made(before), text.number)
    BY <1>4, <1>6, <2>1, MadeFacts
  <2>3. ASSUME after.ok, t.level \notin TextEnds PROVE BuffersOwn(after, t.level, n, at + 1)
    <3>1. t.do = <<"param", "more">> /\ t.level = "next"
      BY <1>1, <1>6, <2>3 DEF TextEnds
    <3>2. after = OneDone("more", c, OneDone("param", c, b, isOut), isOut)
      <4>1. Done(<<"param", "more">>, c, b, isOut)
               = OneDone("more", c, OneDone("param", c, b, isOut), isOut)
        BY DoneTwo
      <4>2. QED BY <3>1, <4>1
    <3>3. QED BY <2>3, <3>1, <3>2, MoreOwn
  <2>4. QED BY <2>2, <2>3
<1>7. CASE t.do \in {<<"out", "param">>, <<"out", "param", "more">>}
  <2>1. before = o /\ level = "out"
    <3>1. before = Done(<<"out">>, c, b, isOut)
      BY <1>3, <1>7
    <3>2. Done(<<"out">>, c, b, isOut) = o
      BY DoneOne, Zenon
    <3>3. level = "out"
      BY <1>1, <1>7
    <3>4. QED BY <3>1, <3>2, <3>3
  <2> HIDE DEF o
  <2>2. ASSUME before.ok PROVE Made(before) \in TextParam /\ MadeOwn(Made(before), text.number)
    <3>1. "after out" \in InValue
      BY DEF InValue
    <3>2. QED BY <1>5, <2>1, <2>2, <3>1, MadeFacts
  <2>3. ASSUME after.ok, t.level \notin TextEnds PROVE BuffersOwn(after, t.level, n, at + 1)
    <3>1. t.do = <<"out", "param", "more">> /\ t.level = "next"
      BY <1>1, <1>7, <2>3 DEF TextEnds
    <3>2. after = OneDone("more", c, OneDone("param", c, o, isOut), isOut)
      <4>1. Done(<<"out", "param", "more">>, c, b, isOut)
               = OneDone("more", c, OneDone("param", c, o, isOut), isOut)
        BY DoneThree DEF o
      <4>2. QED BY <3>1, <4>1
    <3>3. o.ok
      BY <2>3, <3>2 DEF OneDone
    <3>4. o \in TextBuffers
      BY <1>5, <2>1, <3>3
    <3>5. QED BY <2>3, <3>1, <3>2, <3>4, MoreOwn
  <2>4. QED BY <2>2, <2>3
<1>8. QED BY <1>1, <1>6, <1>7

\* What a turn that makes no parameter leaves.
LEMMA NothingMade ==
  ASSUME NEW b \in TextBuffers, NEW level \in TextLevels, NEW c \in TextChars,
         NEW isOut \in BOOLEAN, text.number \in Nat, text.at \in Nat, text.number # 0,
         BuffersOwn(b, level, text.number, text.at),
         NEW t, LeadsTo(level, t), "param" \notin ToSet(t.do),
         NEW after, after = Done(t.do, c, b, isOut), after.ok, t.level \notin TextEnds
  PROVE  BuffersOwn(after, t.level, text.number, text.at + 1)
<1>1. t.do = <<>> \/ \E f : t.do = <<f>>
  BY WithParam DEF LeadsTo
<1>2. CASE t.do = <<>>
  <2>1. after = b
    BY <1>2, DoneNone, Zenon
  <2>2. /\ \E same \in {BeforeParm, InName, InValue} : level \in same /\ t.level \in same
        /\ t.level = "out" => level = "out"
    BY <1>2 DEF LeadsTo
  <2>3. QED BY <2>1, <2>2, OwnLater
<1>3. CASE \E f : t.do = <<f>>
  <2>1. PICK f : t.do = <<f>>
    BY <1>3
  <2>2. f # "param"
    BY <2>1 DEF ToSet
  <2>3. after = OneDone(f, c, b, isOut)
    <3>1. Done(<<f>>, c, b, isOut)
             = OneDone(f, c, b, isOut)
      BY DoneOne, Zenon
    <3>2. QED BY <2>1, <3>1
  <2>4. QED BY <2>1, <2>2, <2>3, BuffersStay
<1>4. QED BY <1>1, <1>2, <1>3

LEMMA TextInitInv == RpcTextInit => TextInv
<1> SUFFICES ASSUME RpcTextInit PROVE TextInv
  OBVIOUS
<1>1. text \in [number : Nat, chars : SUBSET TextChars, at : Nat, level : TextLevels \cup {"idle"}]
  BY DEF RpcTextInit
<1>2. buffers \in TextBuffers
  <2>1. TableSize \in Nat
    BY RpcTextAssumption
  <2>2. QED BY <2>1 DEF RpcTextInit, NoBuffers, TextBuffers, TextPlace, Nowhere
<1>3. "table" \in DOMAIN params /\ params.table = <<>> /\ text.level = "idle"
  BY DEF RpcTextInit
<1>4. FieldsAreOwn
  BY <1>3 DEF FieldsAreOwn
<1>5. QED BY <1>1, <1>2, <1>3, <1>4 DEF TextInv

LEMMA ParseBeginsKeeps == TextInv /\ ParseBegins => TextInv'
<1> SUFFICES ASSUME TextInv, ParseBegins PROVE TextInv'
  OBVIOUS
<1>1. PICK a \in Alphabets :
        text' = [number |-> text.number + 1, chars |-> a, at |-> 1, level |-> "start"]
  BY DEF ParseBegins
<1>2. a \in SUBSET TextChars /\ TableSize \in Nat /\ text.number \in Nat
  BY RpcTextAssumption DEF TextInv, TextChars
<1>3. text' \in [number : Nat, chars : SUBSET TextChars, at : Nat, level : TextLevels \cup {"idle"}]
  <2>1. "start" \in TextLevels
    BY DEF TextLevels, BeforeParm
  <2> HIDE DEF TextChars, TextLevels
  <2>2. QED BY <1>1, <1>2, <2>1
<1>4. buffers' = [name |-> Nowhere, value |-> Nowhere, out |-> Nowhere, word |-> buffers.word,
                  chars |-> <<>>, quote |-> buffers.quote, current |-> 0, from |-> 0, ok |-> TRUE]
  BY DEF ParseBegins, NoBuffers
<1>5. buffers' \in TextBuffers
  BY <1>2, <1>4, SMTT(30) DEF TextInv, TextBuffers, TextPlace, Nowhere
<1>6. "table" \in DOMAIN params' /\ params'.table = <<>>
  BY DEF ParseBegins
<1>7. BuffersOwn(buffers', "start", text'.number, text'.at)
  BY <1>1, <1>4 DEF BuffersOwn, BeforeParm, InValue
<1>8. text'.number # 0 /\ text'.level = "start"
  BY <1>1, <1>2
<1>9. FieldsAreOwn'
  BY <1>6 DEF FieldsAreOwn
<1>10. params'.table \in Seq(TextParam)
  BY <1>6
<1>11. QED BY <1>3, <1>5, <1>6, <1>7, <1>8, <1>9, <1>10 DEF TextInv

\* A table with one more parameter of its own.
LEMMA OneMoreParam ==
  ASSUME NEW s \in Seq(TextParam), NEW p \in TextParam, NEW n, MadeOwn(p, n),
         \A i \in 1..Len(s) : MadeOwn(s[i], n)
  PROVE  /\ Append(s, p) \in Seq(TextParam)
         /\ \A i \in 1..Len(Append(s, p)) : MadeOwn(Append(s, p)[i], n)
<1> DEFINE t == Append(s, p)
<1>1. /\ Len(s) \in Nat /\ Len(t) = Len(s) + 1 /\ t[Len(s) + 1] = p
      /\ \A i \in 1..Len(s) : t[i] = s[i]
      /\ t \in Seq(TextParam)
  OBVIOUS
<1> HIDE DEF t
<1>2. ASSUME NEW i \in 1..Len(t) PROVE MadeOwn(t[i], n)
  <2>1. CASE i = Len(s) + 1
    BY <1>1, <2>1
  <2>2. CASE i # Len(s) + 1
    <3>1. i \in 1..Len(s)
      BY <1>1, <2>2
    <3>2. t[i] = s[i] /\ MadeOwn(s[i], n)
      BY <1>1, <3>1
    <3>3. QED BY <3>2
  <2>3. QED BY <2>1, <2>2
<1>3. QED BY <1>1, <1>2 DEF t

LEMMA NextChar ==
  ASSUME NEW C, NEW L, NEW x \in [number : Nat, chars : SUBSET C, at : Nat, level : L], NEW l \in L,
         NEW y, y = [x EXCEPT !.level = l, !.at = x.at + 1]
  PROVE  /\ y \in [number : Nat, chars : SUBSET C, at : Nat, level : L]
         /\ y.level = l /\ y.at = x.at + 1 /\ y.number = x.number
<1>1. y = [number |-> x.number, chars |-> x.chars, at |-> x.at + 1, level |-> l]
  OBVIOUS
<1>2. QED BY <1>1

LEMMA ParseCharKeeps ==
  ASSUME TextInv, NEW c \in text.chars \cup {"end"}, ParseChar(c)
  PROVE  TextInv'
<1> DEFINE t == Turn(text.level, c)
           n == text.number
           at == text.at
<1>1. /\ c \in TextChars /\ text.level \in TextLevels /\ n \in Nat /\ at \in Nat /\ n # 0
      /\ buffers \in TextBuffers /\ BuffersOwn(buffers, text.level, n, at)
      /\ params.table \in Seq(TextParam)
  <2>1. text.level # "idle"
    BY DEF ParseChar
  <2>2. c \in TextChars
    BY DEF TextInv, TextChars
  <2> HIDE DEF TextChars
  <2>3. QED BY <2>1, <2>2 DEF TextInv
<1>2. \A i \in 1..Len(params.table) : MadeOwn(params.table[i], n)
  BY FieldsAreMade DEF TextInv
<1>3. LeadsTo(text.level, t)
  BY <1>1, TurnLeads
<1>4. PICK isOut \in BOOLEAN, converts \in BOOLEAN :
        LET turn == t
            makes == "param" \in ToSet(turn.do)
            out == "out" \in ToSet(turn.do)
            before == Done(IF out THEN <<"out">> ELSE <<>>, c, buffers, isOut)
            made == Made(before)
            after == Done(turn.do, c, buffers, isOut)
            fails == ~after.ok \/ (makes /\ made.kind # "CHAR" /\ ~converts)
            ends == fails \/ turn.level \in {"OK", "ERROR_RPC", "ERROR_PARM"} IN
        /\ isOut \/ out
        /\ converts \/ (makes /\ before.ok /\ made.kind # "CHAR")
        /\ text' = IF ends THEN [text EXCEPT !.level = "idle", !.chars = {}]
                   ELSE [text EXCEPT !.level = turn.level, !.at = @ + 1]
        /\ buffers' = after
        /\ params' = [table |-> IF makes /\ before.ok THEN Append(params.table, made)
                                ELSE params.table,
                      count |-> IF ends /\ ~fails /\ turn.level = "OK" THEN after.current ELSE 0,
                      answer |-> IF ~ends THEN "none" ELSE IF fails THEN "FAIL" ELSE turn.level,
                      trailing |-> "more" \in ToSet(turn.do)
                                   \/ (params.trailing /\ c \in {"space", "end"})]
  BY Zenon DEF ParseChar
<1> DEFINE makes == "param" \in ToSet(t.do)
           before == Done(IF "out" \in ToSet(t.do) THEN <<"out">> ELSE <<>>, c, buffers, isOut)
           after == Done(t.do, c, buffers, isOut)
<1> HIDE DEF t
<1>5. \/ text' = [text EXCEPT !.level = "idle", !.chars = {}]
      \/ /\ after.ok /\ t.level \notin TextEnds
         /\ text' = [text EXCEPT !.level = t.level, !.at = at + 1]
  BY <1>4 DEF TextEnds
<1>6. buffers' = after
  BY <1>4
<1>7. /\ "table" \in DOMAIN params'
      /\ params'.table = IF makes /\ before.ok THEN Append(params.table, Made(before))
                         ELSE params.table
  BY <1>4
<1>8. after \in TextBuffers
  BY <1>1, <1>3, DoneTyped
<1>9. makes /\ before.ok => Made(before) \in TextParam /\ MadeOwn(Made(before), n)
  BY <1>1, <1>3, ParamMade
<1>10. after.ok /\ t.level \notin TextEnds => BuffersOwn(after, t.level, n, at + 1)
  <2>1. CASE makes
    BY <1>1, <1>3, <2>1, ParamMade
  <2>2. CASE ~makes
    BY <1>1, <1>3, <2>2, NothingMade
  <2>3. QED BY <2>1, <2>2
<1> HIDE DEF makes, before, after
<1>11. text \in [number : Nat, chars : SUBSET TextChars, at : Nat, level : TextLevels \cup {"idle"}]
  BY DEF TextInv
<1>12. t.level \notin TextEnds => t.level \in TextLevels
  BY <1>3 DEF LeadsTo, TextEnds, TextLevels, BeforeParm, InName, InValue
<1>13. /\ text' \in [number : Nat, chars : SUBSET TextChars, at : Nat, level : TextLevels \cup {"idle"}]
       /\ text'.number = n
       /\ text'.level # "idle" => BuffersOwn(buffers', text'.level, n, text'.at)
  <2> HIDE DEF TextChars, TextLevels, TextEnds
  <2>1. CASE text' = [text EXCEPT !.level = "idle", !.chars = {}]
    BY <1>11, <2>1
  <2>2. CASE /\ after.ok /\ t.level \notin TextEnds
             /\ text' = [text EXCEPT !.level = t.level, !.at = at + 1]
    <3>1. /\ text'.level = t.level /\ text'.at = at + 1 /\ text'.number = n
          /\ text' \in [number : Nat, chars : SUBSET TextChars, at : Nat,
                        level : TextLevels \cup {"idle"}]
      BY <1>1, <1>11, <1>12, <2>2, NextChar
    <3>2. BuffersOwn(after, t.level, n, at + 1)
      BY <1>10, <2>2
    <3>3. QED BY <1>6, <3>1, <3>2
  <2>3. QED BY <1>5, <2>1, <2>2
<1>14. /\ params'.table \in Seq(TextParam)
       /\ \A i \in 1..Len(params'.table) : MadeOwn(params'.table[i], n)
  <2>1. CASE makes /\ before.ok
    <3>1. params'.table = Append(params.table, Made(before))
      BY <1>7, <2>1
    <3>2. QED BY <1>1, <1>2, <1>9, <2>1, <3>1, OneMoreParam
  <2>2. CASE ~(makes /\ before.ok)
    BY <1>1, <1>2, <1>7, <2>2
  <2>3. QED BY <2>1, <2>2
<1>15. FieldsAreOwn'
  BY <1>13, <1>14 DEF FieldsAreOwn, MadeOwn
<1>16. buffers' \in TextBuffers
  BY <1>6, <1>8
<1>17. QED BY <1>1, <1>7, <1>13, <1>14, <1>15, <1>16 DEF TextInv

LEMMA TextStep == TextInv /\ [RpcTextNext]_rpcTextVars => TextInv'
<1>1. ASSUME TextInv, ParseBegins PROVE TextInv'
  BY <1>1, ParseBeginsKeeps
<1>2. ASSUME TextInv, NEW c \in text.chars \cup {"end"}, ParseChar(c) PROVE TextInv'
  BY <1>2, ParseCharKeeps
<1>3. ASSUME TextInv, UNCHANGED rpcTextVars PROVE TextInv'
  <2>1. text' = text /\ buffers' = buffers /\ params' = params
    BY <1>3 DEF rpcTextVars
  <2>2. FieldsAreOwn'
    BY <1>3, <2>1 DEF TextInv, FieldsAreOwn
  <2>3. QED BY <1>3, <2>1, <2>2 DEF TextInv
<1>4. QED BY <1>1, <1>2, <1>3 DEF RpcTextNext

LEMMA TextOfLib == [LibNext]_libVars => [RpcTextNext]_rpcTextVars
  BY DEF libVars, responseVars, dataVars, LibNext, SybPart, ClientPart, GatewayPart, ReaderPart,
     ListPart, ArrayPart, ConfigPart, SocketPart, TextPart, QueuePart, ForwardPart

\* Nothing of one parameter, or of an earlier text, shows in another one, though
\* the buffers of the parser are static: for texts of any length, made of any
\* classes of characters, tables of any size and any number of texts parsed one
\* after the other, whichever of them end in an error.
THEOREM FieldsAreOwnHolds == LibSpec => []FieldsAreOwn
<1>1. LibInit => TextInv
  BY TextInitInv DEF LibInit
<1>2. TextInv /\ [LibNext]_libVars => TextInv'
  BY TextStep, TextOfLib
<1>3. TextInv => FieldsAreOwn
  BY DEF TextInv
<1>4. QED BY <1>1, <1>2, <1>3, PTL DEF LibSpec

\* The parameters that are counted are those of the table, and one more from
\* where its part begins; behind a comma it may never come.
CountInv ==
  /\ {"count", "answer", "trailing"} \subseteq DOMAIN params
  /\ Len(params.table) <= TableSize
  /\ text.level = "idle" => CountIsTold
  /\ text.level # "idle" => params.answer = "none"
  /\ text.level \in {"start", "name"} => buffers.current = 0 /\ params.table = <<>>
  /\ text.level = "next" =>
       \/ buffers.current = 0 /\ params.table = <<>>
       \/ params.trailing /\ buffers.current = Len(params.table) + 1
  /\ text.level \in InName \cup InValue => buffers.current = Len(params.table) + 1

Begins == {"name begins", "value begins", "quote begins", "date begins"}
NotCounted == {"name", "value", "out begins", "out", "param"}

\* What a turn means for the count.
CountsTo(level, c, t) ==
  \/ t.level \in {"ERROR_RPC", "ERROR_PARM"} /\ "param" \notin ToSet(t.do)
  \/ /\ level \in {"start", "name"} /\ t.level \in {"start", "name", "next"}
     /\ t.do \in {<<>>, <<"name">>}
  \/ level \in {"name", "next"} /\ t.level = "OK" /\ t.do = <<>> /\ c = "end"
  \/ level = "next" /\ t.level = "next" /\ t.do = <<>> /\ c = "space"
  \/ /\ level \in {"next"} \cup InName /\ t.level \in InName \cup InValue
     /\ \E f \in Begins : t.do = <<f>>
  \/ /\ level \in InName \cup InValue /\ t.level \in InName \cup InValue
     /\ (t.do = <<>> \/ \E f \in {"value", "out begins", "out"} : t.do = <<f>>)
  \/ level \in InValue /\ t.level = "OK" /\ t.do \in {<<"param">>, <<"out", "param">>}
  \/ level \in InValue /\ t.level = "next" /\ t.do \in {<<"param", "more">>, <<"out", "param", "more">>}

LEMMA TurnCounts ==
  ASSUME NEW level \in TextLevels, NEW c \in TextChars
  PROVE  CountsTo(level, c, Turn(level, c))
<1> USE DEF To, Error, InName, InValue, Begins
<1>0. "param" \notin ToSet(<<>>)
  BY DEF ToSet
<1>1. CASE level = "start"
  BY <1>0, <1>1, ZenonT(60) DEF Turn, CountsTo
<1>2. CASE level = "name"
  BY <1>0, <1>2, ZenonT(60) DEF Turn, CountsTo
<1>3. CASE level = "next"
  BY <1>0, <1>3, ZenonT(60) DEF Turn, CountsTo
<1>4. CASE level = "param name"
  BY <1>0, <1>4, ZenonT(60) DEF Turn, CountsTo
<1>5. CASE level = "named"
  BY <1>0, <1>5, ZenonT(60) DEF Turn, CountsTo
<1>6. CASE level = "equal"
  BY <1>0, <1>6, ZenonT(60) DEF Turn, CountsTo
<1>7. CASE level = "value"
  BY <1>0, <1>7, ZenonT(60) DEF Turn, CountsTo
<1>8. CASE level = "quoted"
  BY <1>0, <1>8, ZenonT(60) DEF Turn, CountsTo
<1>9. CASE level = "date"
  BY <1>0, <1>9, ZenonT(60) DEF Turn, CountsTo
<1>10. CASE level = "after value"
  BY <1>0, <1>10, ZenonT(60) DEF Turn, CountsTo
<1>11. CASE level = "out"
  BY <1>0, <1>11, ZenonT(60) DEF Turn, CountsTo
<1>12. CASE level = "after out"
  BY <1>0, <1>12, ZenonT(60) DEF Turn, CountsTo
<1>13. QED BY <1>1, <1>2, <1>3, <1>4, <1>5, <1>6, <1>7, <1>8, <1>9, <1>10, <1>11, <1>12
            DEF TextLevels, BeforeParm

LEMMA BuffersAre ==
  ASSUME NEW b \in TextBuffers
  PROVE  b = [name |-> b.name, value |-> b.value, out |-> b.out, word |-> b.word,
              chars |-> b.chars, quote |-> b.quote, current |-> b.current, from |-> b.from, ok |-> b.ok]
  BY DEF TextBuffers

\* What one function does to the count.
LEMMA BeginsCounted ==
  ASSUME NEW b \in TextBuffers, NEW c, NEW isOut, NEW f \in Begins, b.ok
  PROVE  OneDone(f, c, b, isOut).current = IF b.current = 0 THEN 1 ELSE b.current
<1>1. FirstParm(b) = [b EXCEPT !.current = IF b.current = 0 THEN 1 ELSE b.current]
  BY DEF FirstParm
<1>2. "current" \in DOMAIN FirstParm(b) /\ FirstParm(b).current = IF b.current = 0 THEN 1 ELSE b.current
  BY BuffersAre, <1>1
<1> DEFINE p == FirstParm(b)
<1>3. \/ OneDone(f, c, b, isOut) = [p EXCEPT !.name = Here]
      \/ \E chars, quote :
           OneDone(f, c, b, isOut) = [p EXCEPT !.value = Here, !.chars = chars, !.quote = quote]
  BY DEF OneDone, Effect, ValueBegins, Begins
<1> HIDE DEF p
<1>4. "current" \in DOMAIN p /\ p.current = IF b.current = 0 THEN 1 ELSE b.current
  BY <1>2 DEF p
<1>5. OneDone(f, c, b, isOut).current = p.current
  BY <1>3, <1>4
<1>6. QED BY <1>4, <1>5

LEMMA OthersCounted ==
  ASSUME NEW b \in TextBuffers, NEW c, NEW isOut,
         NEW f \in NotCounted
  PROVE  OneDone(f, c, b, isOut).current = b.current
<1>1. b = [name |-> b.name, value |-> b.value, out |-> b.out, word |-> b.word, chars |-> b.chars,
           quote |-> b.quote, current |-> b.current, from |-> b.from, ok |-> b.ok]
  BY BuffersAre, Zenon
<1>3. OneDone("name", c, b, isOut).current = b.current
  BY DEF OneDone, Effect
<1>4. OneDone("value", c, b, isOut).current = b.current
  BY <1>1 DEF OneDone, Effect
<1>5. OneDone("out begins", c, b, isOut).current = b.current
  BY <1>1 DEF OneDone, Effect
<1>6. OneDone("out", c, b, isOut).current = b.current
  BY <1>1 DEF OneDone, Effect
<1>7. OneDone("param", c, b, isOut).current = b.current
  BY <1>1 DEF OneDone, Effect, Cleared
<1>8. QED BY <1>3, <1>4, <1>5, <1>6, <1>7 DEF NotCounted

LEMMA ParamOk ==
  ASSUME NEW b \in TextBuffers, NEW c, NEW isOut
  PROVE  OneDone("param", c, b, isOut).ok => b.ok
<1>1. OneDone("param", c, b, isOut) = (IF b.ok THEN Cleared(b) ELSE b)
  BY DEF OneDone, Effect
<1>2. Cleared(b).ok = b.ok
  BY BuffersAre DEF Cleared
<1>3. QED BY <1>1, <1>2

LEMMA MoreCounted ==
  ASSUME NEW b \in TextBuffers, NEW c, NEW isOut, OneDone("more", c, b, isOut).ok
  PROVE  b.ok /\ OneDone("more", c, b, isOut).current = b.current + 1
<1> DEFINE m == OneDone("more", c, b, isOut)
<1>1. b.ok
  BY DEF OneDone
<1>2. m = IF b.current >= TableSize THEN [b EXCEPT !.ok = FALSE]
          ELSE [b EXCEPT !.current = b.current + 1, !.from = text.at]
  BY <1>1 DEF OneDone, Effect
<1>3. m.ok
  OBVIOUS
<1> HIDE DEF m
<1>4. ASSUME b.current >= TableSize PROVE FALSE
  <2>1. m = [b EXCEPT !.ok = FALSE]
    BY <1>2, <1>4
  <2>2. m.ok = FALSE
    BY BuffersAre, <2>1
  <2>3. QED BY <1>3, <2>2
<1>5. m = [b EXCEPT !.current = b.current + 1, !.from = text.at]
  BY <1>2, <1>4
<1>6. m.current = b.current + 1
  BY BuffersAre, <1>5
<1>7. QED BY <1>1, <1>6 DEF m

\* What a character does to the parameters, and to the count that is told.
CharTakes(c, isOut, t, before, after) ==
  /\ buffers' = after
  /\ {"count", "answer", "trailing"} \subseteq DOMAIN params'
  /\ params'.table = IF "param" \in ToSet(t.do) /\ before.ok
                     THEN Append(params.table, Made(before)) ELSE params.table
  /\ params'.trailing <=> "more" \in ToSet(t.do) \/ (params.trailing /\ c \in {"space", "end"})
  /\ \/ /\ text'.level = "idle"
        /\ params'.answer = "OK" => after.ok /\ t.level = "OK" /\ params'.count = after.current
     \/ /\ text'.level = t.level /\ t.level \notin TextEnds /\ after.ok
        /\ params'.answer = "none"

LEMMA CharTakesOne ==
  ASSUME TextInv, NEW c, ParseChar(c), NEW t, t = Turn(text.level, c)
  PROVE  \E isOut \in BOOLEAN :
           CharTakes(c, isOut, t,
                     Done(IF "out" \in ToSet(t.do) THEN <<"out">> ELSE <<>>, c, buffers, isOut),
                     Done(t.do, c, buffers, isOut))
<1>1. PICK isOut \in BOOLEAN, converts \in BOOLEAN :
        LET turn == Turn(text.level, c)
            makes == "param" \in ToSet(turn.do)
            out == "out" \in ToSet(turn.do)
            before == Done(IF out THEN <<"out">> ELSE <<>>, c, buffers, isOut)
            made == Made(before)
            after == Done(turn.do, c, buffers, isOut)
            fails == ~after.ok \/ (makes /\ made.kind # "CHAR" /\ ~converts)
            ends == fails \/ turn.level \in {"OK", "ERROR_RPC", "ERROR_PARM"} IN
        /\ isOut \/ out
        /\ converts \/ (makes /\ before.ok /\ made.kind # "CHAR")
        /\ text' = IF ends THEN [text EXCEPT !.level = "idle", !.chars = {}]
                   ELSE [text EXCEPT !.level = turn.level, !.at = @ + 1]
        /\ buffers' = after
        /\ params' = [table |-> IF makes /\ before.ok THEN Append(params.table, made)
                                ELSE params.table,
                      count |-> IF ends /\ ~fails /\ turn.level = "OK" THEN after.current ELSE 0,
                      answer |-> IF ~ends THEN "none" ELSE IF fails THEN "FAIL" ELSE turn.level,
                      trailing |-> "more" \in ToSet(turn.do)
                                   \/ (params.trailing /\ c \in {"space", "end"})]
  BY Zenon DEF ParseChar
<1> DEFINE before == Done(IF "out" \in ToSet(t.do) THEN <<"out">> ELSE <<>>, c, buffers, isOut)
           after == Done(t.do, c, buffers, isOut)
           fails == ~after.ok \/ ("param" \in ToSet(t.do) /\ Made(before).kind # "CHAR" /\ ~converts)
           ends == fails \/ t.level \in TextEnds
<1>2. /\ buffers' = after
      /\ text' = IF ends THEN [text EXCEPT !.level = "idle", !.chars = {}]
                 ELSE [text EXCEPT !.level = t.level, !.at = text.at + 1]
      /\ params' = [table |-> IF "param" \in ToSet(t.do) /\ before.ok
                              THEN Append(params.table, Made(before)) ELSE params.table,
                    count |-> IF ends /\ ~fails /\ t.level = "OK" THEN after.current ELSE 0,
                    answer |-> IF ~ends THEN "none" ELSE IF fails THEN "FAIL" ELSE t.level,
                    trailing |-> "more" \in ToSet(t.do)
                                 \/ (params.trailing /\ c \in {"space", "end"})]
  BY <1>1 DEF TextEnds
<1>3. text.level \in STRING \/ "level" \in DOMAIN text
  BY DEF TextInv
<1>4. text = [number |-> text.number, chars |-> text.chars, at |-> text.at, level |-> text.level]
  BY DEF TextInv
<1>5. ~fails => after.ok
  OBVIOUS
<1> HIDE DEF before, after, fails, ends
<1>6. ends => text'.level = "idle" /\ (params'.answer = "OK" => ~fails /\ t.level = "OK")
  BY <1>2, <1>4
<1>7. ~ends => text'.level = t.level /\ params'.answer = "none"
  BY <1>2, <1>4
<1>8. ~ends => t.level \notin TextEnds /\ ~fails
  BY DEF ends
<1>9. /\ {"count", "answer", "trailing"} \subseteq DOMAIN params'
      /\ params'.table = IF "param" \in ToSet(t.do) /\ before.ok
                         THEN Append(params.table, Made(before)) ELSE params.table
      /\ params'.trailing <=> "more" \in ToSet(t.do) \/ (params.trailing /\ c \in {"space", "end"})
      /\ ends /\ ~fails /\ t.level = "OK" => params'.count = after.current
  BY <1>2
<1>10. CharTakes(c, isOut, t, before, after)
  BY <1>2, <1>5, <1>6, <1>7, <1>8, <1>9 DEF CharTakes
<1>11. QED BY <1>10 DEF before, after

\* The buffers' count after a list, and whether the parameter of it was made.
LEMMA DoneCounted ==
  ASSUME NEW b \in TextBuffers, b.ok, NEW c \in TextChars, NEW isOut \in BOOLEAN,
         text.number \in Nat, text.at \in Nat
  PROVE  /\ Done(<<>>, c, b, isOut) = b
         /\ \A f \in Begins :
              Done(<<f>>, c, b, isOut).current = IF b.current = 0 THEN 1 ELSE b.current
         /\ \A f \in NotCounted :
              Done(<<f>>, c, b, isOut).current = b.current
         /\ Done(<<"param", "more">>, c, b, isOut).ok =>
              Done(<<"param", "more">>, c, b, isOut).current = b.current + 1
         /\ Done(<<"out", "param">>, c, b, isOut).ok =>
              /\ Done(<<"out">>, c, b, isOut).ok
              /\ Done(<<"out", "param">>, c, b, isOut).current = b.current
         /\ Done(<<"out", "param", "more">>, c, b, isOut).ok =>
              /\ Done(<<"out">>, c, b, isOut).ok
              /\ Done(<<"out", "param", "more">>, c, b, isOut).current = b.current + 1
<1>1. Done(<<>>, c, b, isOut) = b
  BY DoneNone
<1>2. \A f : Done(<<f>>, c, b, isOut) = OneDone(f, c, b, isOut)
  BY DoneOne
<1>3. ASSUME NEW f \in Begins
      PROVE  OneDone(f, c, b, isOut).current = IF b.current = 0 THEN 1 ELSE b.current
  BY BeginsCounted, Zenon
<1>4. ASSUME NEW f \in NotCounted
      PROVE  OneDone(f, c, b, isOut).current = b.current
  BY OthersCounted, Zenon, SMTT(40)
<1> DEFINE p == OneDone("param", c, b, isOut)
           o == OneDone("out", c, b, isOut)
           q == OneDone("param", c, o, isOut)
<1>5. p \in TextBuffers /\ o \in TextBuffers /\ q \in TextBuffers
  <2>1. p \in TextBuffers /\ o \in TextBuffers
    BY EffectTyped DEF OneDone
  <2> HIDE DEF o
  <2>2. q \in TextBuffers
    BY <2>1, EffectTyped DEF OneDone
  <2>3. QED BY <2>1, <2>2
<1>6. /\ Done(<<"param", "more">>, c, b, isOut) = OneDone("more", c, p, isOut)
      /\ Done(<<"out", "param">>, c, b, isOut) = q
      /\ Done(<<"out", "param", "more">>, c, b, isOut) = OneDone("more", c, q, isOut)
  BY DoneTwo, DoneThree
<1>7. p.current = b.current /\ o.current = b.current
  BY <1>4 DEF NotCounted
<1> HIDE DEF p
<1>8. OneDone("more", c, p, isOut).ok => OneDone("more", c, p, isOut).current = b.current + 1
  <2>1. OneDone("more", c, p, isOut).ok => OneDone("more", c, p, isOut).current = p.current + 1
    BY <1>5, MoreCounted, Zenon
  <2>2. QED BY <1>7, <2>1, Zenon
<1> HIDE DEF o
<1>9. q.current = b.current /\ (q.ok => o.ok)
  <2>1. q.current = o.current
    <3>1. "param" \in NotCounted
      BY DEF NotCounted
    <3>2. ASSUME NEW x \in TextBuffers PROVE OneDone("param", c, x, isOut).current = x.current
      BY <3>1, OthersCounted
    <3>3. QED BY <1>5, <3>2, Zenon
  <2>2. q.ok => o.ok
    BY <1>5, ParamOk, Zenon
  <2>3. QED BY <1>7, <2>1, <2>2
<1> HIDE DEF q
<1>10. OneDone("more", c, q, isOut).ok =>
         q.ok /\ OneDone("more", c, q, isOut).current = b.current + 1
  <2>1. OneDone("more", c, q, isOut).ok =>
          q.ok /\ OneDone("more", c, q, isOut).current = q.current + 1
    BY <1>5, MoreCounted, Zenon
  <2>2. QED BY <1>9, <2>1, Zenon
<1>11. Done(<<"out">>, c, b, isOut) = o
  BY <1>2 DEF o
<1>13. ASSUME NEW f \in NotCounted PROVE Done(<<f>>, c, b, isOut).current = b.current
  <2>1. Done(<<f>>, c, b, isOut) = OneDone(f, c, b, isOut)
    BY <1>2, Zenon
  <2>2. OneDone(f, c, b, isOut).current = b.current
    BY <1>4, Zenon
  <2>3. QED BY <2>1, <2>2, Zenon
<1>14. \A f \in Begins : Done(<<f>>, c, b, isOut).current = IF b.current = 0 THEN 1 ELSE b.current
  BY <1>2, <1>3
<1>15. QED BY <1>1, <1>6, <1>7, <1>8, <1>9, <1>10, <1>11, <1>13, <1>14

\* A table that has one more parameter, or the same.
LEMMA TableGrows ==
  ASSUME NEW s \in Seq(TextParam), NEW p
  PROVE  Len(s) \in Nat /\ Len(Append(s, p)) = Len(s) + 1
  OBVIOUS

LEMMA CharCounted ==
  ASSUME TextInv, CountInv, NEW c \in text.chars \cup {"end"}, ParseChar(c)
  PROVE  CountInv'
<1> DEFINE t == Turn(text.level, c)
           level == text.level
           k == Len(params.table)
           cur == buffers.current
<1>1. /\ c \in TextChars /\ level \in TextLevels /\ text.number \in Nat /\ text.at \in Nat
      /\ buffers \in TextBuffers /\ buffers.ok /\ params.table \in Seq(TextParam)
      /\ level # "idle"
  <2>1. level # "idle"
    BY DEF ParseChar
  <2>2. c \in TextChars
    BY DEF TextInv, TextChars
  <2> HIDE DEF TextChars
  <2>3. QED BY <2>1, <2>2 DEF TextInv, BuffersOwn
<1>2. CountsTo(level, c, t)
  BY <1>1, TurnCounts
<1>3. PICK isOut \in BOOLEAN :
        CharTakes(c, isOut, t,
                  Done(IF "out" \in ToSet(t.do) THEN <<"out">> ELSE <<>>, c, buffers, isOut),
                  Done(t.do, c, buffers, isOut))
  BY CharTakesOne, Zenon
<1> DEFINE before == Done(IF "out" \in ToSet(t.do) THEN <<"out">> ELSE <<>>, c, buffers, isOut)
           after == Done(t.do, c, buffers, isOut)
           D(do) == Done(do, c, buffers, isOut)
<1>4. /\ D(<<>>) = buffers
      /\ \A f \in Begins : D(<<f>>).current = IF cur = 0 THEN 1 ELSE cur
      /\ \A f \in NotCounted : D(<<f>>).current = cur
      /\ D(<<"param", "more">>).ok => D(<<"param", "more">>).current = cur + 1
      /\ D(<<"out", "param">>).ok => D(<<"out">>).ok /\ D(<<"out", "param">>).current = cur
      /\ D(<<"out", "param", "more">>).ok =>
           D(<<"out">>).ok /\ D(<<"out", "param", "more">>).current = cur + 1
  BY <1>1, DoneCounted
<1>5. k \in Nat /\ \A p : Len(Append(params.table, p)) = k + 1
  BY <1>1, TableGrows
<1>6. CharTakes(c, isOut, t, before, after)
  BY <1>3
<1>7. /\ k <= TableSize
      /\ level \in {"start", "name"} => cur = 0 /\ params.table = <<>>
      /\ level = "next" => (cur = 0 /\ params.table = <<>>) \/ (params.trailing /\ cur = k + 1)
      /\ level \in InName \cup InValue => cur = k + 1
      /\ TableSize \in Nat /\ cur \in 0..TableSize
  <2>1. cur \in 0..TableSize
    BY <1>1 DEF TextBuffers
  <2>2. QED BY <2>1, RpcTextAssumption DEF CountInv
<1>8. after = D(t.do)
  OBVIOUS
<1>9. "param" \in ToSet(t.do) =>
        before = IF "out" \in ToSet(t.do) THEN D(<<"out">>) ELSE D(<<>>)
  OBVIOUS
<1> HIDE DEF D, before, after, t, k, cur
<1> DEFINE n == Len(params'.table)
           c2 == buffers'.current
           l2 == text'.level
\* What remains to be shown, at each level that the turn may lead to.
<1>10. ASSUME n <= TableSize,
              l2 = "idle" /\ params'.answer = "OK" /\ ~params'.trailing => params'.count = n,
              l2 # "idle" => params'.answer = "none",
              l2 \in {"start", "name"} => c2 = 0 /\ params'.table = <<>>,
              l2 = "next" => (c2 = 0 /\ params'.table = <<>>) \/ (params'.trailing /\ c2 = n + 1),
              l2 \in InName \cup InValue => c2 = n + 1
       PROVE  CountInv'
  BY <1>6, <1>10 DEF CountInv, CharTakes, CountIsTold
<1>11. /\ l2 # "idle" => params'.answer = "none" /\ after.ok /\ l2 = t.level
       /\ l2 = "idle" /\ params'.answer = "OK" => after.ok /\ t.level = "OK" /\ params'.count = after.current
       /\ c2 = after.current
  BY <1>6 DEF CharTakes
<1>12. "param" \notin ToSet(t.do) => params'.table = params.table /\ n = k
  BY <1>6 DEF CharTakes, k
<1>13. \A x \in {"start", "name", "next", "idle", "OK"} : x \notin InName \cup InValue
  BY DEF InName, InValue
<1>14. CASE t.level \in {"ERROR_RPC", "ERROR_PARM"} /\ "param" \notin ToSet(t.do)
  <2>1. l2 = "idle" /\ params'.answer # "OK"
    BY <1>6, <1>14 DEF CharTakes, TextEnds
  <2>2. n = k
    BY <1>12, <1>14
  <2> HIDE DEF n, c2, l2
  <2>3. QED BY <1>7, <1>10, <1>13, <2>1, <2>2
<1>15. ASSUME NEW f, t.do = <<f>> PROVE "param" \in ToSet(t.do) => f = "param"
  BY <1>15 DEF ToSet
<1>16. "param" \notin ToSet(<<>>) /\ "more" \notin ToSet(<<>>)
  BY DEF ToSet
<1>17. CASE /\ level \in {"start", "name"} /\ t.level \in {"start", "name", "next"}
            /\ t.do \in {<<>>, <<"name">>}
  <2>1. after.current = 0
    BY <1>4, <1>7, <1>8, <1>17 DEF NotCounted, cur
  <2>2. params'.table = params.table /\ n = k
    BY <1>12, <1>15, <1>16, <1>17
  <2>3. params.table = <<>> /\ t.level # "OK"
    BY <1>7, <1>17
  <2>4. l2 = "idle" \/ l2 \in {"start", "name", "next"}
    BY <1>11, <1>17
  <2> HIDE DEF n, c2, l2
  <2>5. QED BY <1>7, <1>10, <1>11, <1>13, <2>1, <2>2, <2>3, <2>4
<1>18. CASE level \in {"name", "next"} /\ t.level = "OK" /\ t.do = <<>> /\ c = "end"
  <2>1. l2 = "idle"
    BY <1>6, <1>18 DEF CharTakes, TextEnds
  <2>2. params'.table = params.table /\ n = k /\ after.current = cur
    BY <1>4, <1>8, <1>12, <1>16, <1>18 DEF cur
  <2>3. params'.trailing <=> params.trailing
    BY <1>6, <1>16, <1>18 DEF CharTakes
  <2>4. params.table = <<>> => k = 0
    BY DEF k
  <2>5. ~params'.trailing => cur = k
    BY <1>7, <1>18, <2>3, <2>4
  <2> HIDE DEF n, c2, l2
  <2>6. QED BY <1>7, <1>10, <1>11, <1>13, <2>1, <2>2, <2>5
<1>19. CASE level = "next" /\ t.level = "next" /\ t.do = <<>> /\ c = "space"
  <2>1. params'.table = params.table /\ n = k /\ after.current = cur
    BY <1>4, <1>8, <1>12, <1>16, <1>19 DEF cur
  <2>2. params'.trailing <=> params.trailing
    BY <1>6, <1>16, <1>19 DEF CharTakes
  <2>3. l2 = "idle" \/ l2 = "next"
    BY <1>11, <1>19
  <2> HIDE DEF n, c2, l2
  <2>4. QED BY <1>7, <1>10, <1>11, <1>13, <1>19, <2>1, <2>2, <2>3
<1>20. CASE /\ level \in {"next"} \cup InName /\ t.level \in InName \cup InValue
            /\ \E f \in Begins : t.do = <<f>>
  <2>1. PICK f \in Begins : t.do = <<f>>
    BY <1>20
  <2>2. params'.table = params.table /\ n = k
    BY <1>12, <1>15, <2>1 DEF Begins
  <2>3. after.current = IF cur = 0 THEN 1 ELSE cur
    BY <1>4, <1>8, <2>1
  <2>4. params.table = <<>> => k = 0
    BY DEF k
  <2>5. (cur = 0 /\ params.table = <<>>) \/ cur = k + 1
    BY <1>7, <1>20
  <2>5a. after.current = k + 1
    <3>1. k + 1 # 0
      BY <1>5
    <3>2. QED BY <2>3, <2>4, <2>5, <3>1
  <2>6. t.level # "OK" /\ (l2 # "idle" => l2 \in InName \cup InValue)
    BY <1>11, <1>13, <1>20
  <2> HIDE DEF n, c2, l2
  <2>7. QED BY <1>7, <1>10, <1>11, <1>13, <2>2, <2>5a, <2>6
<1>21. CASE /\ level \in InName \cup InValue /\ t.level \in InName \cup InValue
            /\ (t.do = <<>> \/ \E f \in {"value", "out begins", "out"} : t.do = <<f>>)
  <2>1. params'.table = params.table /\ n = k
    BY <1>12, <1>15, <1>16, <1>21
  <2>2. after.current = cur
    BY <1>4, <1>8, <1>21 DEF cur, NotCounted
  <2>3. t.level # "OK" /\ (l2 # "idle" => l2 \in InName \cup InValue)
    BY <1>11, <1>13, <1>21
  <2> HIDE DEF n, c2, l2
  <2>4. QED BY <1>7, <1>10, <1>11, <1>13, <1>21, <2>1, <2>2, <2>3
<1>22. /\ "param" \in ToSet(<<"param">>) /\ "out" \notin ToSet(<<"param">>)
       /\ "param" \in ToSet(<<"param", "more">>) /\ "out" \notin ToSet(<<"param", "more">>)
       /\ "more" \in ToSet(<<"param", "more">>) /\ "more" \in ToSet(<<"out", "param", "more">>)
       /\ "out" \in ToSet(<<"out", "param">>) /\ "out" \in ToSet(<<"out", "param", "more">>)
       /\ "param" \in ToSet(<<"out", "param">>) /\ "param" \in ToSet(<<"out", "param", "more">>)
  BY DEF ToSet
<1>23. ASSUME t.do \in {<<"param">>, <<"param", "more">>, <<"out", "param">>, <<"out", "param", "more">>},
              level \in InValue
       PROVE  /\ n \in {k, k + 1} /\ n <= TableSize
              /\ after.ok => n = k + 1
              /\ t.do \in {<<"param">>, <<"out", "param">>} /\ after.ok => after.current = cur
              /\ t.do \in {<<"param", "more">>, <<"out", "param", "more">>} /\ after.ok =>
                   after.current = cur + 1 /\ params'.trailing
  <2>1. "param" \in ToSet(t.do)
    BY <1>22, <1>23
  <2>2. after.ok => before.ok
    BY <1>1, <1>4, <1>8, <1>9, <1>22, <1>23, <2>1
  <2>3. params'.table = IF before.ok THEN Append(params.table, Made(before)) ELSE params.table
    BY <1>6, <2>1 DEF CharTakes
  <2>4. n = IF before.ok THEN k + 1 ELSE k
    BY <1>5, <2>3 DEF k
  <2>5. k + 1 <= TableSize
    BY <1>5, <1>7, <1>23
  <2>6. t.do \in {<<"param">>, <<"out", "param">>} /\ after.ok => after.current = cur
    BY <1>4, <1>8 DEF NotCounted
  <2>7. t.do \in {<<"param", "more">>, <<"out", "param", "more">>} /\ after.ok =>
          after.current = cur + 1 /\ params'.trailing
    BY <1>4, <1>6, <1>8, <1>22 DEF CharTakes
  <2> HIDE DEF n
  <2>8. QED BY <1>5, <1>7, <2>2, <2>4, <2>5, <2>6, <2>7
<1>24. CASE level \in InValue /\ t.level = "OK" /\ t.do \in {<<"param">>, <<"out", "param">>}
  <2>1. l2 = "idle"
    BY <1>6, <1>24 DEF CharTakes, TextEnds
  <2> HIDE DEF n, c2, l2
  <2>2. QED BY <1>5, <1>7, <1>10, <1>11, <1>13, <1>23, <1>24, <2>1
<1>25. CASE level \in InValue /\ t.level = "next" /\ t.do \in {<<"param", "more">>, <<"out", "param", "more">>}
  <2>1. l2 = "idle" \/ l2 = "next"
    BY <1>11, <1>25
  <2> HIDE DEF n, c2, l2
  <2>2. QED BY <1>5, <1>7, <1>10, <1>11, <1>13, <1>23, <1>25, <2>1
<1>26. QED BY <1>2, <1>14, <1>17, <1>18, <1>19, <1>20, <1>21, <1>24, <1>25 DEF CountsTo

LEMMA CountBegins ==
  ASSUME TextInv, CountInv, ParseBegins
  PROVE  CountInv'
<1>1. /\ text'.level = "start" /\ buffers'.current = 0 /\ params'.table = <<>>
      /\ params'.answer = "none" /\ {"count", "answer", "trailing"} \subseteq DOMAIN params'
  BY DEF ParseBegins, NoBuffers
<1>2. TableSize \in Nat /\ Len(<<>>) = 0
  BY RpcTextAssumption
<1>3. "start" \notin InName \cup InValue
  BY DEF InName, InValue
<1>4. QED BY <1>1, <1>2, <1>3 DEF CountInv

LEMMA CountInitInv == RpcTextInit => CountInv
<1>1. TableSize \in Nat /\ Len(<<>>) = 0
  BY RpcTextAssumption
<1>2. "idle" \notin InName \cup InValue
  BY DEF InName, InValue
<1>3. QED BY <1>1, <1>2 DEF RpcTextInit, CountInv, CountIsTold

LEMMA CountStep == TextInv /\ CountInv /\ [RpcTextNext]_rpcTextVars => CountInv'
<1>1. ASSUME TextInv, CountInv, ParseBegins PROVE CountInv'
  BY <1>1, CountBegins
<1>2. ASSUME TextInv, CountInv, NEW c \in text.chars \cup {"end"}, ParseChar(c) PROVE CountInv'
  BY <1>2, CharCounted
<1>3. ASSUME CountInv, UNCHANGED rpcTextVars PROVE CountInv'
  <2>1. text' = text /\ buffers' = buffers /\ params' = params
    BY <1>3 DEF rpcTextVars
  <2>2. QED BY <1>3, <2>1 DEF CountInv, CountIsTold
<1>4. QED BY <1>1, <1>2, <1>3 DEF RpcTextNext

LEMMA CountShows == TextInv /\ CountInv => CountIsTold
<1>1. ASSUME CountInv, text.level # "idle" PROVE CountIsTold
  BY <1>1 DEF CountInv, CountIsTold
<1>2. QED BY <1>1 DEF CountInv

\* The caller is told as many parameters as were made of its text, and they are
\* never more than its table has room for, whichever character the text ends at
\* and wherever the table is found to be full.
THEOREM CountIsToldHolds == LibSpec => []CountIsTold
<1>1. LibInit => TextInv /\ CountInv
  BY TextInitInv, CountInitInv DEF LibInit
<1>2. TextInv /\ CountInv /\ [LibNext]_libVars => (TextInv /\ CountInv)'
  BY TextStep, CountStep, TextOfLib
<1>3. TextInv /\ CountInv => CountIsTold
  BY CountShows
<1>4. QED BY <1>1, <1>2, <1>3, PTL DEF LibSpec

-----------------------------------------------------------------------------
(* The text of a call: a parameter is a number where its value reads as one *)

NumberPlaces == {"start", "sign", "digits", "point", "decimals", "bad"}

LEMMA NumberTurnIs ==
  ASSUME NEW before \in NumberPlaces, NEW c, c # "space", NEW point \in BOOLEAN
  PROVE  \/ c = "sign" /\ before = "start" /\ NumberTurn(before, c, point) = "sign"
         \/ /\ c = "digit" /\ before \in {"start", "sign", "digits"}
            /\ NumberTurn(before, c, point) = "digits"
         \/ /\ c = "dot" /\ before \in {"start", "sign", "digits"} /\ point
            /\ NumberTurn(before, c, point) = "point"
         \/ /\ c = "digit" /\ before \in {"point", "decimals"}
            /\ NumberTurn(before, c, point) = "decimals"
         \/ /\ NumberTurn(before, c, point) = "bad"
            /\ \/ before = "bad" \/ c \notin Signed
               \/ c = "sign" /\ before # "start"
               \/ c = "dot" /\ (before \in {"point", "decimals"} \/ ~point)
<1>1. CASE before = "start"
  BY <1>1, ZenonT(60) DEF NumberTurn, Signed
<1>2. CASE before = "sign"
  BY <1>2, ZenonT(60) DEF NumberTurn, Signed
<1>3. CASE before = "digits"
  BY <1>3, ZenonT(60) DEF NumberTurn, Signed
<1>4. CASE before = "point"
  BY <1>4, ZenonT(60) DEF NumberTurn, Signed
<1>5. CASE before = "decimals"
  BY <1>5, ZenonT(60) DEF NumberTurn, Signed
<1>6. CASE before = "bad"
  BY <1>6, ZenonT(60) DEF NumberTurn, Signed
<1>7. QED BY <1>1, <1>2, <1>3, <1>4, <1>5, <1>6 DEF NumberPlaces

\* Where an automaton is behind each character of a value.
NumberRun(f, v, point) ==
  f = [n \in 0..Len(v) |-> IF n = 0 THEN "start" ELSE NumberTurn(f[n - 1], v[n], point)]

LEMMA NumberRunExists ==
  ASSUME NEW v, NEW point, Len(v) \in Nat
  PROVE  \E f : NumberRun(f, v, point)
<1> DEFINE P(f, n) == \A i \in 0..n : f[i] = IF i = 0 THEN "start" ELSE NumberTurn(f[i - 1], v[i], point)
           S == {n \in Nat : \E f : P(f, n)}
<1>1. 0 \in S
  <2>1. P([i \in 0..0 |-> "start"], 0)
    OBVIOUS
  <2>2. QED BY <2>1
<1>2. ASSUME NEW n \in Nat, n \in S PROVE n + 1 \in S
  <2>1. PICK f : P(f, n)
    BY <1>2
  <2> DEFINE g == [i \in 0..(n + 1) |-> IF i = n + 1 THEN NumberTurn(f[n], v[n + 1], point) ELSE f[i]]
  <2>2. ASSUME NEW i \in 0..(n + 1)
        PROVE  g[i] = IF i = 0 THEN "start" ELSE NumberTurn(g[i - 1], v[i], point)
    <3>1. CASE i = n + 1
      <4>1. i # 0 /\ n \in 0..(n + 1) /\ n # n + 1 /\ i - 1 = n
        BY <3>1
      <4>2. g[i] = NumberTurn(f[n], v[n + 1], point) /\ g[n] = f[n]
        BY <3>1, <4>1
      <4>3. QED BY <3>1, <4>1, <4>2
    <3>2. CASE i # n + 1
      <4>1. i \in 0..n
        BY <3>2
      <4>2. g[i] = f[i]
        BY <3>2
      <4>3. i # 0 => i - 1 \in 0..(n + 1) /\ i - 1 # n + 1
        BY <4>1
      <4>4. i # 0 => g[i - 1] = f[i - 1]
        BY <4>3
      <4>5. f[i] = IF i = 0 THEN "start" ELSE NumberTurn(f[i - 1], v[i], point)
        BY <2>1, <4>1
      <4>6. QED BY <4>2, <4>4, <4>5
    <3>3. QED BY <3>1, <3>2
  <2> HIDE DEF g
  <2>3. P(g, n + 1)
    BY <2>2
  <2>4. QED BY <2>3
<1> HIDE DEF S
<1>3. Nat \subseteq S
  BY <1>1, <1>2, AllNumbers
<1> USE DEF S
<1>4. PICK f : P(f, Len(v))
  <2>1. Len(v) \in S
    BY <1>3
  <2>2. QED BY <2>1
<1> DEFINE h == [i \in 0..Len(v) |-> f[i]]
<1>5. ASSUME NEW i \in 0..Len(v)
      PROVE  h[i] = IF i = 0 THEN "start" ELSE NumberTurn(h[i - 1], v[i], point)
  <2>1. i # 0 => i - 1 \in 0..Len(v)
    OBVIOUS
  <2>2. i # 0 => h[i - 1] = f[i - 1]
    BY <2>1
  <2>3. h[i] = f[i]
    OBVIOUS
  <2> HIDE DEF h
  <2>4. QED BY <1>4, <2>2, <2>3
<1>6. h = [i \in 0..Len(v) |-> h[i]]
  OBVIOUS
<1> HIDE DEF h
<1>7. h = [i \in 0..Len(v) |-> IF i = 0 THEN "start" ELSE NumberTurn(h[i - 1], v[i], point)]
  BY <1>5, <1>6
<1>8. QED BY <1>7 DEF NumberRun

LEMMA NumberLevelIs ==
  ASSUME NEW v, NEW point, Len(v) \in Nat
  PROVE  \E f : NumberRun(f, v, point) /\ NumberLevel(v, point) = f[Len(v)]
<1> DEFINE d == CHOOSE f : f = [n \in 0..Len(v) |->
                   IF n = 0 THEN "start" ELSE NumberTurn(f[n - 1], v[n], point)]
<1>1. d = [n \in 0..Len(v) |-> IF n = 0 THEN "start" ELSE NumberTurn(d[n - 1], v[n], point)]
  <2>1. \E f : NumberRun(f, v, point)
    BY NumberRunExists
  <2>2. \E f : f = [n \in 0..Len(v) |->
                      IF n = 0 THEN "start" ELSE NumberTurn(f[n - 1], v[n], point)]
    BY <2>1, Zenon DEF NumberRun
  <2>3. QED BY <2>2, Zenon
<1>2. NumberRun(d, v, point)
  BY <1>1, Zenon DEF NumberRun
<1>3. NumberLevel(v, point) = d[Len(v)]
  BY Zenon DEF NumberLevel
<1> HIDE DEF d
<1>4. QED BY <1>2, <1>3

\* The first n characters read as a number.
ReadsUpTo(v, n) ==
  /\ \A i \in 1..n : v[i] \in Signed
  /\ \A i \in 2..n : v[i] # "sign"
  /\ \A i, j \in 1..n : v[i] = "dot" /\ v[j] = "dot" => i = j

\* What the place of an automaton says of the characters before it.
PlaceTells(v, n, at, point) ==
  /\ at \in NumberPlaces
  /\ at = "start" <=> n = 0
  /\ at = "sign" => n = 1 /\ v[1] = "sign"
  /\ at # "bad" => ReadsUpTo(v, n)
  /\ at \in {"start", "sign", "digits"} => \A i \in 1..n : v[i] # "dot"
  /\ at \in {"point", "decimals"} => \E i \in 1..n : v[i] = "dot"
  /\ at = "bad" /\ point => ~ReadsUpTo(v, n)

LEMMA PlaceTellsNext ==
  ASSUME NEW v, NEW n \in Nat, NEW at, NEW point \in BOOLEAN, PlaceTells(v, n, at, point),
         v[n + 1] # "space"
  PROVE  PlaceTells(v, n + 1, NumberTurn(at, v[n + 1], point), point)
<1> DEFINE c == v[n + 1]
           t == NumberTurn(at, c, point)
<1>1. /\ at \in NumberPlaces /\ c # "space"
      /\ (at = "start" <=> n = 0) /\ (at = "sign" => n = 1 /\ v[1] = "sign")
      /\ (at # "bad" => ReadsUpTo(v, n))
      /\ (at \in {"start", "sign", "digits"} => \A i \in 1..n : v[i] # "dot")
      /\ (at \in {"point", "decimals"} => \E i \in 1..n : v[i] = "dot")
      /\ (at = "bad" /\ point => ~ReadsUpTo(v, n))
  BY DEF PlaceTells
<1>2. /\ n + 1 \in 1..(n + 1) /\ n + 1 \in Nat /\ n + 1 # 0
      /\ \A i \in 1..(n + 1) : i \in 1..n \/ i = n + 1
      /\ \A i \in 2..(n + 1) : i \in 2..n \/ i = n + 1
      /\ \A i \in 1..n : i \in 1..(n + 1) /\ i # n + 1
      /\ \A i \in 2..n : i \in 2..(n + 1)
      /\ (n # 0 => n + 1 \in 2..(n + 1))
      /\ (n = 0 => n + 1 \notin 2..(n + 1))
  OBVIOUS
<1>3. \/ c = "sign" /\ at = "start" /\ t = "sign"
      \/ c = "digit" /\ at \in {"start", "sign", "digits"} /\ t = "digits"
      \/ c = "dot" /\ at \in {"start", "sign", "digits"} /\ point /\ t = "point"
      \/ c = "digit" /\ at \in {"point", "decimals"} /\ t = "decimals"
      \/ /\ t = "bad"
         /\ \/ at = "bad" \/ c \notin Signed
            \/ c = "sign" /\ at # "start"
            \/ c = "dot" /\ (at \in {"point", "decimals"} \/ ~point)
  BY <1>1, NumberTurnIs
<1>4. c = v[n + 1]
  OBVIOUS
<1> HIDE DEF t, c
<1>5. ReadsUpTo(v, n + 1) => ReadsUpTo(v, n)
  BY <1>2 DEF ReadsUpTo
<1>6. ASSUME ReadsUpTo(v, n), c \in Signed, c = "sign" => n = 0,
             c = "dot" => \A i \in 1..n : v[i] # "dot"
      PROVE  ReadsUpTo(v, n + 1)
  <2>1. \A i \in 1..(n + 1) : v[i] \in Signed
    BY <1>2, <1>4, <1>6 DEF ReadsUpTo
  <2>2. \A i \in 2..(n + 1) : v[i] # "sign"
    BY <1>2, <1>4, <1>6 DEF ReadsUpTo
  <2>3. \A i, j \in 1..(n + 1) : v[i] = "dot" /\ v[j] = "dot" => i = j
    BY <1>2, <1>4, <1>6 DEF ReadsUpTo
  <2>4. QED BY <2>1, <2>2, <2>3 DEF ReadsUpTo
<1>7. "digit" \in Signed /\ "sign" \in Signed /\ "dot" \in Signed
  BY DEF Signed
<1>8. CASE c = "sign" /\ at = "start" /\ t = "sign"
  <2>0. n = 0 /\ ReadsUpTo(v, n) /\ c # "dot"
    BY <1>1, <1>8
  <2>1. ReadsUpTo(v, n + 1) /\ n + 1 = 1 /\ v[1] = "sign"
    <3>1. ReadsUpTo(v, n + 1)
      BY <1>6, <1>7, <1>8, <2>0
    <3>2. n + 1 = 1
      BY <2>0
    <3>3. QED BY <1>4, <1>8, <3>1, <3>2
  <2>2. \A i \in 1..(n + 1) : v[i] # "dot"
    BY <1>1, <1>2, <1>4, <1>8
  <2>3. QED BY <1>2, <1>8, <2>1, <2>2 DEF PlaceTells, NumberPlaces, t, c
<1>9. CASE c = "digit" /\ at \in {"start", "sign", "digits"} /\ t = "digits"
  <2>1. ReadsUpTo(v, n + 1)
    BY <1>1, <1>6, <1>7, <1>9
  <2>2. \A i \in 1..(n + 1) : v[i] # "dot"
    BY <1>1, <1>2, <1>4, <1>9
  <2>3. QED BY <1>2, <1>9, <2>1, <2>2 DEF PlaceTells, NumberPlaces, t, c
<1>10. CASE c = "dot" /\ at \in {"start", "sign", "digits"} /\ point /\ t = "point"
  <2>1. ReadsUpTo(v, n + 1)
    BY <1>1, <1>6, <1>7, <1>10
  <2>2. \E i \in 1..(n + 1) : v[i] = "dot"
    BY <1>2, <1>4, <1>10
  <2>3. QED BY <1>2, <1>10, <2>1, <2>2 DEF PlaceTells, NumberPlaces, t, c
<1>11. CASE c = "digit" /\ at \in {"point", "decimals"} /\ t = "decimals"
  <2>1. ReadsUpTo(v, n + 1)
    BY <1>1, <1>6, <1>7, <1>11
  <2>2. \E i \in 1..(n + 1) : v[i] = "dot"
    BY <1>1, <1>2, <1>11
  <2>3. QED BY <1>2, <1>11, <2>1, <2>2 DEF PlaceTells, NumberPlaces, t, c
<1>12. CASE /\ t = "bad"
            /\ \/ at = "bad" \/ c \notin Signed
               \/ c = "sign" /\ at # "start"
               \/ c = "dot" /\ (at \in {"point", "decimals"} \/ ~point)
  <2>1. ASSUME point, ReadsUpTo(v, n + 1) PROVE FALSE
    <3>1. at # "bad"
      BY <1>1, <1>5, <2>1
    <3>2. c \in Signed
      BY <1>2, <1>4, <2>1 DEF ReadsUpTo
    <3>3. ~(c = "sign" /\ n # 0)
      BY <1>2, <1>4, <2>1 DEF ReadsUpTo
    <3>4. ~(c = "dot" /\ at \in {"point", "decimals"})
      BY <1>1, <1>2, <1>4, <2>1 DEF ReadsUpTo
    <3>5. n # 0 <=> at # "start"
      BY <1>1
    <3>6. QED BY <1>12, <2>1, <3>1, <3>2, <3>3, <3>4, <3>5
  <2>2. QED BY <1>2, <1>12, <2>1 DEF PlaceTells, NumberPlaces, t, c
<1>13. QED BY <1>3, <1>8, <1>9, <1>10, <1>11, <1>12

LEMMA LevelTells ==
  ASSUME NEW v \in Seq(TextChars), "space" \notin ToSet(v), NEW point \in BOOLEAN
  PROVE  PlaceTells(v, Len(v), NumberLevel(v, point), point)
<1>0. Len(v) \in Nat /\ \A i \in 1..Len(v) : v[i] # "space"
  <2>1. Len(v) \in Nat
    OBVIOUS
  <2>2. ToSet(v) = {v[i] : i \in 1..Len(v)}
    BY DEF ToSet
  <2>3. QED BY <2>1, <2>2
<1>1. PICK f : NumberRun(f, v, point) /\ NumberLevel(v, point) = f[Len(v)]
  BY <1>0, NumberLevelIs
<1>2. \A n \in 0..Len(v) : f[n] = IF n = 0 THEN "start" ELSE NumberTurn(f[n - 1], v[n], point)
  BY <1>1 DEF NumberRun
<1> DEFINE S == {n \in Nat : n <= Len(v) => PlaceTells(v, n, f[n], point)}
<1>3. 0 \in S
  <2>1. f[0] = "start"
    BY <1>0, <1>2
  <2>2. PlaceTells(v, 0, "start", point)
    BY DEF PlaceTells, NumberPlaces, ReadsUpTo
  <2>3. QED BY <2>1, <2>2
<1>4. ASSUME NEW n \in Nat, n \in S PROVE n + 1 \in S
  <2>1. SUFFICES ASSUME n + 1 <= Len(v) PROVE PlaceTells(v, n + 1, f[n + 1], point)
    OBVIOUS
  <2>2. n <= Len(v) /\ n + 1 \in 0..Len(v) /\ n + 1 \in 1..Len(v) /\ n + 1 # 0 /\ (n + 1) - 1 = n
    BY <1>0, <2>1
  <2>3. PlaceTells(v, n, f[n], point)
    BY <1>4, <2>2
  <2>4. f[n + 1] = NumberTurn(f[n], v[n + 1], point)
    BY <1>2, <2>2
  <2>5. QED BY <1>0, <2>2, <2>3, <2>4, PlaceTellsNext
<1> HIDE DEF S
<1>5. Nat \subseteq S
  BY <1>3, <1>4, AllNumbers
<1>6. Len(v) \in S
  BY <1>0, <1>5
<1>7. QED BY <1>0, <1>1, <1>6 DEF S

\* A value without blanks that has a digit is an integer or a decimal number where
\* it reads as one.
LEMMA NumbersAre ==
  ASSUME NEW v \in Seq(TextChars), "space" \notin ToSet(v), "digit" \in ToSet(v)
  PROVE  IsInt(v) \/ IsFloat(v) <=> ReadsAsNumber(v)
<1> DEFINE i1 == NumberLevel(v, FALSE)
           f1 == NumberLevel(v, TRUE)
           L == Len(v)
<1>1. PlaceTells(v, L, i1, FALSE) /\ PlaceTells(v, L, f1, TRUE)
  BY LevelTells
<1>2. L \in Nat /\ ToSet(v) = {v[i] : i \in 1..L}
  BY DEF ToSet
<1>3. PICK d \in 1..L : v[d] = "digit"
  BY <1>2
<1>4. ReadsUpTo(v, L) <=> ReadsAsNumber(v)
  <2>1. (\A i \in 1..L : v[i] \in Signed) <=> ToSet(v) \subseteq Signed
    BY <1>2
  <2>2. QED BY <2>1 DEF ReadsUpTo, ReadsAsNumber
<1>5. IsInt(v) <=> i1 \in {"digits", "blanks"}
  BY DEF IsInt
<1>6. IsFloat(v) <=> f1 \in {"digits", "point", "decimals", "blanks"}
  BY DEF IsFloat
<1> HIDE DEF i1, f1
<1>7. i1 # "bad" => ReadsUpTo(v, L)
  BY <1>1 DEF PlaceTells
<1>8. (f1 # "bad" => ReadsUpTo(v, L)) /\ (f1 = "bad" => ~ReadsUpTo(v, L)) /\ f1 \in NumberPlaces
  BY <1>1 DEF PlaceTells
<1>9. f1 # "start"
  BY <1>1, <1>2, <1>3 DEF PlaceTells
<1>10. f1 # "sign"
  <2>1. f1 = "sign" => L = 1 /\ v[1] = "sign"
    BY <1>1 DEF PlaceTells
  <2>2. L = 1 => d = 1
    BY <1>3
  <2>3. QED BY <1>3, <2>1, <2>2
<1> HIDE DEF L
<1>11. QED BY <1>4, <1>5, <1>6, <1>7, <1>8, <1>9, <1>10 DEF NumberPlaces

\* What is unquoted in the buffers has no blanks; what is kept of a quoted value
\* is that it is quoted.
Unspaced(b) == b.quote = "none" => "space" \notin ToSet(b.chars)

KindIsTrue(p) ==
  p.quote = "none" /\ "digit" \in ToSet(p.chars) =>
    (p.kind \in {"INT", "FLOAT"} <=> ReadsAsNumber(p.chars))

KindInv ==
  /\ \A i \in 1..Len(params.table) : KindIsTrue(params.table[i])
  /\ text.level # "idle" => Unspaced(buffers)
  /\ text.level \in {"quoted", "date"} => buffers.quote # "none"

LEMMA MadeKind ==
  ASSUME NEW b \in TextBuffers, Unspaced(b)
  PROVE  KindIsTrue(Made(b))
<1>1. Made(b).quote = b.quote /\ Made(b).chars = b.chars /\ Made(b).kind = KindOf(b)
  BY DEF Made
<1>2. SUFFICES ASSUME b.quote = "none", "digit" \in ToSet(b.chars)
               PROVE  KindOf(b) \in {"INT", "FLOAT"} <=> ReadsAsNumber(b.chars)
  BY <1>1 DEF KindIsTrue
<1>3. b.chars \in Seq(TextChars) /\ "space" \notin ToSet(b.chars)
  BY <1>2 DEF TextBuffers, Unspaced
<1>4. IsInt(b.chars) \/ IsFloat(b.chars) <=> ReadsAsNumber(b.chars)
  BY <1>2, <1>3, NumbersAre
<1>5. KindOf(b) = IF IsInt(b.chars) THEN "INT" ELSE IF IsFloat(b.chars) THEN "FLOAT" ELSE "CHAR"
  BY <1>2 DEF KindOf
<1>6. QED BY <1>4, <1>5

\* What a turn means for the quotes and the blanks of a value.
Quotes == {"quote begins", "date begins"}
Untouching == {"name", "name begins", "out begins", "out", "param", "more"}
KindsTo(level, c, t) ==
  /\ t.level \in {"quoted", "date"} =>
       (\E f \in Quotes : t.do = <<f>>)
       \/ (level \in {"quoted", "date"} /\ t.do = <<"value">>)
  /\ \/ t.do = <<>> \/ (\E f \in Quotes \cup Untouching : t.do = <<f>>)
     \/ t.do = <<"value begins">> /\ c # "space"
     \/ t.do = <<"value">> /\ (c # "space" \/ level \in {"quoted", "date"})
     \/ t.do \in {<<"param", "more">>, <<"out", "param">>, <<"out", "param", "more">>}

LEMMA TurnKinds ==
  ASSUME NEW level \in TextLevels, NEW c \in TextChars
  PROVE  KindsTo(level, c, Turn(level, c))
<1> USE DEF To, Error, Quotes, Untouching, Alnum, Signed
<1>1. CASE level = "start"
  BY <1>1, ZenonT(60) DEF Turn, KindsTo
<1>2. CASE level = "name"
  BY <1>2, ZenonT(60) DEF Turn, KindsTo
<1>3. CASE level = "next"
  BY <1>3, ZenonT(60) DEF Turn, KindsTo
<1>4. CASE level = "param name"
  BY <1>4, ZenonT(60) DEF Turn, KindsTo
<1>5. CASE level = "named"
  BY <1>5, ZenonT(60) DEF Turn, KindsTo
<1>6. CASE level = "equal"
  BY <1>6, ZenonT(60) DEF Turn, KindsTo
<1>7. CASE level = "value"
  BY <1>7, ZenonT(60) DEF Turn, KindsTo
<1>8. CASE level = "quoted"
  BY <1>8, ZenonT(60) DEF Turn, KindsTo
<1>9. CASE level = "date"
  BY <1>9, ZenonT(60) DEF Turn, KindsTo
<1>10. CASE level = "after value"
  BY <1>10, ZenonT(60) DEF Turn, KindsTo
<1>11. CASE level = "out"
  BY <1>11, ZenonT(60) DEF Turn, KindsTo
<1>12. CASE level = "after out"
  BY <1>12, ZenonT(60) DEF Turn, KindsTo
<1>13. QED BY <1>1, <1>2, <1>3, <1>4, <1>5, <1>6, <1>7, <1>8, <1>9, <1>10, <1>11, <1>12
            DEF TextLevels, BeforeParm, InName, InValue

\* The effect of a function on the quotes and the characters of a value.
LEMMA UntouchingIs ==
  ASSUME NEW b \in TextBuffers, NEW c, NEW isOut, NEW f \in Untouching, Unspaced(b)
  PROVE  Unspaced(OneDone(f, c, b, isOut))
<1> DEFINE e == Effect(f, c, b, isOut)
<1>1. SUFFICES ASSUME b.ok PROVE Unspaced(e)
  BY DEF OneDone
<1>2. "space" \notin ToSet(<<>>)
  BY DEF ToSet
<1>3. e.quote = b.quote /\ e.chars \in {b.chars, <<>>}
  <2>1. CASE f = "name"
    BY <2>1 DEF Effect
  <2>2. CASE f = "name begins"
    BY <2>2 DEF TextBuffers, Effect, FirstParm
  <2>3. CASE f = "out begins"
    BY <2>3 DEF TextBuffers, Effect
  <2>4. CASE f = "out"
    BY <2>4 DEF TextBuffers, Effect
  <2>5. CASE f = "param"
    BY <2>5 DEF TextBuffers, Effect, Cleared
  <2>6. CASE f = "more"
    BY <2>6 DEF TextBuffers, Effect
  <2>7. QED BY <2>1, <2>2, <2>3, <2>4, <2>5, <2>6 DEF Untouching
<1> HIDE DEF e
<1>4. QED BY <1>2, <1>3 DEF Unspaced

LEMMA QuotesAre ==
  ASSUME NEW b \in TextBuffers, b.ok, NEW c, NEW isOut, NEW f \in Quotes
  PROVE  OneDone(f, c, b, isOut).quote # "none"
<1> DEFINE q == IF f = "quote begins" THEN "quote" ELSE "date"
           e == Effect(f, c, b, isOut)
<1>1. e = [FirstParm(b) EXCEPT !.value = Here, !.chars = <<>>, !.quote = q]
  BY DEF Effect, Quotes, ValueBegins
<1>2. "quote" \in DOMAIN FirstParm(b)
  BY BuffersAre DEF FirstParm
<1>3. OneDone(f, c, b, isOut) = e
  BY DEF OneDone
<1> HIDE DEF e
<1>4. e.quote = q
  BY <1>1, <1>2
<1>5. QED BY <1>3, <1>4

LEMMA ValuesAreUnspaced ==
  ASSUME NEW b \in TextBuffers, b.ok, NEW c \in TextChars, NEW isOut, Unspaced(b)
  PROVE  /\ c # "space" => Unspaced(OneDone("value begins", c, b, isOut))
         /\ c # "space" \/ b.quote # "none" => Unspaced(OneDone("value", c, b, isOut))
         /\ OneDone("value", c, b, isOut).quote = b.quote
<1>1. c # "space" => Unspaced(OneDone("value begins", c, b, isOut))
  <2> DEFINE e == Effect("value begins", c, b, isOut)
  <2>1. e = [FirstParm(b) EXCEPT !.value = Here, !.chars = <<c>>, !.quote = "none"]
    BY DEF Effect, ValueBegins
  <2>2. "chars" \in DOMAIN FirstParm(b)
    BY BuffersAre DEF FirstParm
  <2>3. OneDone("value begins", c, b, isOut) = e
    BY DEF OneDone
  <2> HIDE DEF e
  <2>4. e.chars = <<c>>
    BY <2>1, <2>2
  <2>5. ToSet(<<c>>) = {c}
    BY DEF ToSet
  <2>6. QED BY <2>3, <2>4, <2>5 DEF Unspaced
<1>2. /\ c # "space" \/ b.quote # "none" => Unspaced(OneDone("value", c, b, isOut))
      /\ OneDone("value", c, b, isOut).quote = b.quote
  <2> DEFINE e == Effect("value", c, b, isOut)
             s == IF b.quote = "none" THEN Append(b.chars, c) ELSE b.chars
  <2>1. e = [b EXCEPT !.chars = s]
    BY DEF Effect
  <2>2. e.chars = s /\ e.quote = b.quote
    BY <2>1, BuffersAre
  <2>3. OneDone("value", c, b, isOut) = e
    BY DEF OneDone
  <2>4. b.chars \in Seq(TextChars)
    BY DEF TextBuffers
  <2>5. ToSet(Append(b.chars, c)) = ToSet(b.chars) \cup {c}
    BY <2>4, ToSetAppend
  <2> HIDE DEF e
  <2>6. QED BY <2>2, <2>3, <2>5 DEF Unspaced
<1>3. QED BY <1>1, <1>2

LEMMA KindsKept ==
  ASSUME NEW b \in TextBuffers, b.ok, Unspaced(b), NEW c \in TextChars, NEW isOut \in BOOLEAN,
         text.number \in Nat, text.at \in Nat,
         NEW level, level \in {"quoted", "date"} => b.quote # "none",
         NEW t, KindsTo(level, c, t)
  PROVE  /\ Unspaced(Done(t.do, c, b, isOut))
         /\ t.level \in {"quoted", "date"} => Done(t.do, c, b, isOut).quote # "none"
         /\ Unspaced(Done(<<"out">>, c, b, isOut)) /\ Done(<<"out">>, c, b, isOut) \in TextBuffers
<1> DEFINE D(do) == Done(do, c, b, isOut)
           O(f, x) == OneDone(f, c, x, isOut)
<1>1. D(<<>>) = b /\ \A f : D(<<f>>) = O(f, b)
  BY DoneNone, DoneOne
<1>2. /\ D(<<"param", "more">>) = O("more", O("param", b))
      /\ D(<<"out", "param">>) = O("param", O("out", b))
      /\ D(<<"out", "param", "more">>) = O("more", O("param", O("out", b)))
  BY DoneTwo, DoneThree
<1>3. ASSUME NEW x \in TextBuffers, Unspaced(x), NEW f \in {"out", "param", "more"}
      PROVE  O(f, x) \in TextBuffers /\ Unspaced(O(f, x))
  <2>1. O(f, x) \in TextBuffers
    BY <1>3, EffectTyped DEF OneDone
  <2>2. Unspaced(O(f, x))
    BY <1>3, UntouchingIs DEF Untouching
  <2>3. QED BY <2>1, <2>2
<1>4. \A f \in Untouching : Unspaced(O(f, b))
  BY UntouchingIs
<1>5. \A f \in Quotes : O(f, b).quote # "none"
  BY QuotesAre
<1>6. /\ c # "space" => Unspaced(O("value begins", b))
      /\ c # "space" \/ b.quote # "none" => Unspaced(O("value", b))
      /\ O("value", b).quote = b.quote
  BY ValuesAreUnspaced
<1> HIDE DEF D, O
<1>7. /\ Unspaced(O("param", b)) /\ O("param", b) \in TextBuffers
      /\ Unspaced(O("out", b)) /\ O("out", b) \in TextBuffers
  BY <1>3
<1>8. Unspaced(O("param", O("out", b))) /\ O("param", O("out", b)) \in TextBuffers
  BY <1>3, <1>7
<1>9. /\ Unspaced(D(<<"param", "more">>)) /\ Unspaced(D(<<"out", "param">>))
      /\ Unspaced(D(<<"out", "param", "more">>))
  BY <1>2, <1>3, <1>7, <1>8
<1>10. Unspaced(D(t.do))
  <2>1. CASE t.do = <<>>
    BY <1>1, <2>1
  <2>2. CASE \E f \in Quotes \cup Untouching : t.do = <<f>>
    <3>1. PICK f \in Quotes \cup Untouching : t.do = <<f>>
      BY <2>2
    <3>2. D(t.do) = O(f, b)
      BY <1>1, <3>1
    <3>3. Unspaced(O(f, b))
      BY <1>4, <1>5, <3>1 DEF Unspaced
    <3>4. QED BY <3>2, <3>3
  <2>3. CASE t.do = <<"value begins">> /\ c # "space"
    <3>1. D(t.do) = O("value begins", b)
      BY <1>1, <2>3
    <3>2. QED BY <1>6, <2>3, <3>1
  <2>4. CASE t.do = <<"value">> /\ (c # "space" \/ level \in {"quoted", "date"})
    <3>1. D(t.do) = O("value", b)
      BY <1>1, <2>4
    <3>2. QED BY <1>6, <2>4, <3>1
  <2>5. CASE t.do \in {<<"param", "more">>, <<"out", "param">>, <<"out", "param", "more">>}
    BY <1>9, <2>5
  <2>6. QED BY <2>1, <2>2, <2>3, <2>4, <2>5 DEF KindsTo
<1>11. ASSUME t.level \in {"quoted", "date"} PROVE D(t.do).quote # "none"
  <2>1. CASE \E f \in Quotes : t.do = <<f>>
    <3>1. PICK f \in Quotes : t.do = <<f>>
      BY <2>1
    <3>2. D(t.do) = O(f, b)
      BY <1>1, <3>1
    <3>3. QED BY <1>5, <3>2
  <2>2. CASE level \in {"quoted", "date"} /\ t.do = <<"value">>
    <3>1. D(t.do) = O("value", b)
      BY <1>1, <2>2
    <3>2. QED BY <1>6, <2>2, <3>1
  <2>3. QED BY <1>11, <2>1, <2>2 DEF KindsTo
<1>12. D(<<"out">>) = O("out", b)
  BY <1>1
<1>13. QED BY <1>7, <1>10, <1>11, <1>12 DEF D

LEMMA CharKinds ==
  ASSUME TextInv, KindInv, NEW c \in text.chars \cup {"end"}, ParseChar(c)
  PROVE  KindInv'
<1> DEFINE t == Turn(text.level, c)
           level == text.level
<1>1. /\ c \in TextChars /\ level \in TextLevels /\ text.number \in Nat /\ text.at \in Nat
      /\ buffers \in TextBuffers /\ buffers.ok /\ params.table \in Seq(TextParam)
      /\ Unspaced(buffers) /\ (level \in {"quoted", "date"} => buffers.quote # "none")
  <2>1. level # "idle"
    BY DEF ParseChar
  <2>2. c \in TextChars
    BY DEF TextInv, TextChars
  <2> HIDE DEF TextChars
  <2>3. QED BY <2>1, <2>2 DEF TextInv, BuffersOwn, KindInv
<1>2. KindsTo(level, c, t)
  BY <1>1, TurnKinds
<1>3. PICK isOut \in BOOLEAN :
        CharTakes(c, isOut, t,
                  Done(IF "out" \in ToSet(t.do) THEN <<"out">> ELSE <<>>, c, buffers, isOut),
                  Done(t.do, c, buffers, isOut))
  BY CharTakesOne, Zenon
<1> DEFINE before == Done(IF "out" \in ToSet(t.do) THEN <<"out">> ELSE <<>>, c, buffers, isOut)
           after == Done(t.do, c, buffers, isOut)
<1>4. CharTakes(c, isOut, t, before, after)
  BY <1>3
<1> HIDE DEF t
<1>5. /\ Unspaced(after) /\ (t.level \in {"quoted", "date"} => after.quote # "none")
      /\ Unspaced(Done(<<"out">>, c, buffers, isOut))
      /\ Done(<<"out">>, c, buffers, isOut) \in TextBuffers
  BY <1>1, <1>2, KindsKept
<1>6. Unspaced(before) /\ before \in TextBuffers
  <2>1. Done(<<>>, c, buffers, isOut) = buffers
    BY DoneNone
  <2>2. QED BY <1>1, <1>5, <2>1
<1> HIDE DEF before, after
<1>7. buffers' = after /\ (text'.level = "idle" \/ text'.level = t.level)
  BY <1>4 DEF CharTakes
<1>8. params'.table = Append(params.table, Made(before)) \/ params'.table = params.table
  BY <1>4 DEF CharTakes
<1>9. \A i \in 1..Len(params.table) : KindIsTrue(params.table[i])
  BY DEF KindInv
<1>10. \A i \in 1..Len(params'.table) : KindIsTrue(params'.table[i])
  <2>1. CASE params'.table = params.table
    BY <1>9, <2>1
  <2>2. CASE params'.table = Append(params.table, Made(before))
    <3>1. KindIsTrue(Made(before))
      BY <1>6, MadeKind
    <3>2. \A i \in 1..Len(Append(params.table, Made(before))) :
            \/ i \in 1..Len(params.table) /\ Append(params.table, Made(before))[i] = params.table[i]
            \/ Append(params.table, Made(before))[i] = Made(before)
      BY <1>1
    <3>3. QED BY <1>9, <2>2, <3>1, <3>2
  <2>3. QED BY <1>8, <2>1, <2>2
<1>11. Unspaced(buffers')
  BY <1>5, <1>7
<1>12. text'.level \in {"quoted", "date"} => buffers'.quote # "none"
  BY <1>5, <1>7
<1>13. QED BY <1>10, <1>11, <1>12 DEF KindInv, KindIsTrue, Unspaced

LEMMA KindStep == TextInv /\ KindInv /\ [RpcTextNext]_rpcTextVars => KindInv'
<1>1. ASSUME ParseBegins PROVE KindInv'
  <2>1. text'.level = "start" /\ buffers'.chars = <<>> /\ params'.table = <<>>
    BY <1>1 DEF ParseBegins, NoBuffers
  <2>2. "space" \notin ToSet(<<>>) /\ Len(<<>>) = 0
    BY DEF ToSet
  <2>3. QED BY <2>1, <2>2 DEF KindInv, Unspaced
<1>2. ASSUME TextInv, KindInv, NEW c \in text.chars \cup {"end"}, ParseChar(c) PROVE KindInv'
  BY <1>2, CharKinds
<1>3. ASSUME KindInv, UNCHANGED rpcTextVars PROVE KindInv'
  <2>1. text' = text /\ buffers' = buffers /\ params' = params
    BY <1>3 DEF rpcTextVars
  <2>2. QED BY <1>3, <2>1 DEF KindInv, KindIsTrue, Unspaced
<1>4. QED BY <1>1, <1>2, <1>3 DEF RpcTextNext

LEMMA KindInitInv == RpcTextInit => KindInv
<1>1. Len(<<>>) = 0
  OBVIOUS
<1>2. QED BY <1>1 DEF RpcTextInit, KindInv

LEMMA KindShows == KindInv => KindsAreTrue
  BY DEF KindInv, KindIsTrue, KindsAreTrue

\* A parameter is a number, to the procedure that is called, only where its text
\* reads as one, and then always: for values of any length and characters, quoted
\* or not, in texts that end anywhere.
THEOREM KindsAreTrueHolds == LibSpec => []KindsAreTrue
<1>1. LibInit => TextInv /\ KindInv
  BY TextInitInv, KindInitInv DEF LibInit
<1>2. TextInv /\ KindInv /\ [LibNext]_libVars => (TextInv /\ KindInv)'
  BY TextStep, KindStep, TextOfLib
<1>3. TextInv /\ KindInv => KindsAreTrue
  BY KindShows
<1>4. QED BY <1>1, <1>2, <1>3, PTL DEF LibSpec

=============================================================================
