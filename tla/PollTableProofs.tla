--------------------------- MODULE PollTableProofs ---------------------------
(***************************************************************************)
(* Proofs about PollTable: its inductive invariant, that no slot is wasted *)
(* and that it implements PollSet.                                         *)
(***************************************************************************)
EXTENDS PollTable, FiniteSetTheorems, TLAPS

TableTyped ==
  /\ fdAt \in [Slots -> Fds \cup {Master, None}]
  /\ revents \in [Slots -> {"none", "in", "hup"}]
  /\ high \in 1..(TableSize - 1) /\ firstFree \in 1..high

SlotInv == TableTyped /\ WatchedOnce /\ GuessInv /\ fdAt[0] = Master

-----------------------------------------------------------------------------
(* The three ways the table changes. *)

\* Without a slot to reuse every slot below high is in use.
LEMMA NoneReusable ==
  ASSUME TableTyped, GuessInv, Reusable = {}
  PROVE  FreeIn(1, high) = {}
  <1>1. CASE firstFree >= high
    BY <1>1 DEF TableTyped, GuessInv, FreeIn
  <1>2. CASE firstFree < high
    <2>1. FreeIn(firstFree, high) = {}
      BY <1>2 DEF Reusable, TableTyped
    <2>2. QED BY <1>2, <2>1 DEF TableTyped, GuessInv, FreeIn
  <1>3. QED BY <1>1, <1>2 DEF TableTyped

\* A slot to reuse is the first free one.
LEMMA FirstReusable ==
  ASSUME TableTyped, GuessInv, NEW s \in Reusable, \A r \in Reusable : s <= r
  PROVE  /\ s \in 1..(high - 1) /\ fdAt[s] = None
         /\ \A t \in 1..(s - 1) : fdAt[t] # None
  <1>1. firstFree < high
    BY DEF Reusable, TableTyped
  <1>2. FreeIn(1, firstFree) = {}
    BY DEF FreeIn, GuessInv, TableTyped
  <1>3. Reusable = FreeIn(firstFree, high)
    BY <1>1, <1>2 DEF Reusable, TableTyped
  <1>4. s \in firstFree..(high - 1) /\ fdAt[s] = None
    BY <1>3 DEF FreeIn
  <1>5. ASSUME NEW t \in 1..(s - 1), fdAt[t] = None
        PROVE  FALSE
    <2>1. t >= firstFree
      BY <1>4, <1>5 DEF GuessInv, TableTyped
    <2>2. t \in Reusable
      BY <1>3, <1>4, <1>5, <2>1 DEF FreeIn, TableTyped
    <2>3. QED BY <1>4, <1>5, <2>2 DEF TableTyped
  <1>6. QED BY <1>4, <1>5 DEF TableTyped

\* Adding a socket puts it in one free slot and changes no other.
LEMMA AddFacts ==
  ASSUME SlotInv, NEW f \in Fds, f \notin Watched, AddToPollTab(f)
  PROVE  /\ TableTyped' /\ GuessInv' /\ fdAt'[0] = Master
         /\ high' >= high
         /\ \E s \in 1..(high' - 1) :
              /\ s \notin Used /\ Used' = Used \cup {s}
              /\ fdAt' = [fdAt EXCEPT ![s] = f]
         /\ \A s \in Slots : revents'[s] = revents[s] \/ revents'[s] = "none"
         /\ high' > high => FreeIn(1, high) = {}
         /\ \A s \in high..(high' - 1) : fdAt'[s] # None
  <1> USE TableAssumption
  <1>f. f # None /\ f # Master
    OBVIOUS
  <1>1. CASE Reuse(f)
    <2>1. PICK s \in Reusable :
            /\ \A r \in Reusable : s <= r
            /\ fdAt' = [fdAt EXCEPT ![s] = f]
            /\ revents' = [revents EXCEPT ![s] = "none"]
            /\ firstFree' = s + 1
            /\ high' = high
      BY <1>1 DEF Reuse
    <2>2. /\ s \in 1..(high - 1) /\ fdAt[s] = None
          /\ \A t \in 1..(s - 1) : fdAt[t] # None
      BY <2>1, FirstReusable DEF SlotInv
    <2>3. s \in Slots /\ s # 0
      BY <2>2 DEF SlotInv, TableTyped, Slots
    <2>4. TableTyped'
      BY <2>1, <2>2, <2>3 DEF SlotInv, TableTyped, Slots
    <2>5. GuessInv'
      BY <1>f, <2>1, <2>2, <2>3 DEF SlotInv, TableTyped, GuessInv, Slots
    <2>6. Used' = Used \cup {s} /\ s \notin Used
      BY <1>f, <2>1, <2>2, <2>3 DEF SlotInv, TableTyped, Used, Slots
    <2>7. \A t \in Slots : revents'[t] = revents[t] \/ revents'[t] = "none"
      BY <2>1 DEF SlotInv, TableTyped
    <2>8. fdAt'[0] = Master
      BY <2>1, <2>3 DEF SlotInv, TableTyped
    <2>9. \A t \in high..(high' - 1) : fdAt'[t] # None
      BY <2>1 DEF SlotInv, TableTyped
    <2>10. high' >= high /\ ~(high' > high)
      BY <2>1 DEF SlotInv, TableTyped
    <2>11. s \in 1..(high' - 1)
      BY <2>1, <2>2
    <2>12. QED BY <2>1, <2>4, <2>5, <2>6, <2>7, <2>8, <2>9, <2>10, <2>11
  <1>2. CASE Create(f)
    <2>1. /\ Reusable = {} /\ high + 1 < TableSize
          /\ fdAt' = [fdAt EXCEPT ![high] = f]
          /\ high' = high + 1
          /\ firstFree' = (IF firstFree < high THEN high ELSE firstFree)
          /\ revents' = revents
      BY <1>2 DEF Create, CanCreate, GuessNone
    <2>2. FreeIn(1, high) = {}
      BY <2>1, NoneReusable DEF SlotInv
    <2>3. high \in Slots /\ high # 0 /\ high \in Nat
      BY <2>1 DEF SlotInv, TableTyped, Slots
    <2>4. TableTyped'
      BY <2>1, <2>3 DEF SlotInv, TableTyped, Slots
    <2>5. firstFree' = high
      BY <2>1 DEF SlotInv, TableTyped
    <2>6. GuessInv'
      BY <2>1, <2>2, <2>3, <2>5 DEF SlotInv, TableTyped, GuessInv, FreeIn, Slots
    <2>7. Used' = Used \cup {high} /\ high \notin Used
      BY <1>f, <2>1, <2>3 DEF SlotInv, TableTyped, Used, Slots
    <2>8. fdAt'[0] = Master /\ fdAt'[high] = f
      BY <2>1, <2>3 DEF SlotInv, TableTyped, Slots
    <2>9. \A t \in high..(high' - 1) : fdAt'[t] # None
      BY <1>f, <2>1, <2>3, <2>8
    <2>10. high' >= high /\ high \in 1..(high' - 1)
      BY <2>1, <2>3
    <2>11. \A t \in Slots : revents'[t] = revents[t]
      BY <2>1
    <2>12. QED BY <2>1, <2>2, <2>4, <2>6, <2>7, <2>8, <2>9, <2>10, <2>11
  <1>3. QED BY <1>1, <1>2 DEF AddToPollTab

\* When there is no slot every one is in use, and the guess is set right.
LEMMA NoSlotFacts ==
  ASSUME SlotInv, NoSlot
  PROVE  /\ fdAt' = fdAt /\ revents' = revents /\ high' = high
         /\ firstFree' \in 1..high /\ GuessInv'
         /\ FreeIn(1, high) = {} /\ high + 1 >= TableSize
  <1> USE TableAssumption
  <1>1. /\ Reusable = {} /\ ~(high + 1 < TableSize)
        /\ fdAt' = fdAt /\ revents' = revents /\ high' = high
        /\ firstFree' = (IF firstFree < high THEN high ELSE firstFree)
    BY DEF NoSlot, CanCreate, GuessNone
  <1>2. FreeIn(1, high) = {}
    BY <1>1, NoneReusable DEF SlotInv
  <1>3. firstFree' \in 1..high
    BY <1>1 DEF SlotInv, TableTyped
  <1>4. GuessInv'
    BY <1>1, <1>2, <1>3 DEF GuessInv, FreeIn, SlotInv, TableTyped
  <1>5. high + 1 >= TableSize
    BY <1>1 DEF SlotInv, TableTyped
  <1>6. QED BY <1>1, <1>2, <1>3, <1>4, <1>5

\* So the sockets polled are those that were, and the new one.
LEMMA AddWatched ==
  ASSUME SlotInv, NEW f \in Fds, f \notin Watched, NEW s \in Slots \ Used,
         Used' = Used \cup {s}, fdAt' = [fdAt EXCEPT ![s] = f]
  PROVE  /\ Watched' = Watched \cup {f}
         /\ \A t, u \in Used' : fdAt'[t] = fdAt'[u] => t = u
         /\ \A t \in Used' : fdAt'[t] \in Fds
  <1>1. Used \subseteq Slots
    BY TableAssumption DEF Used, Slots, SlotInv, TableTyped
  <1>2. fdAt'[s] = f /\ \A t \in Used : fdAt'[t] = fdAt[t]
    BY <1>1 DEF SlotInv, TableTyped
  <1>3. QED BY <1>2 DEF Watched, SlotInv, WatchedOnce

\* Taking out the socket of slot s.
LEMMA TakeOutFacts ==
  ASSUME SlotInv, i \in Used, TakeOut
  PROVE  /\ TableTyped' /\ GuessInv' /\ fdAt'[0] = Master
         /\ Used' = Used \ {i} /\ high' = high /\ revents' = revents
         /\ Watched' = Watched \ {fdAt[i]}
         /\ \A s \in Slots \ {i} : fdAt'[s] = fdAt[s]
         /\ \A t, u \in Used' : fdAt'[t] = fdAt'[u] => t = u
         /\ \A t \in Used' : fdAt'[t] \in Fds
  <1> USE TableAssumption
  <1>1. /\ fdAt' = [fdAt EXCEPT ![i] = None]
        /\ firstFree' = (IF i < firstFree THEN i ELSE firstFree)
        /\ revents' = revents /\ high' = high
    BY DEF TakeOut, Min2
  <1>2. i \in 1..(high - 1) /\ i \in Slots
    BY DEF Used, SlotInv, TableTyped, Slots
  <1>3. TableTyped'
    BY <1>1, <1>2 DEF SlotInv, TableTyped, Slots
  <1>4. GuessInv'
    BY <1>1, <1>2 DEF SlotInv, TableTyped, GuessInv, Slots
  <1>5. \A s \in Slots \ {i} : fdAt'[s] = fdAt[s]
    BY <1>1 DEF SlotInv, TableTyped
  <1>6. Used' = Used \ {i}
    BY <1>1, <1>2 DEF SlotInv, TableTyped, Used, Slots
  <1>7. \A t \in Used' : fdAt'[t] = fdAt[t]
    BY <1>5, <1>6 DEF SlotInv, TableTyped, Used, Slots
  <1>8. Watched' = Watched \ {fdAt[i]}
    BY <1>6, <1>7 DEF Watched, SlotInv, WatchedOnce
  <1>9. fdAt'[0] = Master
    BY <1>2, <1>5 DEF SlotInv, Slots
  <1>10. QED BY <1>1, <1>3, <1>4, <1>5, <1>6, <1>7, <1>8, <1>9 DEF SlotInv, WatchedOnce

\* Compression keeps the set of sockets polled.
LEMMA CompressFacts ==
  ASSUME SlotInv, Compress
  PROVE  /\ TableTyped' /\ GuessInv' /\ fdAt'[0] = Master
         /\ high' <= high
         /\ Watched' = Watched
         /\ \A t, u \in Used' : fdAt'[t] = fdAt'[u] => t = u
         /\ \A t \in Used' : fdAt'[t] \in Fds
  <1> USE TableAssumption
  <1>0. PICK n \in 0..(high - 1) : \E from \in [1..n -> Used] :
          /\ \A s, t \in 1..n : s < t => from[s] < from[t]
          /\ \A u \in Used : \E s \in 1..n : from[s] = u
          /\ fdAt' = [s \in Slots |-> IF s = 0 THEN Master
                                      ELSE IF s \in 1..n THEN fdAt[from[s]] ELSE None]
          /\ revents' = [s \in Slots |-> IF s \in 1..n THEN revents[from[s]] ELSE revents[s]]
          /\ high' = n + 1
          /\ firstFree' = n + 1
    BY DEF Compress
  <1>1. PICK from \in [1..n -> Used] :
          /\ \A s, t \in 1..n : s < t => from[s] < from[t]
          /\ \A u \in Used : \E s \in 1..n : from[s] = u
          /\ fdAt' = [s \in Slots |-> IF s = 0 THEN Master
                                      ELSE IF s \in 1..n THEN fdAt[from[s]] ELSE None]
          /\ revents' = [s \in Slots |-> IF s \in 1..n THEN revents[from[s]] ELSE revents[s]]
          /\ high' = n + 1
          /\ firstFree' = n + 1
    BY <1>0
  <1>2. Used \subseteq Slots /\ 1..n \subseteq Slots /\ 0 \in Slots
    BY DEF Used, SlotInv, TableTyped, Slots
  <1>n. n \in Nat /\ n < high /\ high < TableSize /\ high \in Nat
    BY DEF SlotInv, TableTyped
  <1>3. TableTyped'
    <2>1. fdAt' \in [Slots -> Fds \cup {Master, None}]
      BY <1>1, <1>2 DEF SlotInv, TableTyped
    <2>2. revents' \in [Slots -> {"none", "in", "hup"}]
      BY <1>1, <1>2 DEF SlotInv, TableTyped
    <2>3. high' \in 1..(TableSize - 1) /\ firstFree' \in 1..high'
      BY <1>1, <1>n
    <2>4. QED BY <2>1, <2>2, <2>3 DEF TableTyped
  <1>4. \A s \in 1..n : fdAt'[s] = fdAt[from[s]] /\ fdAt'[s] \in Fds
    BY <1>1, <1>2 DEF SlotInv, WatchedOnce
  <1>5. Used' = 1..n
    BY <1>1, <1>4, <1>n DEF Used
  <1>6. GuessInv'
    <2>1. firstFree' - 1 = n
      BY <1>1, <1>n
    <2>2. QED BY <1>4, <2>1 DEF GuessInv
  <1>7. Watched' = Watched
    BY <1>1, <1>4, <1>5 DEF Watched
  <1>8. \A t, u \in 1..n : fdAt'[t] = fdAt'[u] => t = u
    <2>1. ASSUME NEW t \in 1..n, NEW u \in 1..n, fdAt'[t] = fdAt'[u]
          PROVE  t = u
      <3>1. from[t] = from[u]
        BY <1>1, <1>4, <2>1 DEF SlotInv, WatchedOnce
      <3>2. from[t] \in 1..(high - 1) /\ from[t] \in Nat
        BY <1>n DEF Used
      <3>3. ~(t < u) /\ ~(u < t)
        BY <1>1, <3>1, <3>2
      <3>4. t \in Nat /\ u \in Nat
        BY <1>n
      <3>5. QED BY <3>3, <3>4
    <2>2. QED BY <2>1
  <1>9. fdAt'[0] = Master
    BY <1>1, <1>2
  <1>10. high' <= high
    BY <1>1, <1>n
  <1>11. \A t \in Used' : fdAt'[t] \in Fds
    BY <1>4, <1>5
  <1>12. \A t, u \in Used' : fdAt'[t] = fdAt'[u] => t = u
    BY <1>5, <1>8
  <1>13. QED BY <1>3, <1>6, <1>7, <1>9, <1>10, <1>11, <1>12

-----------------------------------------------------------------------------
(* The inductive invariant. *)

LEMMA IInvSlot == IInv => SlotInv
  BY DEF IInv, TypeOK, SlotInv, TableTyped, PassInv

\* What the parts of the invariant are about, other than the table.
RestTyped ==
  /\ peer \in [Fds -> {"closed", "quiet", "in", "hup"}]
  /\ backlog \in 0..MaxBacklog
  /\ pc \in {"idle", "add", "pass"} /\ i \in 0..(TableSize - 1)
  /\ todo \subseteq Fds /\ input \subseteq Fds
  /\ failed \in BOOLEAN
  /\ held \subseteq Fds /\ returned \subseteq Fds

LEMMA TypeParts == TypeOK <=> TableTyped /\ RestTyped
  BY DEF TypeOK, TableTyped, RestTyped

LEMMA TypePartsNext == TypeOK' <=> TableTyped' /\ RestTyped'
  BY DEF TypeOK, TableTyped, RestTyped

\* The slots in use, and with them the sockets polled, depend on two variables.
LEMMA SameTable ==
  ASSUME UNCHANGED <<fdAt, high>>
  PROVE  Used' = Used /\ Watched' = Watched
  BY DEF Used, Watched

LEMMA InitIInv == Init => IInv
  <1> SUFFICES ASSUME Init PROVE IInv
    OBVIOUS
  <1> USE TableAssumption
  <1>1. TypeOK
    <2>1. TableTyped
      BY DEF Init, TableTyped, Slots
    <2>2. RestTyped
      <3>1. failed \in BOOLEAN
        BY DEF Init
      <3>2. i \in 0..(TableSize - 1) /\ backlog \in 0..MaxBacklog
        BY DEF Init
      <3>3. QED BY <3>1, <3>2 DEF Init, RestTyped
    <2>3. QED BY <2>1, <2>2, TypeParts
  <1>2. Used = {}
    BY DEF Init, Used
  <1>3. WatchedOnce
    BY <1>2 DEF WatchedOnce, Watched
  <1>4. HandInv /\ GuessInv
    BY DEF Init, HandInv, InHand, GuessInv
  <1>5. PassInv
    BY DEF Init, PassInv, Slots
  <1>6. QED BY <1>1, <1>3, <1>4, <1>5 DEF IInv

\* Adding a socket that is open and in nobody's hands any more.
LEMMA AddIInv ==
  ASSUME IInv, NEW f \in Fds, f \notin Watched, AddToPollTab(f),
         RestTyped', HandInv', pc' = pc,
         \A g \in Watched \cup {f} :
           peer'[g] # "closed" /\ g \notin held' \cup returned' \cup todo' \cup input',
         pc # "pass" => i' = 0, i' = i \/ i' = i + 1
  PROVE  IInv'
  <1> USE TableAssumption
  <1>1. SlotInv
    BY IInvSlot
  <1>2. /\ TableTyped' /\ GuessInv' /\ fdAt'[0] = Master /\ high' >= high
        /\ \A s \in Slots : revents'[s] = revents[s] \/ revents'[s] = "none"
        /\ \A s \in high..(high' - 1) : fdAt'[s] # None
    BY <1>1, AddFacts
  <1>3. PICK s \in 1..(high' - 1) :
          s \notin Used /\ Used' = Used \cup {s} /\ fdAt' = [fdAt EXCEPT ![s] = f]
    BY <1>1, AddFacts
  <1>4. s \in Slots \ Used
    BY <1>2, <1>3 DEF TableTyped, Slots
  <1>5. /\ Watched' = Watched \cup {f}
        /\ \A t, u \in Used' : fdAt'[t] = fdAt'[u] => t = u
        /\ \A t \in Used' : fdAt'[t] \in Fds
    BY <1>1, <1>3, <1>4, AddWatched
  <1>6. WatchedOnce'
    BY <1>5 DEF WatchedOnce
  <1>7. ASSUME pc' = "pass", NEW t \in Slots, i' <= t, t < high', revents'[t] # "none"
        PROVE  fdAt'[t] # None
    <2>0. /\ high \in Nat /\ high' \in Nat /\ i \in Nat /\ i' \in Nat /\ t \in Nat
      BY <1>1, <1>2 DEF SlotInv, TableTyped, IInv, TypeOK, RestTyped, Slots
    <2>2. CASE t < high
      <3>1. revents[t] # "none"
        BY <1>2, <1>7
      <3>2. i <= t
        BY <1>7, <2>0
      <3>3. fdAt[t] # None
        BY <1>7, <2>2, <3>1, <3>2 DEF IInv, PassInv
      <3>4. QED BY <1>1, <1>3, <1>7, <3>3 DEF SlotInv, TableTyped
    <2>3. CASE t >= high
      <3>1. t \in high..(high' - 1)
        BY <1>7, <2>0, <2>3
      <3>2. QED BY <1>2, <3>1
    <2>4. QED BY <2>0, <2>2, <2>3
  <1>8. PassInv'
    BY <1>2, <1>7 DEF PassInv
  <1>9. QED BY <1>2, <1>6, <1>8, TypePartsNext DEF IInv

\* The slots do not change.
LEMMA KeepIInv ==
  ASSUME IInv, fdAt' = fdAt, high' = high, firstFree' \in 1..high, GuessInv',
         revents' \in [Slots -> {"none", "in", "hup"}], RestTyped', HandInv', PassInv',
         \A g \in Watched :
           peer'[g] # "closed" /\ g \notin held' \cup returned' \cup todo' \cup input'
  PROVE  IInv'
  <1>1. Used' = Used /\ Watched' = Watched
    BY SameTable
  <1>2. WatchedOnce'
    BY <1>1 DEF IInv, WatchedOnce, Used
  <1>3. TableTyped'
    BY TypeParts DEF IInv, TableTyped
  <1>4. QED BY <1>2, <1>3, TypePartsNext DEF IInv

LEMMA SameGuess ==
  ASSUME IInv, fdAt' = fdAt, high' = high, firstFree' = firstFree
  PROVE  GuessInv' /\ firstFree' \in 1..high
  BY DEF IInv, TypeOK, GuessInv

\* A socket is taken out.
LEMMA RemoveIInv ==
  ASSUME IInv, i \in Used, TakeOut, RestTyped', HandInv', pc' = pc, pc = "pass", i' = i + 1,
         \A g \in Watched \ {fdAt[i]} :
           peer'[g] # "closed" /\ g \notin held' \cup returned' \cup todo' \cup input'
  PROVE  IInv'
  <1>1. SlotInv
    BY IInvSlot
  <1>2. /\ TableTyped' /\ GuessInv' /\ fdAt'[0] = Master
        /\ high' = high /\ revents' = revents
        /\ Watched' = Watched \ {fdAt[i]}
        /\ \A s \in Slots \ {i} : fdAt'[s] = fdAt[s]
        /\ \A t, u \in Used' : fdAt'[t] = fdAt'[u] => t = u
        /\ \A t \in Used' : fdAt'[t] \in Fds
    BY <1>1, TakeOutFacts
  <1>3. WatchedOnce'
    BY <1>2 DEF WatchedOnce
  <1>4. ASSUME NEW t \in Slots, i' <= t, t < high', revents'[t] # "none"
        PROVE  fdAt'[t] # None
    <2>1. i \in Nat /\ t \in Nat
      BY TableAssumption DEF IInv, TypeOK, Slots
    <2>2. t # i /\ i <= t
      BY <1>4, <2>1
    <2>3. QED BY <1>2, <1>4, <2>2 DEF IInv, PassInv
  <1>5. PassInv'
    BY <1>2, <1>4 DEF PassInv
  <1>6. QED BY <1>2, <1>3, <1>5, TypePartsNext DEF IInv

\* In a pass, the socket of a slot with an event is polled, and in no hands.
LEMMA EventSlot ==
  ASSUME IInv, pc = "pass", i > 0, i < high, revents[i] # "none"
  PROVE  /\ i \in Used /\ fdAt[i] \in Watched /\ fdAt[i] \in Fds
         /\ peer[fdAt[i]] # "closed" /\ fdAt[i] \notin InHand
         /\ i + 1 \in 0..(TableSize - 1)
  <1> USE TableAssumption
  <1>1. /\ i \in Nat /\ high \in Nat /\ TableSize \in Nat /\ high < TableSize
        /\ i \in Slots /\ i \in 1..(high - 1) /\ i + 1 \in 0..(TableSize - 1)
    BY DEF IInv, TypeOK, Slots
  <1>2. fdAt[i] # None
    BY <1>1 DEF IInv, PassInv
  <1>3. i \in Used
    BY <1>1, <1>2 DEF Used
  <1>4. QED BY <1>1, <1>3 DEF IInv, WatchedOnce, Watched, InHand

LEMMA PollClientsIInv == IInv /\ PollClients => IInv'
  <1> SUFFICES ASSUME IInv, PollClients PROVE IInv'
    OBVIOUS
  <1>1. /\ pc = "idle" /\ todo' = returned /\ returned' = {} /\ pc' = "add"
        /\ fdAt' = fdAt /\ revents' = revents /\ high' = high /\ firstFree' = firstFree
        /\ peer' = peer /\ backlog' = backlog /\ i' = i /\ input' = input
        /\ failed' = failed /\ held' = held
    BY DEF PollClients, table, kernel
  <1>2. RestTyped'
    BY <1>1, TypeParts DEF IInv, RestTyped
  <1>3. HandInv'
    BY <1>1 DEF IInv, HandInv, InHand
  <1>4. PassInv'
    BY <1>1 DEF IInv, PassInv
  <1>5. revents' \in [Slots -> {"none", "in", "hup"}]
    BY <1>1 DEF IInv, TypeOK
  <1>6. \A g \in Watched :
           peer'[g] # "closed" /\ g \notin held' \cup returned' \cup todo' \cup input'
    BY <1>1 DEF IInv, WatchedOnce
  <1>7. QED BY <1>1, <1>2, <1>3, <1>4, <1>5, <1>6, SameGuess, KeepIInv

LEMMA AddBackIInv == \A f \in Fds : IInv /\ AddBack(f) => IInv'
  <1> SUFFICES ASSUME NEW f \in Fds, IInv, AddBack(f) PROVE IInv'
    OBVIOUS
  <1>1. /\ pc = "add" /\ f \in todo /\ AddToPollTab(f) /\ todo' = todo \ {f}
        /\ peer' = peer /\ backlog' = backlog /\ pc' = pc /\ i' = i /\ input' = input
        /\ failed' = failed /\ held' = held /\ returned' = returned
    BY DEF AddBack, kernel, gateway
  <1>2. RestTyped'
    BY <1>1, TypeParts DEF IInv, RestTyped
  <1>3. HandInv'
    BY <1>1 DEF IInv, HandInv, InHand
  <1>4. f \notin Watched
    BY <1>1 DEF IInv, WatchedOnce
  <1>5. peer[f] # "closed" /\ f \notin held \cup returned /\ input = {}
    BY <1>1 DEF IInv, HandInv, InHand
  <1>6. \A g \in Watched \cup {f} :
           peer'[g] # "closed" /\ g \notin held' \cup returned' \cup todo' \cup input'
    BY <1>1, <1>5 DEF IInv, WatchedOnce
  <1>7. i' = i /\ i = 0
    BY <1>1 DEF IInv, PassInv
  <1>8. QED BY <1>1, <1>2, <1>3, <1>4, <1>6, <1>7, AddIInv

LEMMA AddRefusedIInv == \A f \in Fds : IInv /\ AddRefused(f) => IInv'
  <1> SUFFICES ASSUME NEW f \in Fds, IInv, AddRefused(f) PROVE IInv'
    OBVIOUS
  <1>1. /\ pc = "add" /\ NoSlot /\ todo' = {} /\ pc' = "idle" /\ failed' = TRUE
        /\ peer' = peer /\ backlog' = backlog /\ i' = i /\ input' = input
        /\ held' = held /\ returned' = returned
    BY DEF AddRefused, kernel, gateway
  <1>2. /\ fdAt' = fdAt /\ revents' = revents /\ high' = high
        /\ firstFree' \in 1..high /\ GuessInv'
    BY <1>1, IInvSlot, NoSlotFacts
  <1>3. RestTyped'
    BY <1>1, TypeParts DEF IInv, RestTyped
  <1>4. HandInv'
    BY <1>1 DEF IInv, HandInv, InHand
  <1>5. PassInv'
    BY <1>1, <1>2 DEF IInv, PassInv
  <1>6. revents' \in [Slots -> {"none", "in", "hup"}]
    BY <1>2 DEF IInv, TypeOK
  <1>7. \A g \in Watched :
           peer'[g] # "closed" /\ g \notin held' \cup returned' \cup todo' \cup input'
    BY <1>1 DEF IInv, WatchedOnce
  <1>8. QED BY <1>1, <1>2, <1>3, <1>4, <1>5, <1>6, <1>7, KeepIInv

\* What poll() reports is typed, and only of slots with a socket.
LEMMA PolledFacts ==
  ASSUME IInv, revents' = Polled
  PROVE  /\ revents' \in [Slots -> {"none", "in", "hup"}]
         /\ \A s \in Slots : s < high /\ revents'[s] # "none" => fdAt[s] # None
  <1>1. \A s \in Slots : Ready(s) \in {"none", "in", "hup"}
    <2>1. ASSUME NEW s \in Slots PROVE Ready(s) \in {"none", "in", "hup"}
      <3>1. CASE fdAt[s] = None
        BY <3>1 DEF Ready
      <3>2. CASE fdAt[s] = Master
        BY <3>2, TableAssumption DEF Ready
      <3>3. CASE fdAt[s] \in Fds
        BY <3>3, TableAssumption DEF Ready
      <3>4. QED BY <3>1, <3>2, <3>3 DEF IInv, TypeOK
    <2>2. QED BY <2>1
  <1>2. \A s \in Slots : fdAt[s] = None => Ready(s) = "none"
    BY TableAssumption DEF Ready
  <1>3. \A s \in Slots : revents'[s] = (IF s < high THEN Ready(s) ELSE revents[s])
    BY DEF Polled
  <1>4. revents' = [s \in Slots |-> revents'[s]]
    BY DEF Polled
  <1>5. \A s \in Slots : revents'[s] \in {"none", "in", "hup"}
    BY <1>1, <1>3 DEF IInv, TypeOK
  <1>6. revents' \in [Slots -> {"none", "in", "hup"}]
    BY <1>4, <1>5
  <1>7. QED BY <1>2, <1>3, <1>6

LEMMA PollIInv == IInv /\ (PollTimeout \/ PollEvents) => IInv'
  <1> SUFFICES ASSUME IInv, PollTimeout \/ PollEvents PROVE IInv'
    OBVIOUS
  <1>1. /\ pc = "add" /\ todo = {} /\ revents' = Polled /\ pc' \in {"idle", "pass"}
        /\ fdAt' = fdAt /\ high' = high /\ firstFree' = firstFree
        /\ peer' = peer /\ backlog' = backlog /\ i' = i /\ todo' = todo /\ input' = input
        /\ failed' \in {failed, FALSE} /\ held' = held /\ returned' = returned
    BY DEF PollTimeout, PollEvents, kernel, gateway
  <1>2. /\ revents' \in [Slots -> {"none", "in", "hup"}]
        /\ \A s \in Slots : s < high /\ revents'[s] # "none" => fdAt[s] # None
    BY <1>1, PolledFacts
  <1>3. failed' \in BOOLEAN
    BY <1>1, TypeParts DEF IInv, RestTyped
  <1>4. RestTyped'
    BY <1>1, <1>3, TypeParts DEF IInv, RestTyped
  <1>5. HandInv'
    BY <1>1 DEF IInv, HandInv, InHand
  <1>6. PassInv'
    BY <1>1, <1>2 DEF IInv, PassInv
  <1>7. \A g \in Watched :
           peer'[g] # "closed" /\ g \notin held' \cup returned' \cup todo' \cup input'
    BY <1>1 DEF IInv, WatchedOnce
  <1>8. QED BY <1>1, <1>2, <1>4, <1>5, <1>6, <1>7, SameGuess, KeepIInv

LEMMA PollInterruptedIInv == IInv /\ PollInterrupted => IInv'
  <1> SUFFICES ASSUME IInv, PollInterrupted PROVE IInv'
    OBVIOUS
  <1>1. /\ pc = "add" /\ todo = {} /\ pc' = "idle" /\ failed' = TRUE
        /\ fdAt' = fdAt /\ revents' = revents /\ high' = high /\ firstFree' = firstFree
        /\ peer' = peer /\ backlog' = backlog /\ i' = i /\ todo' = todo /\ input' = input
        /\ held' = held /\ returned' = returned
    BY DEF PollInterrupted, table, kernel, gateway
  <1>2. RestTyped'
    BY <1>1, TypeParts DEF IInv, RestTyped
  <1>3. HandInv'
    BY <1>1 DEF IInv, HandInv, InHand
  <1>4. PassInv'
    BY <1>1 DEF IInv, PassInv
  <1>5. revents' \in [Slots -> {"none", "in", "hup"}]
    BY <1>1 DEF IInv, TypeOK
  <1>6. \A g \in Watched :
           peer'[g] # "closed" /\ g \notin held' \cup returned' \cup todo' \cup input'
    BY <1>1 DEF IInv, WatchedOnce
  <1>7. QED BY <1>1, <1>2, <1>3, <1>4, <1>5, <1>6, SameGuess, KeepIInv

LEMMA NoEventIInv == IInv /\ NoEvent => IInv'
  <1> SUFFICES ASSUME IInv, NoEvent PROVE IInv'
    OBVIOUS
  <1>1. /\ pc = "pass" /\ i < high /\ i' = i + 1
        /\ fdAt' = fdAt /\ revents' = revents /\ high' = high /\ firstFree' = firstFree
        /\ peer' = peer /\ backlog' = backlog /\ pc' = pc /\ todo' = todo /\ input' = input
        /\ failed' = failed /\ held' = held /\ returned' = returned
    BY DEF NoEvent, Next1, table, kernel, gateway
  <1>2. i' \in 0..(TableSize - 1) /\ i \in Nat
    BY <1>1, TableAssumption DEF IInv, TypeOK
  <1>3. RestTyped'
    BY <1>1, <1>2, TypeParts DEF IInv, RestTyped
  <1>4. HandInv'
    BY <1>1 DEF IInv, HandInv, InHand
  <1>5. PassInv'
    <2>1. \A s \in Slots : i' <= s => i <= s
      BY <1>1, <1>2, TableAssumption DEF Slots
    <2>2. QED BY <1>1, <2>1 DEF IInv, PassInv
  <1>6. revents' \in [Slots -> {"none", "in", "hup"}]
    BY <1>1 DEF IInv, TypeOK
  <1>7. \A g \in Watched :
           peer'[g] # "closed" /\ g \notin held' \cup returned' \cup todo' \cup input'
    BY <1>1 DEF IInv, WatchedOnce
  <1>8. QED BY <1>1, <1>3, <1>4, <1>5, <1>6, <1>7, SameGuess, KeepIInv

LEMMA AcceptConnectionIInv == \A f \in Fds : IInv /\ AcceptConnection(f) => IInv'
  <1> SUFFICES ASSUME NEW f \in Fds, IInv, AcceptConnection(f) PROVE IInv'
    OBVIOUS
  <1>1. /\ pc = "pass" /\ i = 0 /\ i' = i + 1 /\ AddToPollTab(f)
        /\ peer[f] = "closed" /\ backlog > 0
        /\ peer' = [peer EXCEPT ![f] = "quiet"] /\ backlog' = backlog - 1
        /\ pc' = pc /\ todo' = todo /\ input' = input
        /\ failed' = failed /\ held' = held /\ returned' = returned
    BY DEF AcceptConnection, Next1, gateway
  <1>2. i' \in 0..(TableSize - 1) /\ backlog' \in 0..MaxBacklog
    BY <1>1, TableAssumption DEF IInv, TypeOK
  <1>3. RestTyped'
    BY <1>1, <1>2, TypeParts DEF IInv, RestTyped
  <1>4. peer'[f] = "quiet" /\ \A g \in Fds \ {f} : peer'[g] = peer[g]
    BY <1>1 DEF IInv, TypeOK
  <1>5. InHand \subseteq Fds /\ f \notin InHand
    BY <1>1 DEF IInv, HandInv, InHand, TypeOK
  <1>6. HandInv'
    BY <1>1, <1>4, <1>5 DEF IInv, HandInv, InHand
  <1>7. Watched \subseteq Fds /\ f \notin Watched
    BY <1>1 DEF IInv, WatchedOnce, Watched
  <1>8. \A g \in Watched \cup {f} :
           peer'[g] # "closed" /\ g \notin held' \cup returned' \cup todo' \cup input'
    BY <1>1, <1>4, <1>5, <1>7 DEF IInv, WatchedOnce, InHand
  <1>9. QED BY <1>1, <1>3, <1>6, <1>7, <1>8, AddIInv

\* The pass ends early.
LEMMA CutPassFacts ==
  ASSUME IInv, pc = "pass", CutPass, peer' = peer, backlog' \in 0..MaxBacklog
  PROVE  RestTyped' /\ HandInv' /\ pc' = "idle" /\ i' = 0
  <1>1. /\ pc' = "idle" /\ failed' = TRUE /\ held' = held \cup input /\ input' = {}
        /\ i' = 0 /\ todo' = todo /\ returned' = returned
    BY DEF CutPass
  <1>2. 0 \in 0..(TableSize - 1)
    BY TableAssumption
  <1>3. RestTyped'
    BY <1>1, <1>2, TypeParts DEF IInv, RestTyped
  <1>4. HandInv'
    BY <1>1 DEF IInv, HandInv, InHand
  <1>5. QED BY <1>1, <1>3, <1>4

LEMMA AcceptNoSlotIInv == IInv /\ AcceptNoSlot => IInv'
  <1> SUFFICES ASSUME IInv, AcceptNoSlot PROVE IInv'
    OBVIOUS
  <1>1. /\ pc = "pass" /\ NoSlot /\ backlog > 0 /\ backlog' = backlog - 1
        /\ CutPass /\ peer' = peer
        /\ held' = held \cup input /\ input' = {} /\ todo' = todo /\ returned' = returned
    BY DEF AcceptNoSlot, CutPass
  <1>2. /\ fdAt' = fdAt /\ revents' = revents /\ high' = high
        /\ firstFree' \in 1..high /\ GuessInv'
    BY <1>1, IInvSlot, NoSlotFacts
  <1>3. backlog' \in 0..MaxBacklog
    BY <1>1, TableAssumption DEF IInv, TypeOK
  <1>4. RestTyped' /\ HandInv' /\ pc' = "idle" /\ i' = 0
    BY <1>1, <1>3, CutPassFacts
  <1>5. PassInv'
    BY <1>2, <1>4 DEF IInv, PassInv
  <1>6. revents' \in [Slots -> {"none", "in", "hup"}]
    BY <1>2 DEF IInv, TypeOK
  <1>7. \A g \in Watched :
           peer'[g] # "closed" /\ g \notin held' \cup returned' \cup todo' \cup input'
    BY <1>1 DEF IInv, WatchedOnce
  <1>8. QED BY <1>2, <1>4, <1>5, <1>6, <1>7, KeepIInv

LEMMA AcceptFailsIInv == IInv /\ AcceptFails => IInv'
  <1> SUFFICES ASSUME IInv, AcceptFails PROVE IInv'
    OBVIOUS
  <1>1. /\ pc = "pass" /\ CutPass /\ peer' = peer /\ backlog' = backlog
        /\ held' = held \cup input /\ input' = {} /\ todo' = todo /\ returned' = returned
        /\ fdAt' = fdAt /\ revents' = revents /\ high' = high /\ firstFree' = firstFree
    BY DEF AcceptFails, CutPass, table, kernel
  <1>2. backlog' \in 0..MaxBacklog
    BY <1>1 DEF IInv, TypeOK
  <1>3. RestTyped' /\ HandInv' /\ pc' = "idle" /\ i' = 0
    BY <1>1, <1>2, CutPassFacts
  <1>4. PassInv'
    BY <1>1, <1>3 DEF IInv, PassInv
  <1>5. revents' \in [Slots -> {"none", "in", "hup"}]
    BY <1>1 DEF IInv, TypeOK
  <1>6. \A g \in Watched :
           peer'[g] # "closed" /\ g \notin held' \cup returned' \cup todo' \cup input'
    BY <1>1 DEF IInv, WatchedOnce
  <1>7. QED BY <1>1, <1>3, <1>4, <1>5, <1>6, SameGuess, KeepIInv

LEMMA EndOfPassIInv == IInv /\ EndOfPass => IInv'
  <1> SUFFICES ASSUME IInv, EndOfPass PROVE IInv'
    OBVIOUS
  <1>1. /\ pc = "pass" /\ peer' = peer /\ backlog' = backlog
        /\ pc' = "idle" /\ failed' = FALSE /\ i' = 0
        /\ held' = held \cup input /\ input' = {} /\ todo' = todo /\ returned' = returned
        /\ fdAt' = fdAt /\ revents' = revents /\ high' = high /\ firstFree' = firstFree
    BY DEF EndOfPass, table, kernel
  <1>2. 0 \in 0..(TableSize - 1)
    BY TableAssumption
  <1>3. RestTyped'
    BY <1>1, <1>2, TypeParts DEF IInv, RestTyped
  <1>4. HandInv'
    BY <1>1 DEF IInv, HandInv, InHand
  <1>5. PassInv'
    BY <1>1 DEF IInv, PassInv
  <1>6. revents' \in [Slots -> {"none", "in", "hup"}]
    BY <1>1 DEF IInv, TypeOK
  <1>7. \A g \in Watched :
           peer'[g] # "closed" /\ g \notin held' \cup returned' \cup todo' \cup input'
    BY <1>1 DEF IInv, WatchedOnce
  <1>8. QED BY <1>1, <1>3, <1>4, <1>5, <1>6, <1>7, SameGuess, KeepIInv

LEMMA ClientInputIInv == IInv /\ ClientInput => IInv'
  <1> SUFFICES ASSUME IInv, ClientInput PROVE IInv'
    OBVIOUS
  <1>1. /\ pc = "pass" /\ i > 0 /\ i < high /\ revents[i] = "in" /\ TakeOut
        /\ input' = input \cup {fdAt[i]} /\ i' = i + 1
        /\ peer' = peer /\ backlog' = backlog /\ pc' = pc /\ todo' = todo
        /\ failed' = failed /\ held' = held /\ returned' = returned
    BY DEF ClientInput, Next1, kernel, gateway
  <1>2. /\ i \in Used /\ fdAt[i] \in Watched /\ fdAt[i] \in Fds
        /\ peer[fdAt[i]] # "closed" /\ fdAt[i] \notin InHand
        /\ i' \in 0..(TableSize - 1)
    BY <1>1, EventSlot
  <1>3. RestTyped'
    BY <1>1, <1>2, TypeParts DEF IInv, RestTyped
  <1>4. HandInv'
    BY <1>1, <1>2 DEF IInv, HandInv, InHand
  <1>5. \A g \in Watched \ {fdAt[i]} :
           peer'[g] # "closed" /\ g \notin held' \cup returned' \cup todo' \cup input'
    BY <1>1 DEF IInv, WatchedOnce
  <1>6. QED BY <1>1, <1>2, <1>3, <1>4, <1>5, RemoveIInv

LEMMA ClientDisconnectedIInv == IInv /\ ClientDisconnected => IInv'
  <1> SUFFICES ASSUME IInv, ClientDisconnected PROVE IInv'
    OBVIOUS
  <1>1. /\ pc = "pass" /\ i > 0 /\ i < high /\ revents[i] = "hup" /\ TakeOut
        /\ peer' = [peer EXCEPT ![fdAt[i]] = "closed"] /\ i' = i + 1
        /\ input' = input /\ backlog' = backlog /\ pc' = pc /\ todo' = todo
        /\ failed' = failed /\ held' = held /\ returned' = returned
    BY DEF ClientDisconnected, Next1, gateway
  <1>2. /\ i \in Used /\ fdAt[i] \in Watched /\ fdAt[i] \in Fds
        /\ fdAt[i] \notin InHand /\ i' \in 0..(TableSize - 1)
    BY <1>1, EventSlot
  <1>3. RestTyped'
    BY <1>1, <1>2, TypeParts DEF IInv, RestTyped
  <1>4. \A g \in Fds \ {fdAt[i]} : peer'[g] = peer[g]
    BY <1>1 DEF IInv, TypeOK
  <1>5. HandInv'
    <2>1. InHand \subseteq Fds \ {fdAt[i]}
      BY <1>2 DEF IInv, TypeOK, InHand
    <2>2. QED BY <1>1, <1>4, <2>1 DEF IInv, HandInv, InHand
  <1>6. \A g \in Watched \ {fdAt[i]} :
           peer'[g] # "closed" /\ g \notin held' \cup returned' \cup todo' \cup input'
    BY <1>1, <1>4 DEF IInv, WatchedOnce, Watched
  <1>7. QED BY <1>1, <1>2, <1>3, <1>5, <1>6, RemoveIInv

LEMMA GetPollTabIInv == IInv /\ GetPollTab => IInv'
  <1> SUFFICES ASSUME IInv, GetPollTab PROVE IInv'
    OBVIOUS
  <1>1. /\ pc = "idle" /\ Compress
        /\ peer' = peer /\ backlog' = backlog /\ pc' = pc /\ i' = i /\ todo' = todo
        /\ input' = input /\ failed' = failed /\ held' = held /\ returned' = returned
    BY DEF GetPollTab, kernel, gateway
  <1>2. /\ TableTyped' /\ GuessInv' /\ fdAt'[0] = Master /\ Watched' = Watched
        /\ \A t, u \in Used' : fdAt'[t] = fdAt'[u] => t = u
        /\ \A t \in Used' : fdAt'[t] \in Fds
    BY <1>1, IInvSlot, CompressFacts
  <1>3. RestTyped'
    BY <1>1, TypeParts DEF IInv, RestTyped
  <1>4. HandInv'
    BY <1>1 DEF IInv, HandInv, InHand
  <1>5. PassInv'
    BY <1>1, <1>2 DEF IInv, PassInv
  <1>6. WatchedOnce'
    BY <1>1, <1>2 DEF IInv, WatchedOnce
  <1>7. QED BY <1>2, <1>3, <1>4, <1>5, <1>6, TypePartsNext DEF IInv

\* What the gateway's other threads and the peers do: the table and the poll
\* thread stay as they are.
LEMMA ElsewhereIInv ==
  ASSUME IInv, Elsewhere, RestTyped', HandInv',
         \A g \in Watched :
           peer'[g] # "closed" /\ g \notin held' \cup returned' \cup todo' \cup input'
  PROVE  IInv'
  <1>1. /\ fdAt' = fdAt /\ revents' = revents /\ high' = high /\ firstFree' = firstFree
        /\ pc' = pc /\ i' = i
    BY DEF Elsewhere, table
  <1>2. PassInv'
    BY <1>1 DEF IInv, PassInv
  <1>3. revents' \in [Slots -> {"none", "in", "hup"}]
    BY <1>1 DEF IInv, TypeOK
  <1>4. QED BY <1>1, <1>2, <1>3, SameGuess, KeepIInv

LEMMA GatewayIInv ==
  \A f \in Fds : IInv /\ (GatewayReads(f) \/ GatewayReturns(f) \/ GatewayCloses(f)) => IInv'
  <1> SUFFICES ASSUME NEW f \in Fds, IInv,
                      GatewayReads(f) \/ GatewayReturns(f) \/ GatewayCloses(f)
               PROVE  IInv'
    OBVIOUS
  <1>1. /\ f \in held /\ f \notin Watched /\ peer[f] # "closed"
        /\ f \notin returned \cup todo \cup input
    BY DEF GatewayReads, GatewayReturns, GatewayCloses, IInv, HandInv, InHand, WatchedOnce
  <1>2. /\ Elsewhere /\ backlog' = backlog /\ pc' = pc /\ i' = i
        /\ todo' = todo /\ input' = input /\ failed' = failed
    BY DEF GatewayReads, GatewayReturns, GatewayCloses, Elsewhere, kernel
  <1>3. CASE GatewayReads(f)
    <2>1. /\ peer' = [peer EXCEPT ![f] = "quiet"] /\ held' = held /\ returned' = returned
      BY <1>3 DEF GatewayReads, gateway
    <2>2. \A g \in Fds : peer[g] # "closed" => peer'[g] # "closed"
      BY <2>1 DEF IInv, TypeOK
    <2>3. RestTyped'
      BY <1>2, <2>1, TypeParts DEF IInv, RestTyped
    <2>4. HandInv'
      BY <1>2, <2>1, <2>2 DEF IInv, HandInv, InHand, TypeOK
    <2>5. \A g \in Watched :
           peer'[g] # "closed" /\ g \notin held' \cup returned' \cup todo' \cup input'
      BY <1>2, <2>1, <2>2 DEF IInv, WatchedOnce, Watched
    <2>6. QED BY <1>2, <2>3, <2>4, <2>5, ElsewhereIInv
  <1>4. CASE GatewayReturns(f)
    <2>1. peer' = peer /\ held' = held \ {f} /\ returned' = returned \cup {f}
      BY <1>4 DEF GatewayReturns, kernel
    <2>2. RestTyped'
      BY <1>2, <2>1, TypeParts DEF IInv, RestTyped
    <2>3. HandInv'
      BY <1>1, <1>2, <2>1 DEF IInv, HandInv, InHand
    <2>4. \A g \in Watched :
           peer'[g] # "closed" /\ g \notin held' \cup returned' \cup todo' \cup input'
      BY <1>1, <1>2, <2>1 DEF IInv, WatchedOnce
    <2>5. QED BY <1>2, <2>2, <2>3, <2>4, ElsewhereIInv
  <1>5. CASE GatewayCloses(f)
    <2>1. /\ peer' = [peer EXCEPT ![f] = "closed"] /\ held' = held \ {f}
          /\ returned' = returned
      BY <1>5 DEF GatewayCloses
    <2>2. \A g \in Fds \ {f} : peer'[g] = peer[g]
      BY <2>1 DEF IInv, TypeOK
    <2>3. RestTyped'
      BY <1>2, <2>1, TypeParts DEF IInv, RestTyped
    <2>4. HandInv'
      BY <1>1, <1>2, <2>1, <2>2 DEF IInv, HandInv, InHand, TypeOK
    <2>5. \A g \in Watched :
           peer'[g] # "closed" /\ g \notin held' \cup returned' \cup todo' \cup input'
      BY <1>1, <1>2, <2>1, <2>2 DEF IInv, WatchedOnce, Watched
    <2>6. QED BY <1>2, <2>3, <2>4, <2>5, ElsewhereIInv
  <1>6. QED BY <1>3, <1>4, <1>5

LEMMA MoveIInv ==
  \A f, g \in Fds : IInv /\ GatewayMoves(f, g) => IInv'
  <1> SUFFICES ASSUME NEW f \in Fds, NEW g \in Fds, IInv, GatewayMoves(f, g)
               PROVE  IInv'
    OBVIOUS
  <1>1. /\ f \in held /\ peer[g] = "closed"
        /\ held' = (held \ {f}) \cup {g}
        /\ peer' = [peer EXCEPT ![f] = "closed", ![g] = peer[f]]
        /\ Elsewhere /\ backlog' = backlog /\ returned' = returned
        /\ pc' = pc /\ i' = i /\ todo' = todo /\ input' = input /\ failed' = failed
    BY DEF GatewayMoves, Elsewhere
  <1>2. /\ f \notin Watched /\ peer[f] # "closed"
        /\ f \notin returned \cup todo \cup input
    BY <1>1 DEF IInv, HandInv, InHand, WatchedOnce
  <1>3. g \notin Watched /\ g \notin InHand /\ f # g
    BY <1>1, <1>2 DEF IInv, HandInv, WatchedOnce
  <1>4. peer'[g] # "closed" /\ \A h \in Fds \ {f, g} : peer'[h] = peer[h]
    BY <1>1, <1>2, <1>3 DEF IInv, TypeOK
  <1>5. RestTyped'
    BY <1>1, TypeParts DEF IInv, RestTyped
  <1>6. HandInv'
    BY <1>1, <1>2, <1>3, <1>4 DEF IInv, HandInv, InHand, TypeOK
  <1>7. \A h \in Watched :
          peer'[h] # "closed" /\ h \notin held' \cup returned' \cup todo' \cup input'
    BY <1>1, <1>2, <1>3, <1>4 DEF IInv, WatchedOnce, Watched
  <1>8. QED BY <1>1, <1>5, <1>6, <1>7, ElsewhereIInv

LEMMA PeerIInv ==
  /\ IInv /\ PeerConnects => IInv'
  /\ \A f \in Fds : IInv /\ (PeerSends(f) \/ PeerHangsUp(f)) => IInv'
  <1>1. ASSUME IInv, PeerConnects PROVE IInv'
    <2>1. /\ Elsewhere /\ peer' = peer /\ backlog' = backlog + 1 /\ backlog < MaxBacklog
          /\ pc' = pc /\ i' = i /\ todo' = todo /\ input' = input /\ failed' = failed
          /\ held' = held /\ returned' = returned
      BY <1>1 DEF PeerConnects, Elsewhere, gateway
    <2>2. backlog' \in 0..MaxBacklog
      BY <1>1, <2>1, TableAssumption DEF IInv, TypeOK
    <2>3. RestTyped'
      BY <1>1, <2>1, <2>2, TypeParts DEF IInv, RestTyped
    <2>4. HandInv'
      BY <1>1, <2>1 DEF IInv, HandInv, InHand
    <2>5. \A g \in Watched :
           peer'[g] # "closed" /\ g \notin held' \cup returned' \cup todo' \cup input'
      BY <1>1, <2>1 DEF IInv, WatchedOnce
    <2>6. QED BY <1>1, <2>1, <2>3, <2>4, <2>5, ElsewhereIInv
  <1>2. ASSUME NEW f \in Fds, IInv, PeerSends(f) \/ PeerHangsUp(f) PROVE IInv'
    <2>1. /\ Elsewhere /\ backlog' = backlog
          /\ pc' = pc /\ i' = i /\ todo' = todo /\ input' = input /\ failed' = failed
          /\ held' = held /\ returned' = returned
      BY <1>2 DEF PeerSends, PeerHangsUp, Elsewhere, gateway
    <2>2. PICK v \in {"in", "hup"} : peer' = [peer EXCEPT ![f] = v]
      BY <1>2 DEF PeerSends, PeerHangsUp
    <2>3. \A g \in Fds : peer[g] # "closed" => peer'[g] # "closed"
      BY <1>2, <2>2 DEF IInv, TypeOK
    <2>4. RestTyped'
      BY <1>2, <2>1, <2>2, TypeParts DEF IInv, RestTyped
    <2>5. HandInv'
      BY <1>2, <2>1, <2>3 DEF IInv, HandInv, InHand, TypeOK
    <2>6. \A g \in Watched :
           peer'[g] # "closed" /\ g \notin held' \cup returned' \cup todo' \cup input'
      BY <1>2, <2>1, <2>3 DEF IInv, WatchedOnce, Watched
    <2>7. QED BY <1>2, <2>1, <2>4, <2>5, <2>6, ElsewhereIInv
  <1>3. QED BY <1>1, <1>2

LEMMA StutterIInv == IInv /\ UNCHANGED vars => IInv'
  <1> SUFFICES ASSUME IInv, UNCHANGED vars PROVE IInv'
    OBVIOUS
  <1>1. /\ Elsewhere /\ peer' = peer /\ backlog' = backlog
        /\ pc' = pc /\ i' = i /\ todo' = todo /\ input' = input /\ failed' = failed
        /\ held' = held /\ returned' = returned
    BY DEF vars, Elsewhere, kernel, gateway
  <1>2. RestTyped'
    BY <1>1, TypeParts DEF IInv, RestTyped
  <1>3. HandInv'
    BY <1>1 DEF IInv, HandInv, InHand
  <1>4. \A g \in Watched :
           peer'[g] # "closed" /\ g \notin held' \cup returned' \cup todo' \cup input'
    BY <1>1 DEF IInv, WatchedOnce
  <1>5. QED BY <1>1, <1>2, <1>3, <1>4, ElsewhereIInv

LEMMA NextIInv == IInv /\ [Next]_vars => IInv'
  BY PollClientsIInv, AddBackIInv, AddRefusedIInv, PollIInv, PollInterruptedIInv,
     NoEventIInv, AcceptConnectionIInv, AcceptNoSlotIInv, AcceptFailsIInv, ClientInputIInv,
     ClientDisconnectedIInv, EndOfPassIInv, GetPollTabIInv, GatewayIInv, MoveIInv, PeerIInv,
     StutterIInv
  DEF Next, PollStep

\* The inductive invariant holds in every reachable state.
THEOREM Invariant == Spec => []IInv
  BY InitIInv, NextIInv, PTL DEF Spec

\* Every variable keeps to its type: in particular no slot beyond the table is
\* written and the index of the pass stays inside.
THEOREM TypeCorrect == Spec => []TypeOK
  <1>1. IInv => TypeOK
    BY DEF IInv
  <1>2. QED BY <1>1, Invariant, PTL

\* A polled socket is in one slot, open, and in nobody else's hands.
THEOREM WatchedOnceCorrect == Spec => []WatchedOnce
  <1>1. IInv => WatchedOnce
    BY DEF IInv
  <1>2. QED BY <1>1, Invariant, PTL

-----------------------------------------------------------------------------
(* No slot is wasted. *)

\* The table grows, or a socket is refused, only when every slot is in use,
\* although the position of the first free slot is only a guess.
THEOREM NoSlotWastedCorrect == Spec => NoSlotWasted
  <1> DEFINE Refused == pc = "add" /\ pc' = "idle" /\ todo # {}
             Turned  == pc = "pass" /\ pc' = "idle" /\ backlog' < backlog
             Waste   == (high' > high \/ Refused \/ Turned) => FreeIn(1, high) = {}
  <1>1. ASSUME IInv, NEW f \in Fds, AddToPollTab(f), f \notin Watched, pc' = pc
        PROVE  Waste
    BY <1>1, IInvSlot, AddFacts
  <1>2. ASSUME IInv, NoSlot PROVE FreeIn(1, high) = {}
    BY <1>2, IInvSlot, NoSlotFacts
  <1>3. ASSUME IInv, [Next]_vars PROVE Waste
    <2> USE <1>3
    <2>1. high \in Nat /\ backlog \in Nat /\ pc \in {"idle", "add", "pass"}
      BY TableAssumption DEF IInv, TypeOK
    <2>2. ASSUME high' = high, backlog' = backlog, todo = {} PROVE Waste
      BY <2>1, <2>2
    <2>3. ASSUME high' = high, pc' = pc PROVE Waste
      BY <2>1, <2>3
    <2>4. CASE \E f \in Fds : AddBack(f) \/ AcceptConnection(f)
      <3>1. PICK f \in Fds : AddBack(f) \/ AcceptConnection(f)
        BY <2>4
      <3>2. AddToPollTab(f) /\ f \notin Watched /\ pc' = pc
        BY <3>1 DEF AddBack, AcceptConnection, Next1, IInv, WatchedOnce
      <3>3. QED BY <1>1, <3>2
    <2>5. CASE AcceptNoSlot \/ \E f \in Fds : AddRefused(f)
      BY <1>2, <2>5 DEF AcceptNoSlot, AddRefused
    <2>6. CASE PollClients \/ PollTimeout \/ PollEvents \/ PollInterrupted
      BY <2>1, <2>6 DEF PollClients, PollTimeout, PollEvents, PollInterrupted, table
    <2>7. CASE NoEvent \/ ClientInput \/ ClientDisconnected
      BY <2>3, <2>7 DEF NoEvent, ClientInput, ClientDisconnected, Next1, TakeOut, table
    <2>8. CASE AcceptFails \/ EndOfPass
      BY <2>1, <2>8 DEF AcceptFails, EndOfPass, table, kernel
    <2>9. CASE GetPollTab
      <3>1. high' <= high /\ high' \in Nat /\ pc' = pc
        <4>1. high' <= high /\ TableTyped'
          BY <2>9, IInvSlot, CompressFacts DEF GetPollTab
        <4>2. high' \in Nat
          BY <4>1, TableAssumption DEF TableTyped
        <4>3. QED BY <2>9, <4>1, <4>2 DEF GetPollTab
      <3>2. QED BY <2>1, <3>1
    <2>10. CASE Elsewhere
      BY <2>3, <2>10 DEF Elsewhere, table
    <2>11. CASE UNCHANGED vars
      BY <2>3, <2>11 DEF vars, table
    <2>12. QED
      BY <2>4, <2>5, <2>6, <2>7, <2>8, <2>9, <2>10, <2>11
      DEF Next, PollStep, GatewayReads, GatewayReturns, GatewayCloses, GatewayMoves, PeerConnects,
          PeerSends, PeerHangsUp
  <1>4. IInv /\ [Next]_vars => [Waste]_vars
    BY <1>3
  <1>5. QED BY <1>4, Invariant, PTL DEF Spec, NoSlotWasted

-----------------------------------------------------------------------------
(* The table implements PollSet. *)

Open == {f \in Fds : peer[f] # "closed"}

Forgotten == Open \ (Watched \cup InHand)

\* A full table polls Capacity clients.
LEMMA FullTable ==
  ASSUME IInv, FreeIn(1, high) = {}, high + 1 >= TableSize
  PROVE  Cardinality(Watched) >= TableSize - 2
  <1>1. high \in Nat /\ high >= 1 /\ TableSize \in Nat
    BY TableAssumption DEF IInv, TypeOK
  <1>2. Used = 1..(high - 1)
    BY DEF Used, FreeIn
  <1>3. [s \in Used |-> fdAt[s]] \in Injection(Used, Watched)
    BY DEF IInv, WatchedOnce, Watched, Injection, IsInjective
  <1>4. IsFiniteSet(Watched)
    <2>1. Watched \subseteq Fds
      BY DEF IInv, WatchedOnce, Watched
    <2>2. QED BY <2>1, TableAssumption, FS_Subset
  <1>5. Cardinality(Used) <= Cardinality(Watched)
    BY <1>3, <1>4, FS_Injection
  <1>6. Cardinality(1..(high - 1)) = high - 1
    BY <1>1, FS_Interval
  <1>7. Cardinality(Watched) \in Nat
    BY <1>4, FS_CardinalityType
  <1>8. QED BY <1>1, <1>2, <1>5, <1>6, <1>7

LEMMA SameSet ==
  ASSUME Watched' = Watched, InHand' = InHand, Open' = Open
  PROVE  [Abstract!PNext]_(Abstract!pvars)
  <1>1. UNCHANGED Abstract!pvars
    BY DEF Abstract!pvars, Open
  <1>2. QED BY <1>1

\* The sockets that are polled or in hand are open ones.
LEMMA OpenSockets ==
  ASSUME IInv
  PROVE  /\ Watched \subseteq Open /\ InHand \subseteq Open /\ Watched \cap InHand = {}
  <1>1. Watched \subseteq Fds /\ InHand \subseteq Fds
    BY DEF IInv, TypeOK, WatchedOnce, Watched, InHand
  <1>2. QED BY <1>1 DEF IInv, WatchedOnce, HandInv, InHand, Open

LEMMA AddRefines ==
  ASSUME IInv, NEW f \in Fds, AddBack(f) \/ AcceptConnection(f)
  PROVE  Abstract!Return(f) \/ Abstract!Accept(f)
  <1>1. AddToPollTab(f) /\ f \notin Watched
    BY DEF AddBack, AcceptConnection, IInv, WatchedOnce
  <1>2. Watched' = Watched \cup {f}
    <2>1. PICK s \in 1..(high' - 1) :
            s \notin Used /\ Used' = Used \cup {s} /\ fdAt' = [fdAt EXCEPT ![s] = f]
      BY <1>1, IInvSlot, AddFacts
    <2>2. TableTyped' /\ SlotInv
      BY <1>1, IInvSlot, AddFacts
    <2>3. s \in Slots \ Used
      BY <2>1, <2>2, TableAssumption DEF TableTyped, Slots
    <2>4. QED BY <1>1, <2>1, <2>2, <2>3, AddWatched
  <1>3. Watched \subseteq Open /\ InHand \subseteq Open /\ Watched \cap InHand = {}
    BY OpenSockets
  <1>4. CASE AddBack(f)
    <2>1. /\ pc = "add" /\ f \in todo /\ todo' = todo \ {f} /\ peer' = peer
          /\ input' = input /\ held' = held /\ returned' = returned
      BY <1>4 DEF AddBack, kernel, gateway
    <2>2. f \in InHand /\ InHand' = InHand \ {f}
      BY <2>1 DEF IInv, HandInv, InHand
    <2>3. Open' = Open
      BY <2>1 DEF Open
    <2>4. Forgotten' = Forgotten
      BY <1>2, <2>2, <2>3 DEF Forgotten
    <2>5. QED BY <1>2, <2>2, <2>4 DEF Abstract!Return, Forgotten, Open
  <1>5. CASE AcceptConnection(f)
    <2>1. /\ peer[f] = "closed" /\ peer' = [peer EXCEPT ![f] = "quiet"]
          /\ todo' = todo /\ input' = input /\ held' = held /\ returned' = returned
      BY <1>5 DEF AcceptConnection, Next1, gateway
    <2>2. f \notin Open /\ InHand' = InHand
      BY <2>1 DEF Open, InHand
    <2>3. Open' = Open \cup {f}
      BY <2>1 DEF Open, IInv, TypeOK
    <2>4. Forgotten' = Forgotten
      BY <1>2, <2>2, <2>3 DEF Forgotten
    <2>5. f \notin Watched \cup InHand \cup Forgotten
      BY <1>3, <2>2 DEF Forgotten
    <2>6. QED BY <1>2, <2>2, <2>4, <2>5 DEF Abstract!Accept, Forgotten, Open
  <1>6. QED BY <1>4, <1>5

LEMMA RefusedRefines ==
  ASSUME IInv, NEW f \in Fds, AddRefused(f)
  PROVE  \E lost \in SUBSET Fds : Abstract!Forget(lost)
  <1>1. /\ pc = "add" /\ NoSlot /\ todo' = {} /\ peer' = peer /\ input' = input
        /\ held' = held /\ returned' = returned
    BY DEF AddRefused, kernel, gateway
  <1>2. /\ fdAt' = fdAt /\ high' = high /\ FreeIn(1, high) = {} /\ high + 1 >= TableSize
    BY <1>1, IInvSlot, NoSlotFacts
  <1>3. Cardinality(Watched) >= TableSize - 2
    BY <1>2, FullTable
  <1>4. Watched' = Watched
    BY <1>2, SameTable
  <1>5. InHand' = InHand \ todo /\ todo \subseteq InHand
    BY <1>1 DEF IInv, HandInv, InHand
  <1>6. Open' = Open
    BY <1>1 DEF Open
  <1>7. Forgotten' = Forgotten \cup todo
    BY <1>4, <1>5, <1>6, OpenSockets DEF Forgotten
  <1>8. PICK lost \in SUBSET Fds : lost = todo
    BY DEF IInv, TypeOK
  <1>9. Abstract!Forget(lost)
    BY <1>3, <1>4, <1>5, <1>7, <1>8
    DEF Abstract!Forget, Forgotten, Open, Cardinality, Abstract!Cardinality
  <1>10. QED BY <1>9

LEMMA EventRefines ==
  ASSUME IInv, ClientInput \/ ClientDisconnected
  PROVE  \E f \in Fds : Abstract!Report(f) \/ Abstract!Disconnect(f)
  <1>1. /\ pc = "pass" /\ i > 0 /\ i < high /\ revents[i] # "none" /\ TakeOut
        /\ todo' = todo /\ held' = held /\ returned' = returned
    BY DEF ClientInput, ClientDisconnected, Next1, gateway
  <1>2. /\ i \in Used /\ fdAt[i] \in Watched /\ fdAt[i] \in Fds /\ fdAt[i] \notin InHand
    BY <1>1, EventSlot
  <1>3. Watched' = Watched \ {fdAt[i]}
    BY <1>1, <1>2, IInvSlot, TakeOutFacts
  <1>4. Watched \subseteq Open /\ InHand \subseteq Open /\ Watched \cap InHand = {}
    BY OpenSockets
  <1>5. CASE ClientInput
    <2>1. input' = input \cup {fdAt[i]} /\ peer' = peer
      BY <1>5 DEF ClientInput, kernel
    <2>2. InHand' = InHand \cup {fdAt[i]} /\ Open' = Open
      BY <1>1, <2>1 DEF InHand, Open
    <2>3. Forgotten' = Forgotten
      BY <1>2, <1>3, <2>2 DEF Forgotten
    <2>4. Abstract!Report(fdAt[i])
      BY <1>2, <1>3, <2>2, <2>3 DEF Abstract!Report, Forgotten, Open
    <2>5. QED BY <1>2, <2>4
  <1>6. CASE ClientDisconnected
    <2>1. input' = input /\ peer' = [peer EXCEPT ![fdAt[i]] = "closed"]
      BY <1>6 DEF ClientDisconnected
    <2>2. InHand' = InHand
      BY <1>1, <2>1 DEF InHand
    <2>3. Open' = Open \ {fdAt[i]}
      BY <1>2, <2>1 DEF Open, IInv, TypeOK
    <2>4. Forgotten' = Forgotten
      BY <1>2, <1>3, <2>2, <2>3 DEF Forgotten
    <2>5. Abstract!Disconnect(fdAt[i])
      BY <1>2, <1>3, <2>2, <2>4 DEF Abstract!Disconnect, Forgotten, Open
    <2>6. QED BY <1>2, <2>5
  <1>7. QED BY <1>5, <1>6

LEMMA CloseRefines ==
  ASSUME IInv, NEW f \in Fds, GatewayCloses(f)
  PROVE  Abstract!Close(f)
  <1>1. /\ f \in held /\ held' = held \ {f} /\ peer' = [peer EXCEPT ![f] = "closed"]
        /\ fdAt' = fdAt /\ high' = high
        /\ returned' = returned /\ todo' = todo /\ input' = input
    BY DEF GatewayCloses, Elsewhere, table
  <1>2. f \in InHand /\ InHand' = InHand \ {f}
    BY <1>1 DEF IInv, HandInv, InHand
  <1>3. Open' = Open \ {f}
    BY <1>1 DEF Open, IInv, TypeOK
  <1>4. Watched' = Watched
    BY <1>1, SameTable
  <1>5. Forgotten' = Forgotten
    BY <1>2, <1>3, <1>4, OpenSockets DEF Forgotten
  <1>6. QED BY <1>2, <1>4, <1>5 DEF Abstract!Close, Forgotten, Open

LEMMA MoveRefines ==
  ASSUME IInv, NEW f \in Fds, NEW g \in Fds, GatewayMoves(f, g)
  PROVE  Abstract!Move(f, g)
  <1>1. /\ f \in held /\ peer[g] = "closed"
        /\ held' = (held \ {f}) \cup {g}
        /\ peer' = [peer EXCEPT ![f] = "closed", ![g] = peer[f]]
        /\ fdAt' = fdAt /\ high' = high
        /\ returned' = returned /\ todo' = todo /\ input' = input
    BY DEF GatewayMoves, Elsewhere, table
  <1>2. f \in InHand /\ InHand' = (InHand \ {f}) \cup {g} /\ peer[f] # "closed"
    BY <1>1 DEF IInv, HandInv, InHand
  <1>3. g \notin Open /\ Open' = (Open \ {f}) \cup {g}
    BY <1>1, <1>2 DEF Open, IInv, TypeOK
  <1>4. Watched' = Watched /\ Watched \subseteq Open /\ InHand \subseteq Open
    BY <1>1, SameTable, OpenSockets
  <1>5. Forgotten' = Forgotten
    BY <1>2, <1>3, <1>4 DEF Forgotten
  <1>6. QED BY <1>2, <1>3, <1>4, <1>5 DEF Abstract!Move, Forgotten, Open

\* The other steps change nothing of the set.
LEMMA PollStutters ==
  ASSUME IInv, \/ PollClients \/ PollTimeout \/ PollEvents \/ PollInterrupted \/ NoEvent
               \/ AcceptNoSlot \/ AcceptFails \/ EndOfPass \/ GetPollTab
  PROVE  [Abstract!PNext]_(Abstract!pvars)
  <1>1. Open' = Open
    BY DEF Open, PollClients, PollTimeout, PollEvents, PollInterrupted, NoEvent, AcceptNoSlot,
       AcceptFails, EndOfPass, GetPollTab, kernel
  <1>2. InHand' = InHand
    BY DEF IInv, HandInv, InHand, PollClients, PollTimeout, PollEvents, PollInterrupted,
       NoEvent, Next1, AcceptNoSlot, AcceptFails, CutPass, EndOfPass, GetPollTab, gateway
  <1>3. Watched' = Watched
    <2>1. CASE GetPollTab
      BY <2>1, IInvSlot, CompressFacts DEF GetPollTab
    <2>2. CASE ~GetPollTab
      <3>1. fdAt' = fdAt /\ high' = high
        BY <2>2 DEF PollClients, PollTimeout, PollEvents, PollInterrupted, NoEvent,
           AcceptNoSlot, NoSlot, AcceptFails, EndOfPass, table
      <3>2. QED BY <3>1, SameTable
    <2>3. QED BY <2>1, <2>2
  <1>4. QED BY <1>1, <1>2, <1>3, SameSet

LEMMA ElsewhereStutters ==
  ASSUME IInv, \/ PeerConnects \/ UNCHANGED vars
               \/ \E f \in Fds : \/ GatewayReads(f) \/ GatewayReturns(f)
                                 \/ PeerSends(f) \/ PeerHangsUp(f)
  PROVE  [Abstract!PNext]_(Abstract!pvars)
  <1>1. Elsewhere
    BY DEF PeerConnects, GatewayReads, GatewayReturns, PeerSends, PeerHangsUp, vars, Elsewhere
  <1>2. Watched' = Watched
    BY <1>1, SameTable DEF Elsewhere, table
  <1>3. InHand' = InHand
    BY <1>1 DEF Elsewhere, InHand, PeerConnects, GatewayReads, GatewayReturns, PeerSends,
       PeerHangsUp, vars, gateway
  <1>4. Open' = Open
    BY DEF Open, PeerConnects, GatewayReads, GatewayReturns, PeerSends, PeerHangsUp, vars,
       kernel, IInv, TypeOK
  <1>5. QED BY <1>2, <1>3, <1>4, SameSet

LEMMA InitRefines == Init => Abstract!PInit
  <1> SUFFICES ASSUME Init PROVE Abstract!PInit
    OBVIOUS
  <1>1. Used = {} /\ InHand = {} /\ Open = {}
    BY DEF Init, Used, InHand, Open
  <1>2. QED BY <1>1 DEF Abstract!PInit, Watched, Open

\* Every behaviour of a poll table, of any size and with any sockets, is one of
\* the set's: reuse, growth and compression of slots lose, duplicate and resurrect
\* no socket.
THEOREM Refinement == Spec => ImplementsPollSet
  <1>1. IInv /\ [Next]_vars => [Abstract!PNext]_(Abstract!pvars)
    <2> SUFFICES ASSUME IInv, [Next]_vars PROVE [Abstract!PNext]_(Abstract!pvars)
      OBVIOUS
    <2>1. CASE \E f \in Fds : AddBack(f) \/ AcceptConnection(f)
      BY <2>1, AddRefines DEF Abstract!PNext
    <2>2. CASE \E f \in Fds : AddRefused(f)
      BY <2>2, RefusedRefines DEF Abstract!PNext
    <2>3. CASE ClientInput \/ ClientDisconnected
      BY <2>3, EventRefines DEF Abstract!PNext
    <2>4. CASE \E f \in Fds : GatewayCloses(f)
      BY <2>4, CloseRefines DEF Abstract!PNext
    <2>5. CASE \E f, g \in Fds : GatewayMoves(f, g)
      BY <2>5, MoveRefines DEF Abstract!PNext
    <2>6. QED
      BY <2>1, <2>2, <2>3, <2>4, <2>5, PollStutters, ElsewhereStutters DEF Next, PollStep
  <1>2. QED
    BY <1>1, Invariant, InitRefines, PTL DEF Spec, ImplementsPollSet, Abstract!PSpec
=============================================================================
