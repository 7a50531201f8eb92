-------------------------- MODULE ClientConnsProofs --------------------------
(***************************************************************************)
(* Proofs about ClientConns: a number is in one place, the dictionary is   *)
(* true, nobody closes another client's number, and the gateway uses the   *)
(* poll table as PollSet assumes, for any number of clients.               *)
(***************************************************************************)
EXTENDS ClientConns, FiniteSetTheorems, WellFoundedInduction, TLAPS

-----------------------------------------------------------------------------
(* The inductive invariant *)

\* A connection that the kernel has is one client's, and under one number.
KernelInv ==
  /\ \A f \in Fds : owner[f] # None => peer[owner[f]] \in {"idle", "sent", "gone"}
  /\ \A f, g \in Fds : owner[f] # None /\ owner[f] = owner[g] => f = g

\* While new connections are accepted the lists of the pass are empty, and a
\* number whose disconnection is still to be handled is not given out again.
PassInv ==
  /\ listening => disc = {} /\ input = {}
  /\ \A f \in disc : owner[f] = None
  /\ todo \subseteq watched

\* Where each open number is.
PlaceInv ==
  /\ \A f \in watched \cup returned \cup input : owner[f] # None /\ work[owner[f]] = "none"
  /\ \A f \in Fds : owner[f] # None =>
       f \in watched \cup returned \cup input \/ work[owner[f]] # "none"
  /\ watched \cap returned = {} /\ watched \cap input = {} /\ returned \cap input = {}
  /\ \A c \in Clients : work[c] # "none" => sock[c] \in Fds /\ owner[sock[c]] = c

\* What the gateway knows of a client, and what the kernel does: its number is
\* the one it is connected under, unless its disconnection is to be handled.
ConnInv ==
  \A c \in Clients :
    /\ state[c] = "none" <=> sock[c] = None
    /\ state[c] = "none" => work[c] = "none"
    /\ state[c] = "disc" <=> work[c] = "closing"
    /\ sock[c] # None => owner[sock[c]] = c \/ (sock[c] \in disc /\ peer[c] = "away")
    /\ \A f \in Fds : owner[f] = c /\ state[c] # "none" => sock[c] = f
    /\ peer[c] = "knocking" => state[c] = "none"

\* The state that an exception handler still has to assign finds the client of
\* that time, and not at its first call.
LateInv ==
  \A c \in late :
    /\ state[c] = "none" => peer[c] = "away"
    /\ work[c] \in {"queued", "routing", "waiting", "lost"} => login[c]

\* DictIsTrue, client by client.
DictInv ==
  /\ \A f \in Fds : dict[f] # None => sock[dict[f]] = f /\ state[dict[f]] \notin {"none", "disc"}
  /\ \A c \in Clients : state[c] \notin {"none", "disc"} => sock[c] \in Fds /\ dict[sock[c]] = c

IInv ==
  /\ TypeOK /\ KernelInv /\ PassInv /\ PlaceInv /\ ConnInv /\ LateInv
  /\ DictInv /\ FirstCallIsFirst

-----------------------------------------------------------------------------
(* Facts about a state *)

\* A set of numbers that is not empty has a least one.
LEMMA LeastNumber ==
  ASSUME NEW S, S \subseteq Nat, S # {}
  PROVE  Min(S) \in S
<1>1. OpToRel(<, Nat) = {ss \in Nat \X Nat : ss[1] < ss[2]}
  BY Zenon DEF OpToRel
<1>2. \E f \in S : \A g \in S : ~(<<g, f>> \in OpToRel(<, Nat))
  BY WFMin, NatLessThanWellFounded, Zenon
<1>3. \E f \in S : \A g \in S : ~(<<g, f>> \in {ss \in Nat \X Nat : ss[1] < ss[2]})
  BY <1>1, <1>2, Zenon
<1>4. \A f, g \in S : ~(<<g, f>> \in {ss \in Nat \X Nat : ss[1] < ss[2]}) => f <= g
  OBVIOUS
<1>5. \E f \in S : \A g \in S : f <= g
  BY <1>3, <1>4, Zenon
<1>6. QED BY <1>5 DEF Min

\* There are more numbers than connections: the kernel finds a free one.
LEMMA NextFdFree ==
  ASSUME IInv
  PROVE  NextFd \in Fds /\ owner[NextFd] = None
<1>1. \E f \in Fds : owner[f] = None
  <2>1. SUFFICES ASSUME \A f \in Fds : owner[f] # None
                 PROVE  FALSE
    OBVIOUS
  <2>2. owner \in Injection(Fds, Clients)
    BY <2>1 DEF IInv, TypeOK, KernelInv, Injection, IsInjective
  <2>3. Cardinality(Fds) <= Cardinality(Clients)
    BY <2>2, FS_Injection, ConnAssumption
  <2>4. Cardinality(Fds) \in Nat /\ Cardinality(Clients) \in Nat
    BY FS_CardinalityType, ConnAssumption
  <2>5. QED BY <2>3, <2>4, ConnAssumption
<1>2. {f \in Fds : owner[f] = None} \subseteq Nat /\ {f \in Fds : owner[f] = None} # {}
  BY <1>1, ConnAssumption
<1>3. NextFd \in {f \in Fds : owner[f] = None}
  BY <1>2, LeastNumber DEF NextFd
<1>4. QED BY <1>3

\* The number of a client with a request is open, and nowhere else.
LEMMA BusyFacts ==
  ASSUME IInv, NEW c \in Clients, work[c] # "none"
  PROVE  /\ sock[c] \in Fds /\ owner[sock[c]] = c /\ c # None
         /\ sock[c] \notin watched \cup returned \cup input \cup disc
         /\ state[c] # "none" /\ peer[c] \in {"idle", "sent", "gone"}
         /\ work[c] # "closing" => state[c] \notin {"none", "disc"} /\ dict[sock[c]] = c
         /\ \A f \in Fds : owner[f] = c => f = sock[c]
<1>1. sock[c] \in Fds /\ owner[sock[c]] = c /\ c # None
  BY ConnAssumption DEF IInv, PlaceInv
<1>2. sock[c] \notin watched \cup returned \cup input \cup disc
  BY <1>1 DEF IInv, PlaceInv, PassInv
<1>3. state[c] # "none" /\ (work[c] # "closing" => state[c] # "disc")
  BY DEF IInv, ConnInv
<1>4. work[c] # "closing" => dict[sock[c]] = c
  BY <1>3 DEF IInv, DictInv
<1>5. peer[c] \in {"idle", "sent", "gone"} /\ \A f \in Fds : owner[f] = c => f = sock[c]
  BY <1>1 DEF IInv, KernelInv
<1>6. QED BY <1>1, <1>2, <1>3, <1>4, <1>5

\* The owner of a number that is in one of the poll thread's hands.
LEMMA IdleFacts ==
  ASSUME IInv, NEW f \in watched \cup returned \cup input
  PROVE  /\ f \in Fds /\ owner[f] \in Clients /\ owner[f] # None /\ work[owner[f]] = "none"
         /\ state[owner[f]] # "disc" /\ peer[owner[f]] \in {"idle", "sent", "gone"}
         /\ dict[f] \in {None, owner[f]} /\ f \notin disc
         /\ dict[f] = None => state[owner[f]] = "none" /\ owner[f] \notin late
         /\ dict[f] # None => sock[owner[f]] = f /\ state[owner[f]] \notin {"none", "disc"}
         /\ \A g \in Fds : owner[g] = owner[f] => g = f
<1>1. f \in Fds /\ owner[f] \in Clients /\ owner[f] # None /\ work[owner[f]] = "none" /\ f \notin disc
  BY DEF IInv, TypeOK, PlaceInv, PassInv
<1>2. state[owner[f]] # "disc" /\ peer[owner[f]] \in {"idle", "sent", "gone"}
  BY <1>1 DEF IInv, ConnInv, KernelInv
<1>3. \A g \in Fds : owner[g] = owner[f] => g = f
  BY <1>1 DEF IInv, KernelInv
<1>4. ASSUME dict[f] # None
      PROVE  dict[f] = owner[f]
  <2>1. dict[f] \in Clients /\ sock[dict[f]] = f /\ sock[dict[f]] # None
    BY <1>1, <1>4, ConnAssumption DEF IInv, TypeOK, DictInv
  <2>2. QED BY <1>1, <2>1 DEF IInv, ConnInv
<1>5. ASSUME dict[f] = None
      PROVE  state[owner[f]] = "none" /\ owner[f] \notin late
  <2>1. ASSUME state[owner[f]] # "none"
        PROVE  FALSE
    <3>1. sock[owner[f]] = f
      BY <1>1, <2>1 DEF IInv, ConnInv
    <3>2. dict[f] = owner[f]
      BY <1>1, <1>2, <2>1, <3>1 DEF IInv, DictInv
    <3>3. QED BY <1>1, <1>5, <3>2
  <2>2. QED BY <1>2, <2>1 DEF IInv, LateInv
<1>6. dict[f] # None => sock[owner[f]] = f /\ state[owner[f]] \notin {"none", "disc"}
  BY <1>1, <1>4 DEF IInv, DictInv
<1>7. QED BY <1>1, <1>2, <1>3, <1>4, <1>5, <1>6

-----------------------------------------------------------------------------
(* The peers *)

LEMMA ConnectsInv ==
  ASSUME IInv, NEW c \in Clients, Connects(c)
  PROVE  IInv'
<1>1. TypeOK'
  BY DEF IInv, TypeOK, Connects, thread, conns, requests, kernel
<1>2. KernelInv'
  BY DEF IInv, TypeOK, KernelInv, Connects, thread, conns, requests, kernel
<1>3. PassInv'
  BY DEF IInv, TypeOK, PassInv, Connects, thread, conns, requests, kernel
<1>4. PlaceInv'
  BY DEF IInv, PlaceInv, Connects, thread, conns, requests
<1>5. ConnInv'
  BY DEF IInv, TypeOK, ConnInv, Connects, thread, conns, requests, kernel
<1>6. LateInv'
  BY DEF IInv, TypeOK, LateInv, Connects, thread, conns, requests, kernel
<1>7. DictInv'
  BY DEF IInv, TypeOK, DictInv, Connects, thread, conns, requests, kernel
<1>8. FirstCallIsFirst'
  BY DEF IInv, TypeOK, FirstCallIsFirst, Connects, thread, conns, requests, kernel
<1>9. QED BY <1>1, <1>2, <1>3, <1>4, <1>5, <1>6, <1>7, <1>8 DEF IInv

LEMMA SendsInv ==
  ASSUME IInv, NEW c \in Clients, Sends(c)
  PROVE  IInv'
<1>1. TypeOK'
  BY DEF IInv, TypeOK, Sends, thread, conns, requests, kernel
<1>2. KernelInv'
  BY DEF IInv, TypeOK, KernelInv, Sends, thread, conns, requests, kernel
<1>3. PassInv'
  BY DEF IInv, TypeOK, PassInv, Sends, thread, conns, requests, kernel
<1>4. PlaceInv'
  BY DEF IInv, PlaceInv, Sends, thread, conns, requests
<1>5. ConnInv'
  BY DEF IInv, TypeOK, ConnInv, Sends, thread, conns, requests, kernel
<1>6. LateInv'
  BY DEF IInv, TypeOK, LateInv, Sends, thread, conns, requests, kernel
<1>7. DictInv'
  BY DEF IInv, TypeOK, DictInv, Sends, thread, conns, requests, kernel
<1>8. FirstCallIsFirst'
  BY DEF IInv, TypeOK, FirstCallIsFirst, Sends, thread, conns, requests, kernel
<1>9. QED BY <1>1, <1>2, <1>3, <1>4, <1>5, <1>6, <1>7, <1>8 DEF IInv

LEMMA HangsUpInv ==
  ASSUME IInv, NEW c \in Clients, HangsUp(c)
  PROVE  IInv'
<1>1. TypeOK'
  BY DEF IInv, TypeOK, HangsUp, thread, conns, requests, kernel
<1>2. KernelInv'
  BY DEF IInv, TypeOK, KernelInv, HangsUp, thread, conns, requests, kernel
<1>3. PassInv'
  BY DEF IInv, TypeOK, PassInv, HangsUp, thread, conns, requests, kernel
<1>4. PlaceInv'
  BY DEF IInv, PlaceInv, HangsUp, thread, conns, requests
<1>5. ConnInv'
  BY DEF IInv, TypeOK, ConnInv, HangsUp, thread, conns, requests, kernel
<1>6. LateInv'
  BY DEF IInv, TypeOK, LateInv, HangsUp, thread, conns, requests, kernel
<1>7. DictInv'
  BY DEF IInv, TypeOK, DictInv, HangsUp, thread, conns, requests, kernel
<1>8. FirstCallIsFirst'
  BY DEF IInv, TypeOK, FirstCallIsFirst, HangsUp, thread, conns, requests, kernel
<1>9. QED BY <1>1, <1>2, <1>3, <1>4, <1>5, <1>6, <1>7, <1>8 DEF IInv

-----------------------------------------------------------------------------
(* The poll thread *)

LEMMA AddBackInv ==
  ASSUME IInv, NEW f \in Fds, AddBack(f)
  PROVE  IInv'
<1>1. TypeOK'
  BY DEF IInv, TypeOK, AddBack, thread, conns, requests, kernel
<1>2. KernelInv'
  BY DEF IInv, TypeOK, KernelInv, AddBack, thread, conns, requests, kernel
<1>3. PassInv'
  BY DEF IInv, TypeOK, PassInv, AddBack, thread, conns, requests, kernel
<1>4. PlaceInv'
  BY DEF IInv, TypeOK, PlaceInv, AddBack, thread, conns, requests, kernel
<1>5. ConnInv'
  BY DEF IInv, TypeOK, ConnInv, AddBack, thread, conns, requests, kernel
<1>6. LateInv'
  BY DEF IInv, TypeOK, LateInv, AddBack, thread, conns, requests, kernel
<1>7. DictInv'
  BY DEF IInv, TypeOK, DictInv, AddBack, thread, conns, requests, kernel
<1>8. FirstCallIsFirst'
  BY DEF IInv, TypeOK, FirstCallIsFirst, AddBack, thread, conns, requests, kernel
<1>9. QED BY <1>1, <1>2, <1>3, <1>4, <1>5, <1>6, <1>7, <1>8 DEF IInv

LEMMA PollReturnsInv ==
  ASSUME IInv, PollReturns
  PROVE  IInv'
<1>1. TypeOK'
  BY DEF IInv, TypeOK, PollReturns, NoEventLeft, PeerAt, thread, conns, requests, kernel
<1>2. KernelInv'
  BY DEF IInv, TypeOK, KernelInv, PollReturns, NoEventLeft, PeerAt, thread, conns, requests, kernel
<1>3. PassInv'
  BY DEF IInv, TypeOK, PassInv, PollReturns, NoEventLeft, PeerAt, thread, conns, requests, kernel
<1>4. PlaceInv'
  BY DEF IInv, TypeOK, PlaceInv, PollReturns, NoEventLeft, PeerAt, thread, conns, requests, kernel
<1>5. ConnInv'
  BY DEF IInv, TypeOK, ConnInv, PollReturns, NoEventLeft, PeerAt, thread, conns, requests, kernel
<1>6. LateInv'
  BY DEF IInv, TypeOK, LateInv, PollReturns, NoEventLeft, PeerAt, thread, conns, requests, kernel
<1>7. DictInv'
  BY DEF IInv, TypeOK, DictInv, PollReturns, NoEventLeft, PeerAt, thread, conns, requests, kernel
<1>8. FirstCallIsFirst'
  BY DEF IInv, TypeOK, FirstCallIsFirst, PollReturns, NoEventLeft, PeerAt, thread, conns, requests, kernel
<1>9. QED BY <1>1, <1>2, <1>3, <1>4, <1>5, <1>6, <1>7, <1>8 DEF IInv

LEMMA AcceptInv ==
  ASSUME IInv, NEW c \in Clients, Accept(c)
  PROVE  IInv'
<1>1. TypeOK'
  BY NextFdFree, ConnAssumption DEF IInv, TypeOK, Accept, thread, conns, requests, kernel
<1>2. KernelInv'
  BY NextFdFree, ConnAssumption DEF IInv, TypeOK, KernelInv, Accept, thread, conns, requests, kernel
<1>3. PassInv'
  BY NextFdFree, ConnAssumption DEF IInv, TypeOK, PassInv, Accept, thread, conns, requests, kernel
<1>4. PlaceInv'
  <2>1. state[c] = "none" /\ work[c] = "none"
    BY DEF IInv, ConnInv, Accept
  <2>2. NextFd \in Fds /\ NextFd \notin watched \cup returned \cup input
    BY NextFdFree DEF IInv, PlaceInv
  <2>3. /\ watched' = watched \cup {NextFd} /\ UNCHANGED <<returned, input, work, sock>>
        /\ owner'[NextFd] = c /\ \A f \in Fds \ {NextFd} : owner'[f] = owner[f]
    BY <2>2 DEF IInv, TypeOK, Accept, conns, requests
  <2>4. \A d \in Clients : work[d] # "none" => sock[d] # NextFd
    BY NextFdFree, ConnAssumption DEF IInv, PlaceInv
  <2>5. \A f \in watched \cup returned \cup input : f \in Fds
    BY DEF IInv, TypeOK
  <2>6. c # None
    BY ConnAssumption
  <2>7. QED BY <2>1, <2>2, <2>3, <2>4, <2>5, <2>6 DEF IInv, PlaceInv
<1>5. ConnInv'
  BY NextFdFree, ConnAssumption DEF IInv, TypeOK, ConnInv, Accept, thread, conns, requests, kernel
<1>6. LateInv'
  BY NextFdFree, ConnAssumption DEF IInv, TypeOK, LateInv, Accept, thread, conns, requests, kernel
<1>7. DictInv'
  BY NextFdFree, ConnAssumption DEF IInv, TypeOK, DictInv, Accept, thread, conns, requests, kernel
<1>8. FirstCallIsFirst'
  BY NextFdFree, ConnAssumption DEF IInv, TypeOK, FirstCallIsFirst, Accept, thread, conns, requests, kernel
<1>9. QED BY <1>1, <1>2, <1>3, <1>4, <1>5, <1>6, <1>7, <1>8 DEF IInv

LEMMA ClientInputInv ==
  ASSUME IInv, NEW f \in Fds, ClientInput(f)
  PROVE  IInv'
<1>1. TypeOK'
  BY DEF IInv, TypeOK, ClientInput, thread, conns, requests, kernel
<1>2. KernelInv'
  BY DEF IInv, TypeOK, KernelInv, ClientInput, thread, conns, requests, kernel
<1>3. PassInv'
  BY DEF IInv, TypeOK, PassInv, ClientInput, thread, conns, requests, kernel
<1>4. PlaceInv'
  <2>1. f \in watched
    BY DEF IInv, PassInv, ClientInput
  <2>2. watched' = watched \ {f} /\ input' = input \cup {f} /\ UNCHANGED <<owner, returned, work, sock>>
    BY DEF ClientInput, kernel, conns, requests
  <2>3. QED BY <2>1, <2>2 DEF IInv, PlaceInv
<1>5. ConnInv'
  BY DEF IInv, TypeOK, ConnInv, ClientInput, thread, conns, requests, kernel
<1>6. LateInv'
  BY DEF IInv, TypeOK, LateInv, ClientInput, thread, conns, requests, kernel
<1>7. DictInv'
  BY DEF IInv, TypeOK, DictInv, ClientInput, thread, conns, requests, kernel
<1>8. FirstCallIsFirst'
  BY DEF IInv, TypeOK, FirstCallIsFirst, ClientInput, thread, conns, requests, kernel
<1>9. QED BY <1>1, <1>2, <1>3, <1>4, <1>5, <1>6, <1>7, <1>8 DEF IInv

LEMMA ClientDisconnectedInv ==
  ASSUME IInv, NEW f \in Fds, ClientDisconnected(f)
  PROVE  IInv'
<1>1. TypeOK'
  BY IdleFacts, ConnAssumption, ZenonT(60) DEF IInv, TypeOK, ClientDisconnected, PeerAt, thread, conns, requests, kernel
<1>2. KernelInv'
  BY IdleFacts, ConnAssumption DEF IInv, TypeOK, KernelInv, ClientDisconnected, PeerAt, thread, conns, requests, kernel
<1>3. PassInv'
  BY IdleFacts, ConnAssumption DEF IInv, TypeOK, PassInv, ClientDisconnected, PeerAt, thread, conns, requests, kernel
<1>4. PlaceInv'
  <2>1. f \in watched /\ f \notin returned \cup input
    BY DEF IInv, PassInv, PlaceInv, ClientDisconnected
  <2>2. /\ watched' = watched \ {f} /\ UNCHANGED <<returned, input, work, sock>>
        /\ owner'[f] = None /\ \A g \in Fds \ {f} : owner'[g] = owner[g]
    BY DEF IInv, TypeOK, ClientDisconnected, conns, requests
  <2>3. \A d \in Clients : work[d] # "none" => sock[d] # f
    BY <2>1, BusyFacts
  <2>4. watched \cup returned \cup input \subseteq Fds
    BY DEF IInv, TypeOK
  <2>5. QED BY <2>1, <2>2, <2>3, <2>4 DEF IInv, PlaceInv
<1>5. ConnInv'
  BY IdleFacts, ConnAssumption DEF IInv, TypeOK, ConnInv, ClientDisconnected, PeerAt, thread, conns, requests, kernel
<1>6. LateInv'
  BY IdleFacts, ConnAssumption DEF IInv, TypeOK, LateInv, ClientDisconnected, PeerAt, thread, conns, requests, kernel
<1>7. DictInv'
  BY IdleFacts, ConnAssumption DEF IInv, TypeOK, DictInv, ClientDisconnected, PeerAt, thread, conns, requests, kernel
<1>8. FirstCallIsFirst'
  BY IdleFacts, ConnAssumption DEF IInv, TypeOK, FirstCallIsFirst, ClientDisconnected, PeerAt, thread, conns, requests, kernel
<1>9. QED BY <1>1, <1>2, <1>3, <1>4, <1>5, <1>6, <1>7, <1>8 DEF IInv

LEMMA DisconnectUnknownInv ==
  ASSUME IInv, NEW f \in Fds, DisconnectUnknown(f)
  PROVE  IInv'
<1>1. TypeOK'
  BY DEF IInv, TypeOK, DisconnectUnknown, thread, conns, requests, kernel
<1>2. KernelInv'
  BY DEF IInv, TypeOK, KernelInv, DisconnectUnknown, thread, conns, requests, kernel
<1>3. PassInv'
  BY DEF IInv, TypeOK, PassInv, DisconnectUnknown, thread, conns, requests, kernel
<1>4. PlaceInv'
  BY DEF IInv, TypeOK, PlaceInv, DisconnectUnknown, thread, conns, requests, kernel
<1>5. ConnInv'
  <2>1. UNCHANGED <<owner, sock, state, work, peer>> /\ disc' = disc \ {f}
    BY DEF DisconnectUnknown, kernel, conns, requests
  <2>2. ASSUME NEW c \in Clients, sock[c] = f
        PROVE  owner[sock[c]] = c
    <3>1. state[c] = "disc"
      <4>1. state[c] # "none"
        BY <2>2, ConnAssumption DEF IInv, ConnInv
      <4>2. dict[f] # c
        BY ConnAssumption DEF DisconnectUnknown
      <4>3. QED BY <2>2, <4>1, <4>2 DEF IInv, DictInv
    <3>2. work[c] # "none"
      BY <3>1 DEF IInv, ConnInv
    <3>3. QED BY <3>2, BusyFacts
  <2>3. QED BY <2>1, <2>2 DEF IInv, ConnInv
<1>6. LateInv'
  BY DEF IInv, TypeOK, LateInv, DisconnectUnknown, thread, conns, requests, kernel
<1>7. DictInv'
  BY DEF IInv, TypeOK, DictInv, DisconnectUnknown, thread, conns, requests, kernel
<1>8. FirstCallIsFirst'
  BY DEF IInv, TypeOK, FirstCallIsFirst, DisconnectUnknown, thread, conns, requests, kernel
<1>9. QED BY <1>1, <1>2, <1>3, <1>4, <1>5, <1>6, <1>7, <1>8 DEF IInv

LEMMA DisconnectKnownInv ==
  ASSUME IInv, NEW f \in Fds, DisconnectKnown(f)
  PROVE  IInv'
<1>a. PICK c \in Clients : c = dict[f]
  BY DEF IInv, TypeOK, DisconnectKnown
<1>b. /\ sock[c] = f /\ owner[f] = None /\ c # None
      /\ state[c] \notin {"none", "disc"} /\ f \notin watched \cup returned \cup input
  BY <1>a, ConnAssumption DEF IInv, DictInv, PassInv, PlaceInv, DisconnectKnown
<1>c. work[c] = "none" /\ \A g \in Fds : owner[g] # c
  <2>1. work[c] = "none"
    BY <1>b, BusyFacts DEF DisconnectKnown
  <2>2. QED BY <1>b, <2>1 DEF IInv, ConnInv
<1>d. /\ UNCHANGED <<owner, peer, watched, listening, todo, input, returned, work, kind, late>>
      /\ disc' = disc \ {f} /\ dict' = [dict EXCEPT ![f] = None]
      /\ login' = [login EXCEPT ![c] = FALSE]
      /\ state' = [state EXCEPT ![c] = "none"] /\ sock' = [sock EXCEPT ![c] = None]
  <2>1. owner' = owner
    BY <1>a, <1>b DEF DisconnectKnown, Discard, CloseFd, IInv, TypeOK
  <2>2. peer' = peer
    <3>1. peer' = [d \in Clients |-> IF owner[f] = d THEN "away" ELSE peer[d]]
      BY <1>a, <1>b DEF DisconnectKnown, Discard, CloseFd
    <3>2. \A d \in Clients : owner[f] # d
      BY <1>b, ConnAssumption
    <3>3. QED BY <3>1, <3>2 DEF IInv, TypeOK
  <2>3. QED BY <1>a, <1>b, <2>1, <2>2 DEF DisconnectKnown, Discard, Forget, requests
<1>e. \A d \in Clients \ {c} : sock[d] # f
  BY <1>a, <1>b, BusyFacts DEF IInv, ConnInv, DictInv
<1>f. peer[c] = "away"
  BY <1>b, ConnAssumption DEF IInv, ConnInv
<1>1. TypeOK'
  BY <1>a, <1>b, <1>c, <1>d, <1>e, <1>f DEF IInv, TypeOK
<1>2. KernelInv'
  BY <1>a, <1>b, <1>c, <1>d, <1>e, <1>f DEF IInv, TypeOK, KernelInv
<1>3. PassInv'
  BY <1>a, <1>b, <1>c, <1>d, <1>e, <1>f DEF IInv, TypeOK, PassInv
<1>4. PlaceInv'
  BY <1>a, <1>b, <1>c, <1>d, <1>e, <1>f DEF IInv, TypeOK, PlaceInv
<1>5. ConnInv'
  BY <1>a, <1>b, <1>c, <1>d, <1>e, <1>f DEF IInv, TypeOK, ConnInv
<1>6. LateInv'
  BY <1>a, <1>b, <1>c, <1>d, <1>e, <1>f DEF IInv, TypeOK, LateInv
<1>7. DictInv'
  BY <1>a, <1>b, <1>c, <1>d, <1>e, <1>f DEF IInv, TypeOK, DictInv
<1>8. FirstCallIsFirst'
  BY <1>a, <1>b, <1>c, <1>d, <1>e, <1>f DEF IInv, TypeOK, FirstCallIsFirst
<1>9. QED BY <1>1, <1>2, <1>3, <1>4, <1>5, <1>6, <1>7, <1>8 DEF IInv

LEMMA RefuseClientInv ==
  ASSUME IInv, NEW f \in Fds, RefuseClient(f)
  PROVE  IInv'
<1>1. TypeOK'
  BY IdleFacts, ConnAssumption DEF IInv, TypeOK, RefuseClient, Request, CloseFd, thread, conns, requests, kernel
<1>2. KernelInv'
  BY IdleFacts, ConnAssumption DEF IInv, TypeOK, KernelInv, RefuseClient, Request, CloseFd, thread, conns, requests, kernel
<1>3. PassInv'
  BY IdleFacts, ConnAssumption DEF IInv, TypeOK, PassInv, RefuseClient, Request, CloseFd, thread, conns, requests, kernel
<1>4. PlaceInv'
  BY IdleFacts, ConnAssumption DEF IInv, TypeOK, PlaceInv, RefuseClient, Request, CloseFd, thread, conns, requests, kernel
<1>5. ConnInv'
  BY IdleFacts, ConnAssumption DEF IInv, TypeOK, ConnInv, RefuseClient, Request, CloseFd, thread, conns, requests, kernel
<1>6. LateInv'
  BY IdleFacts, ConnAssumption DEF IInv, TypeOK, LateInv, RefuseClient, Request, CloseFd, thread, conns, requests, kernel
<1>7. DictInv'
  BY IdleFacts, ConnAssumption DEF IInv, TypeOK, DictInv, RefuseClient, Request, CloseFd, thread, conns, requests, kernel
<1>8. FirstCallIsFirst'
  BY IdleFacts, ConnAssumption DEF IInv, TypeOK, FirstCallIsFirst, RefuseClient, Request, CloseFd, thread, conns, requests, kernel
<1>9. QED BY <1>1, <1>2, <1>3, <1>4, <1>5, <1>6, <1>7, <1>8 DEF IInv

LEMMA NewClientInv ==
  ASSUME IInv, NEW f \in Fds, NewClient(f)
  PROVE  IInv'
<1>a. PICK c \in Clients : c = owner[f]
  BY IdleFacts DEF NewClient, Request
<1>b. PICK n \in Fds : n = NextFd
  BY NextFdFree
<1>c. /\ owner[n] = None /\ n # f /\ f \in input /\ c # None /\ owner[f] = c
      /\ work[c] = "none" /\ state[c] = "none" /\ sock[c] = None /\ c \notin late
      /\ peer[c] \in {"idle", "sent", "gone"} /\ \A g \in Fds : owner[g] = c => g = f
  <2>1. f \in input /\ dict[f] = None
    BY DEF NewClient, Request
  <2>2. owner[n] = None /\ owner[f] = c /\ c # None
    BY <1>a, <1>b, NextFdFree, ConnAssumption
  <2>3. work[c] = "none" /\ state[c] = "none" /\ c \notin late
    BY <1>a, <2>1, IdleFacts
  <2>4. peer[c] \in {"idle", "sent", "gone"} /\ \A g \in Fds : owner[g] = c => g = f
    BY <1>a, <2>1, IdleFacts
  <2>5. sock[c] = None
    BY <2>3 DEF IInv, ConnInv
  <2>6. QED BY <2>1, <2>2, <2>3, <2>4, <2>5
<1>d. /\ UNCHANGED <<peer, watched, listening, todo, disc, login, returned, kind, late>>
      /\ input' = input \ {f} /\ disc = {} /\ ~listening /\ todo = {}
      /\ owner' = [owner EXCEPT ![n] = c, ![f] = None]
      /\ dict' = [dict EXCEPT ![n] = c] /\ sock' = [sock EXCEPT ![c] = n]
      /\ work' = [work EXCEPT ![c] = "queued"]
      /\ state' = [state EXCEPT ![c] = IF login[c] THEN "call" ELSE "first"]
  BY <1>a, <1>b DEF NewClient, Request, NewFrame
<1>e. /\ n \notin watched \cup returned \cup input
      /\ f \notin watched \cup returned
      /\ \A d \in Clients \ {c} : sock[d] # n /\ sock[d] # f
  <2>1. n \notin watched \cup returned \cup input /\ f \notin watched \cup returned
    BY <1>c DEF IInv, PlaceInv
  <2>2. \A d \in Clients : sock[d] # None => owner[sock[d]] = d
    BY <1>d DEF IInv, ConnInv
  <2>3. f # None /\ n # None /\ None \notin Clients
    BY ConnAssumption
  <2>4. QED BY <1>c, <2>1, <2>2, <2>3
<1>f. state'[c] \in {"call", "first"} /\ work'[c] = "queued" /\ (login[c] = FALSE => state'[c] = "first")
  BY <1>d DEF IInv, TypeOK
<1>g. /\ owner'[n] = c /\ owner'[f] = None /\ \A g \in Fds \ {f, n} : owner'[g] = owner[g]
      /\ dict'[n] = c /\ \A g \in Fds \ {n} : dict'[g] = dict[g]
      /\ sock'[c] = n /\ \A d \in Clients \ {c} : sock'[d] = sock[d]
      /\ \A d \in Clients \ {c} : work'[d] = work[d] /\ state'[d] = state[d]
  BY <1>c, <1>d DEF IInv, TypeOK
<1>h. \A g \in Fds : dict[g] # c /\ (dict[g] # None => g # n /\ g # f)
  <2>1. \A g \in Fds : dict[g] # c
    BY <1>c, ConnAssumption DEF IInv, DictInv
  <2>2. \A g \in Fds : dict[g] # None => dict[g] \in Clients \ {c} /\ sock[dict[g]] = g
    BY <2>1 DEF IInv, DictInv, TypeOK
  <2>3. QED BY <1>e, <2>1, <2>2
<1>1. TypeOK'
  BY <1>c, <1>d DEF IInv, TypeOK
<1>2. KernelInv'
  BY <1>c, <1>e, <1>f, <1>g, <1>d DEF IInv, TypeOK, KernelInv
<1>3. PassInv'
  BY <1>c, <1>e, <1>f, <1>g, <1>d DEF IInv, TypeOK, PassInv
<1>4. PlaceInv'
  <2>1. watched \cup returned \cup input \subseteq Fds
    BY DEF IInv, TypeOK
  <2>2. \A g \in watched \cup returned \cup input' :
           g # f /\ g # n /\ owner[g] # c /\ owner[g] \in Clients
    BY <1>c, <1>d, <1>e, <2>1, IdleFacts
  <2>3. \A g \in watched' \cup returned' \cup input' : owner'[g] # None /\ work'[owner'[g]] = "none"
    <3>1. ASSUME NEW g \in watched' \cup returned' \cup input'
          PROVE  owner'[g] # None /\ work'[owner'[g]] = "none"
      <4>1. g \in watched \cup returned \cup input /\ g \in watched \cup returned \cup input'
        BY <1>d
      <4>2. owner'[g] = owner[g] /\ work'[owner[g]] = work[owner[g]]
        BY <1>g, <2>1, <2>2, <4>1
      <4>3. QED BY <4>1, <4>2 DEF IInv, PlaceInv
    <3>2. QED BY <3>1
  <2>4. \A g \in Fds : owner'[g] # None =>
           g \in watched' \cup returned' \cup input' \/ work'[owner'[g]] # "none"
    BY <1>c, <1>d, <1>f, <1>g DEF IInv, PlaceInv, TypeOK
  <2>5. \A d \in Clients : work'[d] # "none" => sock'[d] \in Fds /\ owner'[sock'[d]] = d
    BY <1>c, <1>e, <1>g DEF IInv, PlaceInv
  <2>6. QED BY <1>d, <2>3, <2>4, <2>5 DEF IInv, PlaceInv
<1>5. ConnInv'
  <2>1. ASSUME NEW d \in Clients \ {c}
        PROVE  /\ state'[d] = "none" <=> sock'[d] = None
               /\ state'[d] = "none" => work'[d] = "none"
               /\ state'[d] = "disc" <=> work'[d] = "closing"
               /\ sock'[d] # None => owner'[sock'[d]] = d \/ (sock'[d] \in disc' /\ peer'[d] = "away")
               /\ \A g \in Fds : owner'[g] = d /\ state'[d] # "none" => sock'[d] = g
               /\ peer'[d] = "knocking" => state'[d] = "none"
    <3>1. sock[d] # None => sock[d] \in Fds \ {f, n}
      BY <1>e DEF IInv, TypeOK
    <3>2. d # None
      BY ConnAssumption
    <3>3. sock'[d] = sock[d] /\ state'[d] = state[d] /\ work'[d] = work[d] /\ peer'[d] = peer[d]
          /\ disc' = disc
      BY <1>d, <1>g
    <3>4. sock'[d] # None => owner'[sock'[d]] = owner[sock[d]]
      BY <1>g, <3>1, <3>3
    <3>5. \A g \in Fds : owner'[g] = d => owner[g] = d
      BY <1>g, <2>1, <3>2
    <3>6. QED BY <3>3, <3>4, <3>5 DEF IInv, ConnInv
  <2>2. n # None
    BY ConnAssumption
  <2>3. \A g \in Fds : owner'[g] = c => g = n
    BY <1>c, <1>g
  <2>4. /\ state'[c] = "none" <=> sock'[c] = None
        /\ state'[c] = "none" => work'[c] = "none"
        /\ state'[c] = "disc" <=> work'[c] = "closing"
        /\ owner'[sock'[c]] = c
        /\ \A g \in Fds : owner'[g] = c /\ state'[c] # "none" => sock'[c] = g
        /\ peer'[c] = "knocking" => state'[c] = "none"
    BY <1>c, <1>d, <1>f, <1>g, <2>2, <2>3
  <2>5. QED BY <2>1, <2>4 DEF ConnInv
<1>6. LateInv'
  BY <1>c, <1>e, <1>f, <1>g, <1>d DEF IInv, TypeOK, LateInv
<1>7. DictInv'
  BY <1>c, <1>e, <1>f, <1>g, <1>h DEF IInv, TypeOK, DictInv
<1>8. FirstCallIsFirst'
  BY <1>c, <1>e, <1>f, <1>g, <1>d DEF IInv, TypeOK, FirstCallIsFirst
<1>9. QED BY <1>1, <1>2, <1>3, <1>4, <1>5, <1>6, <1>7, <1>8 DEF IInv

LEMMA RefuseRequestInv ==
  ASSUME IInv, NEW f \in Fds, RefuseRequest(f)
  PROVE  IInv'
<1>1. TypeOK'
  BY IdleFacts, ConnAssumption DEF IInv, TypeOK, RefuseRequest, Request, Discard, Forget, CloseFd, thread, conns, requests, kernel
<1>2. KernelInv'
  BY IdleFacts, ConnAssumption DEF IInv, TypeOK, KernelInv, RefuseRequest, Request, Discard, Forget, CloseFd, thread, conns, requests, kernel
<1>3. PassInv'
  BY IdleFacts, ConnAssumption DEF IInv, TypeOK, PassInv, RefuseRequest, Request, Discard, Forget, CloseFd, thread, conns, requests, kernel
<1>4. PlaceInv'
  BY IdleFacts, ConnAssumption DEF IInv, TypeOK, PlaceInv, RefuseRequest, Request, Discard, Forget, CloseFd, thread, conns, requests, kernel
<1>5. ConnInv'
  BY IdleFacts, ConnAssumption DEF IInv, TypeOK, ConnInv, RefuseRequest, Request, Discard, Forget, CloseFd, thread, conns, requests, kernel
<1>6. LateInv'
  BY IdleFacts, ConnAssumption DEF IInv, TypeOK, LateInv, RefuseRequest, Request, Discard, Forget, CloseFd, thread, conns, requests, kernel
<1>7. DictInv'
  BY IdleFacts, ConnAssumption DEF IInv, TypeOK, DictInv, RefuseRequest, Request, Discard, Forget, CloseFd, thread, conns, requests, kernel
<1>8. FirstCallIsFirst'
  BY IdleFacts, ConnAssumption DEF IInv, TypeOK, FirstCallIsFirst, RefuseRequest, Request, Discard, Forget, CloseFd, thread, conns, requests, kernel
<1>9. QED BY <1>1, <1>2, <1>3, <1>4, <1>5, <1>6, <1>7, <1>8 DEF IInv

LEMMA NewRequestInv ==
  ASSUME IInv, NEW f \in Fds, NewRequest(f)
  PROVE  IInv'
<1>1. TypeOK'
  BY IdleFacts, ConnAssumption DEF IInv, TypeOK, NewRequest, Request, NewFrame, thread, conns, requests, kernel
<1>2. KernelInv'
  BY IdleFacts, ConnAssumption DEF IInv, TypeOK, KernelInv, NewRequest, Request, NewFrame, thread, conns, requests, kernel
<1>3. PassInv'
  BY IdleFacts, ConnAssumption DEF IInv, TypeOK, PassInv, NewRequest, Request, NewFrame, thread, conns, requests, kernel
<1>4. PlaceInv'
  BY IdleFacts, ConnAssumption DEF IInv, TypeOK, PlaceInv, NewRequest, Request, NewFrame, thread, conns, requests, kernel
<1>5. ConnInv'
  BY IdleFacts, ConnAssumption DEF IInv, TypeOK, ConnInv, NewRequest, Request, NewFrame, thread, conns, requests, kernel
<1>6. LateInv'
  BY IdleFacts, ConnAssumption DEF IInv, TypeOK, LateInv, NewRequest, Request, NewFrame, thread, conns, requests, kernel
<1>7. DictInv'
  BY IdleFacts, ConnAssumption DEF IInv, TypeOK, DictInv, NewRequest, Request, NewFrame, thread, conns, requests, kernel
<1>8. FirstCallIsFirst'
  BY IdleFacts, ConnAssumption DEF IInv, TypeOK, FirstCallIsFirst, NewRequest, Request, NewFrame, thread, conns, requests, kernel
<1>9. QED BY <1>1, <1>2, <1>3, <1>4, <1>5, <1>6, <1>7, <1>8 DEF IInv

-----------------------------------------------------------------------------
(* The threads of the pools *)

\* A thread's step changes one client, and reads of it at most.
OnlyClient(c) ==
  /\ owner' = owner
  /\ peer' = peer \/ (peer[c] = "sent" /\ peer' = [peer EXCEPT ![c] = "idle"])
  /\ UNCHANGED <<watched, thread, sock>>
  /\ \A d \in Clients \ {c} : work'[d] = work[d] /\ state'[d] = state[d] /\ login'[d] = login[d]

\* The client is put on the queue of those to poll again.
LEMMA Returns ==
  ASSUME IInv, TypeOK', NEW c \in Clients, work[c] \in {"queued", "routing", "waiting"},
         OnlyClient(c), work'[c] = "none", state'[c] = "wait", UNCHANGED dict,
         returned' = returned \cup {sock[c]}, late' \subseteq late \cup {c}
  PROVE  IInv'
<1>1. TypeOK'
  OBVIOUS
<1>2. KernelInv'
  BY BusyFacts DEF IInv, TypeOK, KernelInv, OnlyClient
<1>3. PassInv'
  BY DEF IInv, PassInv, OnlyClient, thread
<1>4. PlaceInv'
  BY BusyFacts DEF IInv, TypeOK, PlaceInv, OnlyClient, thread
<1>5. ConnInv'
  BY BusyFacts DEF IInv, TypeOK, ConnInv, OnlyClient, thread
<1>6. LateInv'
  BY BusyFacts DEF IInv, TypeOK, LateInv, OnlyClient, thread
<1>7. DictInv'
  BY BusyFacts DEF IInv, TypeOK, DictInv, OnlyClient, thread
<1>8. FirstCallIsFirst'
  BY BusyFacts DEF IInv, TypeOK, FirstCallIsFirst, OnlyClient, thread
<1>9. QED BY <1>1, <1>2, <1>3, <1>4, <1>5, <1>6, <1>7, <1>8 DEF IInv

\* The client is removed from the dictionary.
LEMMA Disconnects ==
  ASSUME IInv, TypeOK', NEW c \in Clients, work[c] \in {"queued", "routing", "waiting"},
         OnlyClient(c), work'[c] = "closing", state'[c] = "disc",
         dict' = [dict EXCEPT ![sock[c]] = None], UNCHANGED <<returned, late>>
  PROVE  IInv'
<1>1. TypeOK'
  OBVIOUS
<1>2. KernelInv'
  BY BusyFacts DEF IInv, TypeOK, KernelInv, OnlyClient
<1>3. PassInv'
  BY DEF IInv, PassInv, OnlyClient, thread
<1>4. PlaceInv'
  BY BusyFacts DEF IInv, TypeOK, PlaceInv, OnlyClient, thread
<1>5. ConnInv'
  BY BusyFacts DEF IInv, TypeOK, ConnInv, OnlyClient, thread
<1>6. LateInv'
  BY BusyFacts DEF IInv, TypeOK, LateInv, OnlyClient, thread
<1>7. DictInv'
  BY BusyFacts DEF IInv, TypeOK, DictInv, OnlyClient, thread
<1>8. FirstCallIsFirst'
  BY BusyFacts DEF IInv, TypeOK, FirstCallIsFirst, OnlyClient, thread
<1>9. QED BY <1>1, <1>2, <1>3, <1>4, <1>5, <1>6, <1>7, <1>8 DEF IInv

\* The request goes from one pool to the next, or is lost.
LEMMA Proceeds ==
  ASSUME IInv, TypeOK', NEW c \in Clients, work[c] \in {"queued", "routing"},
         OnlyClient(c), UNCHANGED <<dict, returned, late, login>>,
         \/ work'[c] = "routing" /\ state' = state
         \/ work'[c] \in {"waiting", "lost"} /\ state'[c] \in {"call", "regproc"}
  PROVE  IInv'
<1>1. TypeOK'
  OBVIOUS
<1>2. KernelInv'
  BY BusyFacts DEF IInv, TypeOK, KernelInv, OnlyClient
<1>3. PassInv'
  BY DEF IInv, PassInv, OnlyClient, thread
<1>4. PlaceInv'
  BY BusyFacts DEF IInv, TypeOK, PlaceInv, OnlyClient, thread
<1>5. ConnInv'
  BY BusyFacts DEF IInv, TypeOK, ConnInv, OnlyClient, thread
<1>6. LateInv'
  BY BusyFacts DEF IInv, TypeOK, LateInv, OnlyClient, thread
<1>7. DictInv'
  BY BusyFacts DEF IInv, TypeOK, DictInv, OnlyClient, thread
<1>8. FirstCallIsFirst'
  BY BusyFacts DEF IInv, TypeOK, FirstCallIsFirst, OnlyClient, thread
<1>9. QED BY <1>1, <1>2, <1>3, <1>4, <1>5, <1>6, <1>7, <1>8 DEF IInv

LEMMA ThreadFailsInv ==
  ASSUME IInv, NEW c \in Clients, ThreadFails(c)
  PROVE  IInv'
<1>1. work[c] \in {"queued", "routing", "waiting"}
  BY DEF ThreadFails
<1>2. TypeOK'
  BY <1>1, BusyFacts DEF IInv, TypeOK, ThreadFails, Return, NoFrame, Elsewhere, thread, kernel
<1>3. OnlyClient(c) /\ UNCHANGED dict /\ late' \subseteq late \cup {c}
  BY DEF IInv, TypeOK, ThreadFails, Return, NoFrame, Elsewhere, OnlyClient, kernel
<1>4. work'[c] = "none" /\ state'[c] = "wait" /\ returned' = returned \cup {sock[c]}
  BY DEF IInv, TypeOK, ThreadFails, Return, NoFrame
<1>5. QED BY <1>1, <1>2, <1>3, <1>4, Returns

LEMMA ParseErrorInv ==
  ASSUME IInv, NEW c \in Clients, ParseError(c)
  PROVE  IInv'
<1>1. work[c] \in {"queued", "routing", "waiting"}
  BY DEF ParseError
<1>2. TypeOK'
  BY <1>1, BusyFacts DEF IInv, TypeOK, ParseError, Return, NoFrame, Elsewhere, thread, kernel
<1>3. OnlyClient(c) /\ UNCHANGED dict /\ late' \subseteq late \cup {c}
  BY DEF IInv, TypeOK, ParseError, Return, NoFrame, Elsewhere, OnlyClient, kernel
<1>4. work'[c] = "none" /\ state'[c] = "wait" /\ returned' = returned \cup {sock[c]}
  BY DEF IInv, TypeOK, ParseError, Return, NoFrame
<1>5. QED BY <1>1, <1>2, <1>3, <1>4, Returns

LEMMA RejectAndReturnInv ==
  ASSUME IInv, NEW c \in Clients, RejectAndReturn(c)
  PROVE  IInv'
<1>1. work[c] \in {"queued", "routing", "waiting"}
  BY DEF RejectAndReturn
<1>2. TypeOK'
  BY <1>1, BusyFacts DEF IInv, TypeOK, RejectAndReturn, Return, NoFrame, Elsewhere, thread, kernel
<1>3. OnlyClient(c) /\ UNCHANGED dict /\ late' \subseteq late \cup {c}
  BY DEF IInv, TypeOK, RejectAndReturn, Return, NoFrame, Elsewhere, OnlyClient, kernel
<1>4. work'[c] = "none" /\ state'[c] = "wait" /\ returned' = returned \cup {sock[c]}
  BY DEF IInv, TypeOK, RejectAndReturn, Return, NoFrame
<1>5. QED BY <1>1, <1>2, <1>3, <1>4, Returns

LEMMA AnsweredInv ==
  ASSUME IInv, NEW c \in Clients, Answered(c)
  PROVE  IInv'
<1>1. work[c] \in {"queued", "routing", "waiting"}
  BY DEF Answered
<1>2. TypeOK'
  BY <1>1, BusyFacts DEF IInv, TypeOK, Answered, Return, NoFrame, Elsewhere, LoggedIn, thread, kernel
<1>3. OnlyClient(c) /\ UNCHANGED dict /\ late' \subseteq late \cup {c}
  BY DEF IInv, TypeOK, Answered, Return, NoFrame, Elsewhere, LoggedIn, OnlyClient, kernel
<1>4. work'[c] = "none" /\ state'[c] = "wait" /\ returned' = returned \cup {sock[c]}
  BY DEF IInv, TypeOK, Answered, Return, NoFrame
<1>5. QED BY <1>1, <1>2, <1>3, <1>4, Returns

LEMMA RecoveredInv ==
  ASSUME IInv, NEW c \in Clients, Recovered(c)
  PROVE  IInv'
<1>1. work[c] \in {"queued", "routing", "waiting"}
  BY DEF Recovered
<1>2. TypeOK'
  <2>1. login' \in [Clients -> BOOLEAN]
    <3>1. login \in [Clients -> BOOLEAN] /\ LoggedIn(c) \in [Clients -> BOOLEAN]
      BY DEF IInv, TypeOK, LoggedIn
    <3>2. login' = login \/ login' = LoggedIn(c)
      BY DEF Recovered
    <3>3. QED BY <3>1, <3>2
  <2>2. late' \subseteq Clients /\ UNCHANGED <<kernel, dict, watched, thread, sock>>
    BY DEF IInv, TypeOK, Recovered, Elsewhere
  <2>3. returned' \subseteq Fds
    BY <1>1, BusyFacts DEF IInv, TypeOK, Recovered, Return
  <2>4. QED BY <2>1, <2>2, <2>3 DEF IInv, TypeOK, Recovered, Return, NoFrame, thread, kernel
<1>3. OnlyClient(c) /\ UNCHANGED dict /\ late' \subseteq late \cup {c}
  BY DEF IInv, TypeOK, Recovered, Return, NoFrame, Elsewhere, LoggedIn, OnlyClient, kernel
<1>4. work'[c] = "none" /\ state'[c] = "wait" /\ returned' = returned \cup {sock[c]}
  BY DEF IInv, TypeOK, Recovered, Return, NoFrame
<1>5. QED BY <1>1, <1>2, <1>3, <1>4, Returns

LEMMA EndOfStreamInv ==
  ASSUME IInv, NEW c \in Clients, EndOfStream(c)
  PROVE  IInv'
<1>1. work[c] \in {"queued", "routing", "waiting"}
  BY DEF EndOfStream
<1>2. TypeOK'
  BY <1>1, BusyFacts DEF IInv, TypeOK, EndOfStream, Disconnect, Forget, Elsewhere, thread, kernel
<1>3. OnlyClient(c) /\ UNCHANGED <<returned, late>>
  BY DEF IInv, TypeOK, EndOfStream, Disconnect, Forget, Elsewhere, OnlyClient, kernel
<1>4. work'[c] = "closing" /\ state'[c] = "disc" /\ dict' = [dict EXCEPT ![sock[c]] = None]
  BY DEF IInv, TypeOK, EndOfStream, Disconnect, Forget
<1>5. QED BY <1>1, <1>2, <1>3, <1>4, Disconnects

LEMMA RejectAndCloseInv ==
  ASSUME IInv, NEW c \in Clients, RejectAndClose(c)
  PROVE  IInv'
<1>1. work[c] \in {"queued", "routing", "waiting"}
  BY DEF RejectAndClose
<1>2. TypeOK'
  BY <1>1, BusyFacts DEF IInv, TypeOK, RejectAndClose, Disconnect, Forget, Elsewhere, thread, kernel
<1>3. OnlyClient(c) /\ UNCHANGED <<returned, late>>
  BY DEF IInv, TypeOK, RejectAndClose, Disconnect, Forget, Elsewhere, OnlyClient, kernel
<1>4. work'[c] = "closing" /\ state'[c] = "disc" /\ dict' = [dict EXCEPT ![sock[c]] = None]
  BY DEF IInv, TypeOK, RejectAndClose, Disconnect, Forget
<1>5. QED BY <1>1, <1>2, <1>3, <1>4, Disconnects

LEMMA FailAndCloseInv ==
  ASSUME IInv, NEW c \in Clients, FailAndClose(c)
  PROVE  IInv'
<1>1. work[c] \in {"queued", "routing", "waiting"}
  BY DEF FailAndClose
<1>2. TypeOK'
  BY <1>1, BusyFacts DEF IInv, TypeOK, FailAndClose, Disconnect, Forget, Elsewhere, thread, kernel
<1>3. OnlyClient(c) /\ UNCHANGED <<returned, late>>
  BY DEF IInv, TypeOK, FailAndClose, Disconnect, Forget, Elsewhere, OnlyClient, kernel
<1>4. work'[c] = "closing" /\ state'[c] = "disc" /\ dict' = [dict EXCEPT ![sock[c]] = None]
  BY DEF IInv, TypeOK, FailAndClose, Disconnect, Forget
<1>5. QED BY <1>1, <1>2, <1>3, <1>4, Disconnects

LEMMA ParseCallInv ==
  ASSUME IInv, NEW c \in Clients, NEW k \in Kinds, ParseCall(c, k)
  PROVE  IInv'
<1>1. work[c] \in {"queued", "routing"} /\ UNCHANGED <<dict, returned, late, login, state>>
  BY DEF ParseCall, Stage, conns
<1>2. TypeOK' /\ work'[c] = "routing"
  BY DEF IInv, TypeOK, ParseCall, Stage, thread, conns
<1>3. OnlyClient(c)
  BY DEF IInv, TypeOK, ParseCall, Stage, OnlyClient, conns
<1>4. QED BY <1>1, <1>2, <1>3, Proceeds

LEMMA RejectFailsInv ==
  ASSUME IInv, NEW c \in Clients, RejectFails(c)
  PROVE  IInv'
<1>1. work[c] \in {"queued", "routing"} /\ UNCHANGED <<dict, returned, late, login>>
  BY DEF RejectFails, Stage
<1>2. TypeOK' /\ work'[c] \in {"waiting", "lost"} /\ state'[c] \in {"call", "regproc"}
  BY DEF IInv, TypeOK, RejectFails, Stage, Elsewhere, thread, kernel
<1>3. OnlyClient(c)
  BY DEF IInv, TypeOK, RejectFails, Stage, Elsewhere, OnlyClient, kernel
<1>4. QED BY <1>1, <1>2, <1>3, Proceeds

LEMMA QueueInv ==
  ASSUME IInv, NEW c \in Clients, Queue(c)
  PROVE  IInv'
<1>1. work[c] \in {"queued", "routing"} /\ UNCHANGED <<dict, returned, late, login>>
  BY DEF Queue, Stage
<1>2. TypeOK' /\ work'[c] \in {"waiting", "lost"} /\ state'[c] \in {"call", "regproc"}
  BY DEF IInv, TypeOK, Queue, Stage, Elsewhere, thread, kernel
<1>3. OnlyClient(c)
  BY DEF IInv, TypeOK, Queue, Stage, Elsewhere, OnlyClient, kernel
<1>4. QED BY <1>1, <1>2, <1>3, Proceeds

LEMMA CloseSocketInv ==
  ASSUME IInv, NEW c \in Clients, CloseSocket(c)
  PROVE  IInv'
<1>1. TypeOK'
  BY BusyFacts, ConnAssumption DEF IInv, TypeOK, CloseSocket, NoFrame, CloseFd, thread
<1>2. KernelInv'
  BY BusyFacts, ConnAssumption DEF IInv, TypeOK, KernelInv, CloseSocket, NoFrame, CloseFd, thread
<1>3. PassInv'
  BY BusyFacts, ConnAssumption DEF IInv, TypeOK, PassInv, CloseSocket, NoFrame, CloseFd, thread
<1>4. PlaceInv'
  BY BusyFacts, ConnAssumption DEF IInv, TypeOK, PlaceInv, CloseSocket, NoFrame, CloseFd, thread
<1>5. ConnInv'
  BY BusyFacts, ConnAssumption DEF IInv, TypeOK, ConnInv, CloseSocket, NoFrame, CloseFd, thread
<1>6. LateInv'
  BY BusyFacts, ConnAssumption DEF IInv, TypeOK, LateInv, CloseSocket, NoFrame, CloseFd, thread
<1>7. DictInv'
  <2>1. state[c] = "disc" /\ \A f \in Fds : dict[f] # c
    <3>1. state[c] = "disc"
      BY DEF IInv, ConnInv, CloseSocket
    <3>2. QED BY <3>1, ConnAssumption DEF IInv, DictInv
  <2>2. /\ dict' = dict /\ state'[c] = "none"
        /\ \A d \in Clients \ {c} : state'[d] = state[d] /\ sock'[d] = sock[d]
    BY DEF IInv, TypeOK, CloseSocket
  <2>3. \A f \in Fds : dict[f] # None => dict[f] \in Clients \ {c}
    BY <2>1 DEF IInv, TypeOK
  <2>4. QED BY <2>1, <2>2, <2>3 DEF IInv, DictInv
<1>8. FirstCallIsFirst'
  BY BusyFacts, ConnAssumption DEF IInv, TypeOK, FirstCallIsFirst, CloseSocket, NoFrame, CloseFd, thread
<1>9. QED BY <1>1, <1>2, <1>3, <1>4, <1>5, <1>6, <1>7, <1>8 DEF IInv

LEMMA LateStateInv ==
  ASSUME IInv, NEW c \in Clients, LateState(c)
  PROVE  IInv'
<1>1. TypeOK'
  BY DEF IInv, TypeOK, LateState, thread, kernel
<1>2. KernelInv'
  BY DEF IInv, TypeOK, KernelInv, LateState, thread, kernel
<1>3. PassInv'
  BY DEF IInv, TypeOK, PassInv, LateState, thread, kernel
<1>4. PlaceInv'
  BY DEF IInv, TypeOK, PlaceInv, LateState, thread, kernel
<1>5. ConnInv'
  BY DEF IInv, TypeOK, ConnInv, LateState, thread, kernel
<1>6. LateInv'
  BY DEF IInv, TypeOK, LateInv, LateState, thread, kernel
<1>7. DictInv'
  BY DEF IInv, TypeOK, DictInv, LateState, thread, kernel
<1>8. FirstCallIsFirst'
  <2>1. work[c] \in {"queued", "routing"} => login[c]
    BY DEF IInv, LateInv, LateState
  <2>2. UNCHANGED <<work, login>> /\ \A d \in Clients \ {c} : state'[d] = state[d]
    BY DEF IInv, TypeOK, LateState
  <2>3. QED BY <2>1, <2>2 DEF IInv, FirstCallIsFirst
<1>9. QED BY <1>1, <1>2, <1>3, <1>4, <1>5, <1>6, <1>7, <1>8 DEF IInv

-----------------------------------------------------------------------------
(* The invariant *)

LEMMA InitInv ==
  ASSUME Init
  PROVE  IInv
<1>1. TypeOK
  BY DEF Init, TypeOK
<1>2. KernelInv /\ PassInv /\ PlaceInv /\ LateInv
  BY DEF Init, KernelInv, PassInv, PlaceInv, LateInv
<1>3. ConnInv /\ DictInv /\ FirstCallIsFirst
  BY DEF Init, ConnInv, DictInv, FirstCallIsFirst
<1>4. QED BY <1>1, <1>2, <1>3 DEF IInv

LEMMA NextInv ==
  ASSUME IInv, [Next]_vars
  PROVE  IInv'
<1>1. CASE PollThread
  BY <1>1, PollReturnsInv, AcceptInv, AddBackInv, ClientInputInv, ClientDisconnectedInv,
     DisconnectKnownInv, DisconnectUnknownInv, RefuseClientInv, NewClientInv,
     RefuseRequestInv, NewRequestInv DEF PollThread
<1>2. CASE \E c \in Clients : Peer(c)
  BY <1>2, ConnectsInv, SendsInv, HangsUpInv DEF Peer
<1>3. CASE \E c \in Clients : Progress(c)
  BY <1>3, ParseCallInv, ParseErrorInv, EndOfStreamInv, RejectAndCloseInv, RejectFailsInv,
     RejectAndReturnInv, QueueInv, AnsweredInv, RecoveredInv, FailAndCloseInv,
     CloseSocketInv DEF Progress
<1>4. CASE \E c \in Clients : ThreadFails(c) \/ LateState(c)
  BY <1>4, ThreadFailsInv, LateStateInv
<1>5. CASE UNCHANGED vars
  <2>1. TypeOK' /\ KernelInv' /\ PassInv'
    BY <1>5 DEF IInv, TypeOK, KernelInv, PassInv, vars, kernel, thread, conns, requests
  <2>2. PlaceInv'
    BY <1>5 DEF IInv, PlaceInv, vars, kernel, thread, conns, requests
  <2>3. ConnInv'
    BY <1>5 DEF IInv, ConnInv, vars, kernel, thread, conns, requests
  <2>4. LateInv' /\ DictInv' /\ FirstCallIsFirst'
    BY <1>5 DEF IInv, LateInv, DictInv, FirstCallIsFirst, vars, kernel, thread, conns, requests
  <2>5. QED BY <2>1, <2>2, <2>3, <2>4 DEF IInv
<1>6. QED BY <1>1, <1>2, <1>3, <1>4, <1>5 DEF Next

LEMMA AlwaysInv == Spec => []IInv
<1>1. Init => IInv
  BY InitInv
<1>2. IInv /\ [Next]_vars => IInv'
  BY NextInv
<1>3. QED BY <1>1, <1>2, PTL DEF Spec

-----------------------------------------------------------------------------
(* The invariants of the runs *)

\* Every variable of the connections keeps its type, for any number of clients.
THEOREM ConnsTyped == Spec => []TypeOK
<1>1. IInv => TypeOK
  BY DEF IInv
<1>2. QED BY <1>1, AlwaysInv, PTL

LEMMA InvInOnePlace ==
  ASSUME IInv
  PROVE  InOnePlace
<1> DEFINE handled == {sock[c] : c \in Busy}
<1>1. \A c \in Busy : sock[c] \in Fds /\ owner[sock[c]] = c /\ c # None
  BY BusyFacts DEF Busy
<1>2. handled \cap (watched \cup returned \cup input) = {}
  BY BusyFacts DEF Busy
<1>3. watched \cup returned \cup input \cup handled \subseteq Open
  BY <1>1 DEF IInv, TypeOK, PlaceInv, Open
<1>4. ASSUME NEW f \in Open
      PROVE  f \in watched \cup returned \cup input \cup handled
  <2>1. f \in Fds /\ owner[f] \in Clients
    BY DEF Open, IInv, TypeOK
  <2>2. CASE work[owner[f]] # "none"
    <3>1. owner[f] \in Busy /\ sock[owner[f]] = f
      BY <2>1, <2>2, BusyFacts DEF Busy
    <3>2. QED BY <3>1
  <2>3. CASE work[owner[f]] = "none"
    BY <2>1, <2>3 DEF IInv, PlaceInv, Open
  <2>4. QED BY <2>2, <2>3
<1>5. watched \cup returned \cup input \cup handled = Open
  BY <1>3, <1>4
<1>6. /\ watched \cap (returned \cup input \cup handled) = {}
      /\ returned \cap (input \cup handled) = {} /\ input \cap handled = {}
  BY <1>2 DEF IInv, PlaceInv
<1>7. todo \subseteq watched
  BY DEF IInv, PassInv
<1>8. QED BY <1>1, <1>5, <1>6, <1>7 DEF InOnePlace

\* Each open number is polled, or reported, or in the hands of one thread, or
\* waits to be polled again: one of these, whatever the clients and the threads do.
THEOREM OnePlace == Spec => []InOnePlace
<1>1. IInv => InOnePlace
  BY InvInOnePlace
<1>2. QED BY <1>1, AlwaysInv, PTL

LEMMA InvDictIsTrue ==
  ASSUME IInv
  PROVE  DictIsTrue
<1>1. \A f \in Fds : dict[f] # None => dict[f] \in Live /\ sock[dict[f]] = f
  BY DEF IInv, TypeOK, DictInv, Live
<1>2. \A c \in Live : sock[c] # None /\ dict[sock[c]] = c
  BY ConnAssumption DEF IInv, DictInv, Live
<1>3. QED BY <1>1, <1>2 DEF DictIsTrue

\* The dictionary of connections has a number exactly while it is that of the
\* connection, although the kernel gives out a number as soon as it is closed.
THEOREM DictTrue == Spec => []DictIsTrue
<1>1. IInv => DictIsTrue
  BY InvDictIsTrue
<1>2. QED BY <1>1, AlwaysInv, PTL

\* Nobody changes the state of a client between its first input and its login,
\* not even an exception handler that is late.
THEOREM FirstCall == Spec => []FirstCallIsFirst
<1>1. IInv => FirstCallIsFirst
  BY DEF IInv
<1>2. QED BY <1>1, AlwaysInv, PTL

-----------------------------------------------------------------------------
(* Steps *)

\* When a connection ends its number is its own, or nobody's: no client loses its
\* connection because another one ends, although numbers are used again.
THEOREM ClosesOnlyItsOwn == Spec => ClosesNobodyElse
<1>1. ASSUME IInv, [Next]_vars, NEW c \in Clients, sock[c] # None, sock'[c] = None
      PROVE  owner[sock[c]] \in {c, None}
  <2>1. Next
    BY <1>1 DEF vars, conns
  <2>2. sock[c] \in Fds
    BY <1>1 DEF IInv, TypeOK
  <2>3. QED BY <1>1, <2>2, ConnAssumption DEF IInv, ConnInv, PassInv
<1>2. IInv /\ [Next]_vars =>
        [\A c \in Clients : sock[c] # None /\ sock'[c] = None => owner[sock[c]] \in {c, None}]_vars
  BY <1>1
<1>3. QED BY <1>2, AlwaysInv, PTL DEF Spec, ClosesNobodyElse

-----------------------------------------------------------------------------
(* The poll table, as the gateway uses it *)

\* A step that neither opens nor closes a number, nor polls one, is a stutter.
Stutter == owner' = owner /\ watched' = watched

LEMMA StutterSteps ==
  ASSUME IInv, Stutter
  PROVE  UNCHANGED Table!pvars
BY DEF Stutter, Table!pvars, Open

\* The numbers that are not polled.
LEMMA HeldFacts ==
  ASSUME IInv
  PROVE  /\ watched \subseteq Open /\ Open \subseteq Fds
         /\ returned \cup input \subseteq Open \ watched
         /\ \A c \in Clients : work[c] # "none" => sock[c] \in Open \ watched
         /\ NextFd \in Fds \ Open
<1>1. watched \subseteq Open /\ returned \cup input \subseteq Open \ watched
  BY DEF IInv, TypeOK, PlaceInv, Open
<1>2. \A c \in Clients : work[c] # "none" => sock[c] \in Open \ watched
  BY BusyFacts DEF Open
<1>3. NextFd \in Fds \ Open
  BY NextFdFree DEF Open
<1>4. QED BY <1>1, <1>2, <1>3 DEF Open

\* close() of an open number that is not polled.
LEMMA CloseStep ==
  ASSUME IInv, NEW f \in Open \ watched, CloseFd(f), watched' = watched
  PROVE  Table!PNext
<1>1. f \in Fds /\ Open' = Open \ {f}
  BY DEF CloseFd, Open, IInv, TypeOK
<1>2. Table!Close(f)
  BY <1>1 DEF Table!Close
<1>3. QED BY <1>1, <1>2 DEF Table!PNext

LEMMA PollThreadSteps ==
  ASSUME IInv, PollThread
  PROVE  [Table!PNext]_(Table!pvars)
<1>1. ASSUME PollReturns
      PROVE  Stutter
  BY <1>1 DEF PollReturns, Stutter, kernel
<1>2. ASSUME NEW c \in Clients, Accept(c)
      PROVE  Table!PNext
  <2>1. PICK n \in Fds : n = NextFd /\ n \notin Open
    BY HeldFacts
  <2>2. Open' = Open \cup {n} /\ watched' = watched \cup {n}
    BY <1>2, <2>1, ConnAssumption DEF Accept, Open, IInv, TypeOK
  <2>3. Table!Accept(n)
    BY <2>1, <2>2, HeldFacts DEF Table!Accept
  <2>4. QED BY <2>3 DEF Table!PNext
<1>3. ASSUME NEW f \in Fds, AddBack(f)
      PROVE  Table!PNext
  <2>1. f \in Open \ watched /\ Open' = Open /\ watched' = watched \cup {f}
    BY <1>3, HeldFacts DEF AddBack, Open, kernel
  <2>2. Table!Return(f)
    BY <2>1 DEF Table!Return
  <2>3. QED BY <2>2 DEF Table!PNext
<1>4. ASSUME NEW f \in Fds, ClientInput(f)
      PROVE  Table!PNext
  <2>1. f \in watched /\ f \in Open /\ Open' = Open /\ watched' = watched \ {f}
    BY <1>4, HeldFacts DEF ClientInput, Open, IInv, PassInv, kernel
  <2>2. Table!Report(f)
    BY <2>1 DEF Table!Report
  <2>3. QED BY <2>2 DEF Table!PNext
<1>5. ASSUME NEW f \in Fds, ClientDisconnected(f)
      PROVE  Table!PNext
  <2>1. f \in watched /\ Open' = Open \ {f} /\ watched' = watched \ {f}
    BY <1>5 DEF ClientDisconnected, Open, IInv, TypeOK, PassInv
  <2>2. Table!Disconnect(f)
    BY <2>1 DEF Table!Disconnect
  <2>3. QED BY <2>2 DEF Table!PNext
<1>6. ASSUME NEW f \in Fds, DisconnectKnown(f)
      PROVE  Stutter
  <2>1. f \in disc /\ dict[f] # None /\ CloseFd(sock[dict[f]]) /\ watched' = watched
    BY <1>6 DEF DisconnectKnown, Discard
  <2>2. sock[dict[f]] = f /\ owner[f] = None
    BY <2>1 DEF IInv, DictInv, PassInv
  <2>3. owner' = owner
    BY <2>1, <2>2 DEF CloseFd, IInv, TypeOK
  <2>4. QED BY <2>1, <2>3 DEF Stutter
<1>7. ASSUME NEW f \in Fds, DisconnectUnknown(f) \/ NewRequest(f)
      PROVE  Stutter
  BY <1>7 DEF DisconnectUnknown, NewRequest, Stutter, kernel
<1>8. ASSUME NEW f \in Fds, RefuseClient(f) \/ RefuseRequest(f)
      PROVE  Table!PNext
  <2>1. f \in Open \ watched
    BY <1>8, HeldFacts DEF RefuseClient, RefuseRequest, Request
  <2>2. CloseFd(f) /\ watched' = watched
    BY <1>8 DEF RefuseClient, RefuseRequest, Discard, IInv, DictInv
  <2>3. QED BY <2>1, <2>2, CloseStep
<1>9. ASSUME NEW f \in Fds, NewClient(f)
      PROVE  Table!PNext
  <2>1. PICK n \in Fds : n = NextFd /\ n \notin Open
    BY HeldFacts
  <2>2. f \in Open \ watched /\ n # f
    BY <1>9, <2>1, HeldFacts DEF NewClient, Request
  <2>3. owner[f] # None /\ watched' = watched /\ owner' = [owner EXCEPT ![n] = owner[f], ![f] = None]
    BY <1>9, <2>1, <2>2 DEF NewClient, Open
  <2>4. Open' = (Open \ {f}) \cup {n}
    BY <2>1, <2>2, <2>3 DEF Open, IInv, TypeOK
  <2>5. Table!Move(f, n)
    BY <2>1, <2>2, <2>3, <2>4, HeldFacts DEF Table!Move
  <2>6. QED BY <2>5 DEF Table!PNext
<1>10. QED
  BY <1>1, <1>2, <1>3, <1>4, <1>5, <1>6, <1>7, <1>8, <1>9, StutterSteps DEF PollThread

LEMMA OtherSteps ==
  ASSUME IInv, NEW c \in Clients, Peer(c) \/ Progress(c) \/ ThreadFails(c) \/ LateState(c)
  PROVE  [Table!PNext]_(Table!pvars)
<1>1. CASE CloseSocket(c)
  BY <1>1, HeldFacts, CloseStep DEF CloseSocket
<1>2. ASSUME Peer(c) \/ ThreadFails(c) \/ LateState(c)
      PROVE  Stutter
  BY <1>2 DEF Peer, Connects, Sends, HangsUp, ThreadFails, LateState, Elsewhere, Stutter, kernel
<1>3. ASSUME NEW k \in Kinds, ParseCall(c, k)
      PROVE  Stutter
  BY <1>3 DEF ParseCall, Stutter
<1>4. ASSUME \/ ParseError(c) \/ EndOfStream(c) \/ RejectAndClose(c) \/ RejectFails(c)
             \/ RejectAndReturn(c) \/ Queue(c) \/ Answered(c) \/ Recovered(c) \/ FailAndClose(c)
      PROVE  Stutter
  BY <1>4 DEF ParseError, EndOfStream, RejectAndClose, RejectFails, RejectAndReturn, Queue,
     Answered, Recovered, FailAndClose, Elsewhere, Stutter, kernel
<1>5. QED BY <1>1, <1>2, <1>3, <1>4, StutterSteps DEF Progress

\* The gateway treats the numbers as the poll table assumes, for any number of
\* clients: what it returns, moves or closes was reported and not returned since.
THEOREM UsesPollSet == Spec => RespectsPollSet
<1>1. Init => Table!PInit
  BY DEF Init, Table!PInit, Open
<1>2. ASSUME IInv, [Next]_vars
      PROVE  [Table!PNext]_(Table!pvars)
  <2>1. CASE UNCHANGED vars
    BY <1>2, <2>1, StutterSteps DEF Stutter, vars, kernel
  <2>2. CASE Next
    BY <1>2, <2>2, PollThreadSteps, OtherSteps DEF Next
  <2>3. QED BY <1>2, <2>1, <2>2
<1>3. QED BY <1>1, <1>2, AlwaysInv, PTL DEF Spec, RespectsPollSet, Table!PSpec
=============================================================================
