------------------------------ MODULE PollTable ------------------------------
(***************************************************************************)
(* The poll table of the gateway (src/xmltp/gx_poll.c): the sockets of the *)
(* idle clients, polled by one thread.                                     *)
(*                                                                         *)
(* Slot 0 is the listening socket.  pollClients() puts back the sockets    *)
(* the gateway has done with, polls, and passes over the table: it accepts *)
(* one connection, takes the sockets with an event out of the table and    *)
(* reports them; a disconnected one it also closes.  getPollTab()          *)
(* compresses a table with many free slots.  Only the poll thread calls    *)
(* these functions; the peers, and the gateway's threads that handle the   *)
(* reported sockets, run at the same time.                                 *)
(*                                                                         *)
(* Out of memory in a Python list is not modelled.                         *)
(***************************************************************************)
EXTENDS Naturals, FiniteSets

CONSTANTS Fds,          \* socket numbers the process may have for clients
          TableSize,    \* POLLFD_TABLE_SZ
          Slack,        \* free slots that getPollTab() tolerates
          MaxBacklog,   \* LISTEN_QUEUE_LEN
          Master, None

ASSUME TableAssumption ==
  /\ IsFiniteSet(Fds)
  /\ TableSize \in Nat /\ TableSize > 2
  /\ Slack \in Nat /\ MaxBacklog \in Nat
  /\ Master \notin Fds /\ None \notin Fds /\ Master # None

VARIABLES
  fdAt,       \* slot -> s_poll_tab[].fd
  revents,    \* slot -> s_poll_tab[].revents
  high,       \* s_high_ctr_poll_fd_used
  firstFree,  \* s_position_first_fd_free
  peer,       \* socket -> its state in the kernel, "closed" if not in use
  backlog,    \* connections that wait for an accept()
  pc, i,      \* control point of the poll thread and index of its pass
  todo,       \* rest of the addList
  input,      \* the inputList built so far
  failed,     \* is the last answer an error, a string or rc <= -1?
  held,       \* sockets the gateway handles
  returned    \* queueOfClientsToReturnToPollList

table == <<fdAt, revents, high, firstFree>>
kernel == <<peer, backlog>>
gateway == <<held, returned>>
vars == <<table, kernel, pc, i, todo, input, failed, gateway>>

-----------------------------------------------------------------------------
Slots == 0..(TableSize - 1)

Min2(a, b) == IF a < b THEN a ELSE b

FreeIn(low, top) == {s \in low..(top - 1) : fdAt[s] = None}

Used == {s \in 1..(high - 1) : fdAt[s] # None}

Init ==
  /\ fdAt = [s \in Slots |-> IF s = 0 THEN Master ELSE None]
  /\ revents = [s \in Slots |-> "none"]
  /\ high = 1 /\ firstFree = 1
  /\ peer = [f \in Fds |-> "closed"] /\ backlog = 0
  /\ pc = "idle" /\ i = 0
  /\ todo = {} /\ input = {} /\ failed = FALSE
  /\ held = {} /\ returned = {}

-----------------------------------------------------------------------------
(* Slots. *)

\* The free slots sf_reuse_old_poll_fd looks at: from the guessed position on,
\* then, if there is none, those before.
Reusable ==
  IF firstFree >= high THEN {}
  ELSE IF FreeIn(firstFree, high) # {} THEN FreeIn(firstFree, high)
  ELSE FreeIn(1, firstFree)

\* Without a slot to reuse, the guess is that there is none.
GuessNone == IF firstFree < high THEN high ELSE firstFree

Reuse(f) ==
  \E s \in Reusable :
    /\ \A r \in Reusable : s <= r
    /\ fdAt' = [fdAt EXCEPT ![s] = f]
    /\ revents' = [revents EXCEPT ![s] = "none"]
    /\ firstFree' = s + 1
    /\ UNCHANGED high

\* Mutant: off by one.
MutCanCreate == high < TableSize

CanCreate == high + 1 < TableSize

\* The revents of a new slot are not set.
Create(f) ==
  /\ Reusable = {} /\ CanCreate
  /\ fdAt' = [fdAt EXCEPT ![high] = f]
  /\ high' = high + 1
  /\ firstFree' = GuessNone
  /\ UNCHANGED revents

AddToPollTab(f) == Reuse(f) \/ Create(f)

NoSlot ==
  /\ Reusable = {} /\ ~CanCreate
  /\ firstFree' = GuessNone
  /\ UNCHANGED <<fdAt, revents, high>>

\* Mutant: the master socket is not counted.
MutCompress ==
  \E n \in 0..(high - 1) : \E from \in [1..n -> Used] :
    /\ \A s, t \in 1..n : s < t => from[s] < from[t]
    /\ \A u \in Used : \E s \in 1..n : from[s] = u
    /\ fdAt' = [s \in Slots |-> IF s = 0 THEN Master
                                ELSE IF s \in 1..n THEN fdAt[from[s]] ELSE None]
    /\ revents' = [s \in Slots |-> IF s \in 1..n THEN revents[from[s]] ELSE revents[s]]
    /\ high' = IF n = 0 THEN 1 ELSE n
    /\ firstFree' = high'

\* The used entries move to the first slots, in order.  The slots behind them keep
\* what they held: their fd is set again before it is read, their revents may not.
Compress ==
  \E n \in 0..(high - 1) : \E from \in [1..n -> Used] :
    /\ \A s, t \in 1..n : s < t => from[s] < from[t]
    /\ \A u \in Used : \E s \in 1..n : from[s] = u
    /\ fdAt' = [s \in Slots |-> IF s = 0 THEN Master
                            ELSE IF s \in 1..n THEN fdAt[from[s]] ELSE None]
    /\ revents' = [s \in Slots |-> IF s \in 1..n THEN revents[from[s]] ELSE revents[s]]
    /\ high' = n + 1
    /\ firstFree' = n + 1

-----------------------------------------------------------------------------
(* pollClients(timeout, addList). *)

PollClients ==
  /\ pc = "idle"
  /\ todo' = returned /\ returned' = {}
  /\ pc' = "add"
  /\ UNCHANGED <<table, kernel, i, input, failed, held>>

AddBack(f) ==
  /\ pc = "add" /\ f \in todo
  /\ AddToPollTab(f)
  /\ todo' = todo \ {f}
  /\ UNCHANGED <<kernel, pc, i, input, failed, gateway>>

\* The table is full: the rest of the list is not looked at.
AddRefused(f) ==
  /\ pc = "add" /\ f \in todo
  /\ NoSlot
  /\ todo' = {}
  /\ pc' = "idle" /\ failed' = TRUE
  /\ UNCHANGED <<kernel, i, input, gateway>>

Ready(s) ==
  CASE fdAt[s] = None -> "none"
    [] fdAt[s] = Master -> IF backlog > 0 THEN "in" ELSE "none"
    [] fdAt[s] \in Fds -> IF peer[fdAt[s]] \in {"in", "hup"} THEN peer[fdAt[s]] ELSE "none"

Polled == [s \in Slots |-> IF s < high THEN Ready(s) ELSE revents[s]]

PollTimeout ==
  /\ pc = "add" /\ todo = {}
  /\ \A s \in 0..(high - 1) : Ready(s) = "none"
  /\ revents' = Polled
  /\ pc' = "idle" /\ failed' = FALSE
  /\ UNCHANGED <<fdAt, high, firstFree, kernel, i, todo, input, gateway>>

PollEvents ==
  /\ pc = "add" /\ todo = {}
  /\ \E s \in 0..(high - 1) : Ready(s) # "none"
  /\ revents' = Polled
  /\ pc' = "pass"
  /\ UNCHANGED <<fdAt, high, firstFree, kernel, i, todo, input, failed, gateway>>

\* poll() fails: a signal interrupts it.  (Too many slots for the process, EINVAL,
\* cannot be the reason: see NoSlotWasted.)
PollInterrupted ==
  /\ pc = "add" /\ todo = {}
  /\ pc' = "idle" /\ failed' = TRUE
  /\ UNCHANGED <<table, kernel, i, todo, input, gateway>>

Next1 == i' = i + 1 /\ UNCHANGED <<pc, todo, failed, gateway>>

NoEvent ==
  /\ pc = "pass" /\ i < high /\ revents[i] = "none"
  /\ Next1
  /\ UNCHANGED <<table, kernel, input>>

\* accept() gives the new connection any number not in use.
AcceptConnection(f) ==
  /\ pc = "pass" /\ i = 0 /\ revents[0] = "in"
  /\ peer[f] = "closed" /\ backlog > 0
  /\ AddToPollTab(f)
  /\ peer' = [peer EXCEPT ![f] = "quiet"] /\ backlog' = backlog - 1
  /\ Next1 /\ UNCHANGED input

\* Mutant: rc is reset before the answer is built.
MutCutPass ==
  /\ pc' = "idle" /\ failed' = FALSE
  /\ held' = held \cup input /\ input' = {} /\ i' = 0
  /\ UNCHANGED <<todo, returned>>

\* The pass stops at the first error; the answer's rc is -1.
CutPass ==
  /\ pc' = "idle" /\ failed' = TRUE
  /\ held' = held \cup input /\ input' = {} /\ i' = 0
  /\ UNCHANGED <<todo, returned>>

\* No slot for the new connection: it is closed at once.
AcceptNoSlot ==
  /\ pc = "pass" /\ i = 0 /\ revents[0] = "in"
  /\ backlog > 0 /\ \E f \in Fds : peer[f] = "closed"
  /\ NoSlot
  /\ backlog' = backlog - 1
  /\ CutPass /\ UNCHANGED peer

\* accept() fails: the process has no number left.
AcceptFails ==
  /\ pc = "pass" /\ i = 0 /\ revents[0] = "in"
  /\ \A f \in Fds : peer[f] # "closed"
  /\ CutPass /\ UNCHANGED <<table, kernel>>

\* Mutant: the guess is not corrected.
MutTakeOut ==
  /\ fdAt' = [fdAt EXCEPT ![i] = None]
  /\ UNCHANGED <<revents, high, firstFree>>

TakeOut ==
  /\ fdAt' = [fdAt EXCEPT ![i] = None]
  /\ firstFree' = Min2(i, firstFree)
  /\ UNCHANGED <<revents, high>>

\* Mutant: the socket stays in the table while the gateway handles it.
MutClientInput ==
  /\ pc = "pass" /\ i > 0 /\ i < high /\ revents[i] = "in"
  /\ input' = input \cup {fdAt[i]}
  /\ Next1 /\ UNCHANGED <<table, kernel>>

ClientInput ==
  /\ pc = "pass" /\ i > 0 /\ i < high /\ revents[i] = "in"
  /\ input' = input \cup {fdAt[i]}
  /\ TakeOut /\ Next1 /\ UNCHANGED kernel

\* The number is free for the next accept() before the gateway hears of it.
ClientDisconnected ==
  /\ pc = "pass" /\ i > 0 /\ i < high /\ revents[i] = "hup"
  /\ peer' = [peer EXCEPT ![fdAt[i]] = "closed"]
  /\ TakeOut /\ Next1 /\ UNCHANGED <<backlog, input>>

EndOfPass ==
  /\ pc = "pass" /\ i >= high
  /\ pc' = "idle" /\ failed' = FALSE
  /\ held' = held \cup input /\ input' = {} /\ i' = 0
  /\ UNCHANGED <<table, kernel, todo, returned>>

\* getPollTab(): the poll thread calls it between two polls.  A slot counts as
\* active if it has a socket or if its last event is still noted.
GetPollTab ==
  /\ pc = "idle"
  /\ high > Cardinality({s \in 0..(high - 1) : fdAt[s] # None \/ revents[s] # "none"}) + Slack
  /\ Compress
  /\ UNCHANGED <<kernel, pc, i, todo, input, failed, gateway>>

-----------------------------------------------------------------------------
(* The gateway's other threads and the peers. *)

Elsewhere == UNCHANGED <<table, pc, i, todo, input, failed>>

GatewayReads(f) ==
  /\ f \in held /\ peer[f] = "in"
  /\ peer' = [peer EXCEPT ![f] = "quiet"]
  /\ Elsewhere /\ UNCHANGED <<backlog, gateway>>

GatewayReturns(f) ==
  /\ f \in held
  /\ held' = held \ {f} /\ returned' = returned \cup {f}
  /\ Elsewhere /\ UNCHANGED kernel

GatewayCloses(f) ==
  /\ f \in held
  /\ held' = held \ {f}
  /\ peer' = [peer EXCEPT ![f] = "closed"]
  /\ Elsewhere /\ UNCHANGED <<backlog, returned>>

\* A new client's connection goes on under the number of a duplicate.
GatewayMoves(f, g) ==
  /\ f \in held /\ peer[g] = "closed"
  /\ held' = (held \ {f}) \cup {g}
  /\ peer' = [peer EXCEPT ![f] = "closed", ![g] = peer[f]]
  /\ Elsewhere /\ UNCHANGED <<backlog, returned>>

PeerConnects ==
  /\ backlog < MaxBacklog
  /\ backlog' = backlog + 1
  /\ Elsewhere /\ UNCHANGED <<peer, gateway>>

PeerSends(f) ==
  /\ peer[f] = "quiet"
  /\ peer' = [peer EXCEPT ![f] = "in"]
  /\ Elsewhere /\ UNCHANGED <<backlog, gateway>>

PeerHangsUp(f) ==
  /\ peer[f] \in {"quiet", "in"}
  /\ peer' = [peer EXCEPT ![f] = "hup"]
  /\ Elsewhere /\ UNCHANGED <<backlog, gateway>>

-----------------------------------------------------------------------------
PollStep ==
  \/ PollClients \/ PollTimeout \/ PollEvents \/ PollInterrupted
  \/ NoEvent \/ AcceptNoSlot \/ AcceptFails \/ ClientInput \/ ClientDisconnected
  \/ EndOfPass
  \/ \E f \in Fds : AddBack(f) \/ AddRefused(f) \/ AcceptConnection(f)

Next ==
  \/ PollStep \/ GetPollTab \/ PeerConnects
  \/ \E f \in Fds : \/ GatewayReads(f) \/ GatewayReturns(f) \/ GatewayCloses(f)
                    \/ PeerSends(f) \/ PeerHangsUp(f)
  \/ \E f, g \in Fds : GatewayMoves(f, g)

Spec == Init /\ [][Next]_vars

\* The poll thread loops as long as the gateway runs, and poll() returns within
\* its timeout.  Nothing is assumed of the peers and of the gateway's other
\* threads.
FairSpec == Spec /\ WF_vars(PollStep)

\* Besides, signals do not interrupt poll() every time.
QuietSpec == FairSpec /\ SF_vars(PollTimeout \/ PollEvents)

-----------------------------------------------------------------------------
(* Properties. *)

Watched == {fdAt[s] : s \in Used}

TypeOK ==
  /\ fdAt \in [Slots -> Fds \cup {Master, None}]
  /\ revents \in [Slots -> {"none", "in", "hup"}]
  /\ high \in 1..(TableSize - 1) /\ firstFree \in 1..high
  /\ peer \in [Fds -> {"closed", "quiet", "in", "hup"}]
  /\ backlog \in 0..MaxBacklog
  /\ pc \in {"idle", "add", "pass"} /\ i \in 0..(TableSize - 1)
  /\ todo \subseteq Fds /\ input \subseteq Fds
  /\ failed \in BOOLEAN
  /\ held \subseteq Fds /\ returned \subseteq Fds

\* A polled socket is in one slot, open, and in nobody else's hands: two slots
\* would report one request twice and two workers would read from one socket.
WatchedOnce ==
  /\ \A s, t \in Used : fdAt[s] = fdAt[t] => s = t
  /\ \A s \in Used : fdAt[s] \in Fds
  /\ \A f \in Watched : peer[f] # "closed" /\ f \notin held \cup returned \cup todo \cup input

\* The table grows, or a socket is refused, only when every slot is in use,
\* although the position of the first free slot is only a guess.
NoSlotWasted ==
  [][\/ high' > high
     \/ pc = "add" /\ pc' = "idle" /\ todo # {}
     \/ pc = "pass" /\ pc' = "idle" /\ backlog' < backlog
       => FreeIn(1, high) = {}]_vars

\* A client that has sent something, or has hung up, does not stay in the table
\* for ever: it is reported, or pollClients() answers with an error.  Events are
\* not passed over in silence, whatever the slot.
InputReportedOrError ==
  \A f \in Fds : []<>(f \notin Watched \/ peer[f] = "quiet" \/ failed)

\* A client that has sent something is reported.
InputReported == \A f \in Fds : f \in Watched /\ peer[f] = "in" ~> f \notin Watched

\* A socket is reported readable, or disconnected and closed, only if the kernel
\* has said so of that socket.
EventsAreReal ==
  [][/\ \A f \in input' \ input : peer[f] # "quiet"
     /\ \A f \in Watched : peer'[f] = "closed" => peer[f] = "hup"]_vars

-----------------------------------------------------------------------------
(* The inductive invariant of the proofs. *)

\* The sockets the gateway has in hand, or is handed over.
InHand == held \cup returned \cup todo \cup input

HandInv ==
  /\ \A f \in InHand : peer[f] # "closed"
  /\ held \cap (returned \cup todo \cup input) = {}
  /\ returned \cap (todo \cup input) = {}
  /\ pc # "add" => todo = {}
  /\ pc # "pass" => input = {}

\* The guess of the first free slot is never too high.
GuessInv == \A s \in 1..(firstFree - 1) : fdAt[s] # None

\* In the rest of a pass there is a socket where there is an event.
PassInv ==
  /\ fdAt[0] = Master
  /\ pc # "pass" => i = 0
  /\ pc = "pass" =>
       \A s \in Slots : i <= s /\ s < high /\ revents[s] # "none" => fdAt[s] # None

IInv == TypeOK /\ WatchedOnce /\ HandInv /\ GuessInv /\ PassInv

-----------------------------------------------------------------------------
(* The poll table implements what it promises. *)

Abstract == INSTANCE PollSet
  WITH Capacity  <- TableSize - 2,
       watched   <- Watched,
       held      <- InHand,
       forgotten <- {f \in Fds : peer[f] # "closed"} \ (Watched \cup InHand)

\* Every behaviour of the table is one of the set's: reuse, growth and compression
\* of slots never lose, duplicate or resurrect a socket.
ImplementsPollSet == Abstract!PSpec
=============================================================================
