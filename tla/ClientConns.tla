----------------------------- MODULE ClientConns -----------------------------
(***************************************************************************)
(* The client connections of the gateway, from accept() to close().        *)
(*                                                                         *)
(* The poll thread (gxserver.py) polls the numbers of the idle clients,    *)
(* looks up the connection of each number that has an event, and gives it  *)
(* a request frame.  A call parser's thread reads the call and routes it   *)
(* (gxcallparser.py); a thread of a resource pool executes it              *)
(* (gxrpcmonitors.py) and puts the number on the queue of those to poll    *)
(* again, or disconnects the client (gxclientconn.py).  No lock protects a *)
(* connection: a number is a token, held by one thread at a time.          *)
(*                                                                         *)
(* The poll table is the set that PollSet specifies, without the spurious  *)
(* events and the refusals shown of PollTable.  The pools are queues: see  *)
(* ResPool for what they do inside.  The gateway is not being stopped.     *)
(***************************************************************************)
EXTENDS Naturals, FiniteSetsExt

CONSTANTS Clients,     \* peers; each connects again after its connection ends
          Fds,         \* socket numbers of the process
          MaxSockets,  \* max_clients_sockets
          None

\* Numbers do not run out: PollTable shows what happens if they do.
ASSUME ConnAssumption ==
  /\ IsFiniteSet(Clients) /\ IsFiniteSet(Fds) /\ Fds \subseteq Nat
  /\ Cardinality(Fds) > Cardinality(Clients)
  /\ MaxSockets \in Nat
  /\ None \notin Clients \cup Fds

VARIABLES
  owner,     \* number -> client whose connection the kernel has there
  peer,      \* client -> its end of the connection
  watched,   \* numbers in the poll table
  listening, \* has the listening socket an event in this pass?
  todo,      \* numbers with an event that this pass has not handled
  disc,      \* list of the numbers that have disconnected
  input,     \* list of the numbers with input
  dict,      \* dictSdToClientConn: number -> client, None
  state,     \* client -> state of its gxClientConn, "none" if it has none
  login,     \* client -> has its gxClientConn a userid?
  sock,      \* client -> number of its gxClientConn's socket
  returned,  \* queueOfClientsToReturnToPollList
  work,      \* client -> stage of the request in progress
  kind,      \* client -> kind of that request
  late       \* clients to which a thread will assign a state after it returned them

kernel == <<owner, peer>>
thread == <<listening, todo, disc, input>>
conns == <<dict, state, login, sock>>
requests == <<work, kind, late>>
vars == <<kernel, watched, thread, conns, returned, requests>>

-----------------------------------------------------------------------------
\* Calls to forward, registered procedures, and logins of ordinary users.  Admin
\* users log in with a registered procedure: the only one before a login.
Kinds == {"rpc", "regproc", "login"}

\* open() and its kin return the lowest number not in use.
NextFd == Min({f \in Fds : owner[f] = None})

\* The end of the connection at a number; a number that is closed has none.
PeerAt(f) == IF owner[f] = None THEN "gone" ELSE peer[owner[f]]

Init ==
  /\ owner = [f \in Fds |-> None] /\ peer = [c \in Clients |-> "away"]
  /\ watched = {} /\ listening = FALSE
  /\ todo = {} /\ disc = {} /\ input = {}
  /\ dict = [f \in Fds |-> None]
  /\ state = [c \in Clients |-> "none"] /\ login = [c \in Clients |-> FALSE]
  /\ sock = [c \in Clients |-> None]
  /\ returned = {}
  /\ work = [c \in Clients |-> "none"] /\ kind = [c \in Clients |-> None]
  /\ late = {}

-----------------------------------------------------------------------------
(* The peers.  A client may hang up at any time; what it sent before counts *)
(* only if it is read before.                                               *)

\* A client that an exception handler still refers to is told apart from the one
\* that connects: the latter has a gxClientConn of its own.
Connects(c) ==
  /\ peer[c] = "away" /\ state[c] = "none" /\ c \notin late
  /\ peer' = [peer EXCEPT ![c] = "knocking"]
  /\ UNCHANGED <<owner, watched, thread, conns, returned, requests>>

Sends(c) ==
  /\ peer[c] = "idle"
  /\ peer' = [peer EXCEPT ![c] = "sent"]
  /\ UNCHANGED <<owner, watched, thread, conns, returned, requests>>

HangsUp(c) ==
  /\ peer[c] \in {"idle", "sent"}
  /\ peer' = [peer EXCEPT ![c] = "gone"]
  /\ UNCHANGED <<owner, watched, thread, conns, returned, requests>>

-----------------------------------------------------------------------------
(* The poll thread. *)

\* Mutant: the disconnected numbers wait for the next pass.
MutNoEventLeft == ~listening /\ todo = {} /\ input = {}

\* The thread is done with the events of the last pass.
NoEventLeft == ~listening /\ todo = {} /\ disc = {} /\ input = {}

AddBack(f) ==
  /\ NoEventLeft /\ f \in returned
  /\ watched' = watched \cup {f} /\ returned' = returned \ {f}
  /\ UNCHANGED <<kernel, thread, conns, requests>>

\* A number returned since the queue was found empty waits for the next poll.
PollReturns ==
  /\ NoEventLeft /\ returned = {}
  /\ todo' = {f \in watched : PeerAt(f) \in {"sent", "gone"}}
  /\ listening' = (\E c \in Clients : peer[c] = "knocking")
  /\ UNCHANGED <<kernel, watched, disc, input, conns, returned, requests>>

\* Mutant: the return code is stored, not the number.
MutAccept(c) ==
  /\ listening /\ peer[c] = "knocking"
  /\ owner' = [owner EXCEPT ![NextFd] = c]
  /\ peer' = [peer EXCEPT ![c] = "idle"]
  /\ watched' = watched \cup {0}
  /\ listening' = FALSE
  /\ UNCHANGED <<todo, disc, input, conns, returned, requests>>

\* The listening socket has the first slot.
Accept(c) ==
  /\ listening /\ peer[c] = "knocking"
  /\ owner' = [owner EXCEPT ![NextFd] = c]
  /\ peer' = [peer EXCEPT ![c] = "idle"]
  /\ watched' = watched \cup {NextFd}
  /\ listening' = FALSE
  /\ UNCHANGED <<todo, disc, input, conns, returned, requests>>

\* Mutant: the number stays in the table while it is handled.
MutClientInput(f) ==
  /\ ~listening /\ f \in todo
  /\ input' = input \cup {f}
  /\ todo' = todo \ {f}
  /\ UNCHANGED <<kernel, watched, listening, disc, conns, returned, requests>>

\* The end of the stream is also reported as input.
ClientInput(f) ==
  /\ ~listening /\ f \in todo
  /\ watched' = watched \ {f} /\ input' = input \cup {f}
  /\ todo' = todo \ {f}
  /\ UNCHANGED <<kernel, listening, disc, conns, returned, requests>>

\* The table closes the number before the gateway hears of it.
ClientDisconnected(f) ==
  /\ ~listening /\ f \in todo /\ PeerAt(f) = "gone"
  /\ watched' = watched \ {f} /\ disc' = disc \cup {f}
  /\ owner' = [owner EXCEPT ![f] = None]
  /\ peer' = [peer EXCEPT ![owner[f]] = "away"]
  /\ todo' = todo \ {f}
  /\ UNCHANGED <<listening, input, conns, returned, requests>>

\* close() of a number, by whoever: the peer, if there is one, sees the end.
CloseFd(f) ==
  /\ owner' = [owner EXCEPT ![f] = None]
  /\ peer' = [c \in Clients |-> IF owner[f] = c THEN "away" ELSE peer[c]]

\* processDisconnect(), up to the close().
Forget(c) ==
  /\ dict' = [dict EXCEPT ![sock[c]] = None]
  /\ login' = [login EXCEPT ![c] = FALSE]

\* processDisconnect() of the poll thread.
Discard(c) ==
  /\ Forget(c) /\ CloseFd(sock[c])
  /\ state' = [state EXCEPT ![c] = "none"] /\ sock' = [sock EXCEPT ![c] = None]

DisconnectKnown(f) ==
  /\ ~listening /\ todo = {} /\ f \in disc /\ dict[f] # None
  /\ Discard(dict[f])
  /\ disc' = disc \ {f}
  /\ UNCHANGED <<watched, listening, todo, input, returned, requests>>

\* The client left before its first input.
DisconnectUnknown(f) ==
  /\ ~listening /\ todo = {} /\ f \in disc /\ dict[f] = None
  /\ disc' = disc \ {f}
  /\ UNCHANGED <<kernel, watched, listening, todo, input, conns, returned, requests>>

-----------------------------------------------------------------------------
(* addClientRequestToCallParserQueue(). *)

\* Mutant: the input comes first.
MutRequest(f) ==
  /\ ~listening /\ todo = {} /\ f \in input
  /\ input' = input \ {f}

\* The disconnected numbers come first.
Request(f) ==
  /\ ~listening /\ todo = {} /\ disc = {} /\ f \in input
  /\ input' = input \ {f}

\* assignRPCframe() and the call parsers' queue.
NewFrame(c) ==
  /\ work' = [work EXCEPT ![c] = "queued"]
  /\ state' = [state EXCEPT ![c] = IF login[c] THEN "call" ELSE "first"]

\* Too many clients, or a socket option that cannot be set any more.
RefuseClient(f) ==
  /\ Request(f) /\ dict[f] = None
  /\ \/ Cardinality({g \in Fds : dict[g] # None}) >= MaxSockets
     \/ PeerAt(f) = "gone"
  /\ CloseFd(f)
  /\ UNCHANGED <<watched, listening, todo, disc, conns, returned, requests>>

\* Mutant: the original is not closed.
MutNewClient(f) ==
  /\ Request(f) /\ dict[f] = None
  /\ Cardinality({g \in Fds : dict[g] # None}) < MaxSockets
  /\ LET c == owner[f]
         n == NextFd
     IN  /\ owner' = [owner EXCEPT ![n] = c]
         /\ dict' = [dict EXCEPT ![n] = c] /\ sock' = [sock EXCEPT ![c] = n]
         /\ NewFrame(c)
  /\ UNCHANGED <<peer, watched, listening, todo, disc, login, returned, kind, late>>

\* The connection moves to the number of a duplicate.
NewClient(f) ==
  /\ Request(f) /\ dict[f] = None
  /\ Cardinality({g \in Fds : dict[g] # None}) < MaxSockets
  /\ LET c == owner[f]
         n == NextFd
     IN  /\ owner' = [owner EXCEPT ![n] = c, ![f] = None]
         /\ dict' = [dict EXCEPT ![n] = c] /\ sock' = [sock EXCEPT ![c] = n]
         /\ NewFrame(c)
  /\ UNCHANGED <<peer, watched, listening, todo, disc, login, returned, kind, late>>

\* Mutant: the request is ignored.
MutRefuseRequest(f) ==
  /\ Request(f) /\ dict[f] # None /\ ~login[dict[f]]
  /\ UNCHANGED <<kernel, conns, watched, listening, todo, disc, returned, requests>>

\* A second request is refused if the first was no login.
RefuseRequest(f) ==
  /\ Request(f) /\ dict[f] # None /\ ~login[dict[f]]
  /\ Discard(dict[f])
  /\ UNCHANGED <<watched, listening, todo, disc, returned, requests>>

\* Mutant: a client without a login is let in.
MutNewRequest(f) ==
  /\ Request(f) /\ dict[f] # None
  /\ NewFrame(dict[f])
  /\ UNCHANGED <<kernel, watched, listening, todo, disc, dict, login, sock, returned, kind, late>>

NewRequest(f) ==
  /\ Request(f) /\ dict[f] # None /\ login[dict[f]]
  /\ NewFrame(dict[f])
  /\ UNCHANGED <<kernel, watched, listening, todo, disc, dict, login, sock, returned, kind, late>>

-----------------------------------------------------------------------------
(* The threads of the pools. *)

Stage(c, from, to) == work[c] = from /\ work' = [work EXCEPT ![c] = to]

NoFrame(c) ==
  /\ work' = [work EXCEPT ![c] = "none"] /\ kind' = [kind EXCEPT ![c] = None]

\* rpcEndedReturnConnToPollList(): the last thing a thread does with a client,
\* but for the exception handler, see LateState.
Return(c) ==
  /\ NoFrame(c)
  /\ state' = [state EXCEPT ![c] = "wait"]
  /\ returned' = returned \cup {sock[c]}

\* processDisconnect() of a pool's thread takes two steps: other threads run
\* between the removal from the dictionary and the close().
Disconnect(c) ==
  /\ work' = [work EXCEPT ![c] = "closing"]
  /\ state' = [state EXCEPT ![c] = "disc"]
  /\ Forget(c)

CloseSocket(c) ==
  /\ work[c] = "closing" /\ NoFrame(c)
  /\ CloseFd(sock[c])
  /\ state' = [state EXCEPT ![c] = "none"] /\ sock' = [sock EXCEPT ![c] = None]
  /\ UNCHANGED <<watched, thread, dict, login, returned, late>>

Elsewhere == UNCHANGED <<watched, thread, sock>>

\* A pool cannot start a thread: its monitor returns the client, unanswered.
ThreadFails(c) ==
  /\ work[c] \in {"queued", "waiting"}
  /\ Return(c)
  /\ Elsewhere /\ UNCHANGED <<kernel, dict, login, late>>

ParseCall(c, k) ==
  /\ peer[c] = "sent"
  /\ Stage(c, "queued", "routing")
  /\ peer' = [peer EXCEPT ![c] = "idle"]
  /\ kind' = [kind EXCEPT ![c] = k]
  /\ UNCHANGED <<owner, watched, thread, conns, returned, late>>

ParseError(c) ==
  /\ work[c] = "queued" /\ peer[c] = "sent"
  /\ peer' = [peer EXCEPT ![c] = "idle"]
  /\ Return(c)
  /\ Elsewhere /\ UNCHANGED <<owner, dict, login, late>>

\* No call: the client is gone, or the rest of its call is not there in time.
EndOfStream(c) ==
  /\ work[c] = "queued" /\ peer[c] \in {"sent", "gone"}
  /\ Disconnect(c)
  /\ Elsewhere /\ UNCHANGED <<kernel, kind, returned, late>>

MayCall(c) == login[c] \/ kind[c] # "rpc"

\* No login yet, or a login that the gates, the limits or the pool refuse.
RejectAndClose(c) ==
  /\ work[c] = "routing" /\ (~login[c] \/ kind[c] = "login")
  /\ Disconnect(c)
  /\ Elsewhere /\ UNCHANGED <<kernel, kind, returned, late>>

\* The message for the log of a rejected login cannot be built: the exception
\* leaves the client where it is.
RejectFails(c) ==
  /\ kind[c] = "login"
  /\ Stage(c, "routing", "lost")
  /\ state' = [state EXCEPT ![c] = "regproc"]
  /\ Elsewhere /\ UNCHANGED <<kernel, kind, dict, login, returned, late>>

\* A closed gate, no or a closed destination, an interceptor that is full.
RejectAndReturn(c) ==
  /\ work[c] = "routing" /\ MayCall(c)
  /\ Return(c)
  /\ Elsewhere /\ UNCHANGED <<kernel, dict, login, late>>

Queue(c) ==
  /\ MayCall(c)
  /\ Stage(c, "routing", "waiting")
  /\ state' = [state EXCEPT ![c] = IF kind[c] = "rpc" THEN "call" ELSE "regproc"]
  /\ Elsewhere /\ UNCHANGED <<kernel, kind, dict, login, returned, late>>

LoggedIn(c) == [login EXCEPT ![c] = TRUE]

\* The client has its answer, be it an error.
Answered(c) ==
  /\ work[c] = "waiting"
  /\ Return(c) /\ login' = LoggedIn(c)
  /\ Elsewhere /\ UNCHANGED <<kernel, dict, late>>

\* recoverRPCexecError() returns the client, and then assigns it a state.
Recovered(c) ==
  /\ work[c] = "waiting"
  /\ login' \in {login, LoggedIn(c)} /\ (login'[c] \/ kind[c] # "login")
  /\ Return(c) /\ late' = late \cup {c}
  /\ Elsewhere /\ UNCHANGED <<kernel, dict>>

LateState(c) ==
  /\ c \in late /\ late' = late \ {c}
  /\ state' = [state EXCEPT ![c] = IF @ \in {"none", "disc"} THEN @ ELSE "failed"]
  /\ UNCHANGED <<kernel, watched, thread, dict, login, sock, returned, work, kind>>

\* The login is rejected, only a part of the answer could be sent, or the
\* client is gone.
FailAndClose(c) ==
  /\ work[c] = "waiting"
  /\ Disconnect(c)
  /\ Elsewhere /\ UNCHANGED <<kernel, kind, returned, late>>

-----------------------------------------------------------------------------
Peer(c) == Connects(c) \/ Sends(c) \/ HangsUp(c)

PollThread ==
  \/ PollReturns
  \/ \E c \in Clients : Accept(c)
  \/ \E f \in Fds : \/ AddBack(f) \/ ClientInput(f) \/ ClientDisconnected(f)
                    \/ DisconnectKnown(f) \/ DisconnectUnknown(f)
                    \/ RefuseClient(f) \/ NewClient(f)
                    \/ RefuseRequest(f) \/ NewRequest(f)

\* What a pool does with a request, but for a thread that cannot be started.
Progress(c) ==
  \/ (\E k \in Kinds : ParseCall(c, k)) \/ ParseError(c) \/ EndOfStream(c)
  \/ RejectAndClose(c) \/ RejectFails(c) \/ RejectAndReturn(c) \/ Queue(c)
  \/ Answered(c) \/ Recovered(c) \/ FailAndClose(c) \/ CloseSocket(c)

Next ==
  \/ PollThread
  \/ \E c \in Clients : Peer(c) \/ Progress(c) \/ ThreadFails(c) \/ LateState(c)

Spec == Init /\ [][Next]_vars

\* The poll thread loops, every wait of a pool's thread has a timeout, and
\* threads do not fail to start every time.  Nothing is assumed of the peers.
FairSpec == Spec /\ WF_vars(PollThread) /\ \A c \in Clients : SF_vars(Progress(c))

-----------------------------------------------------------------------------
(* Properties. *)

TypeOK ==
  /\ owner \in [Fds -> Clients \cup {None}]
  /\ peer \in [Clients -> {"away", "knocking", "idle", "sent", "gone"}]
  /\ watched \subseteq Fds /\ todo \subseteq Fds /\ disc \subseteq Fds
  /\ input \subseteq Fds /\ returned \subseteq Fds
  /\ listening \in BOOLEAN
  /\ dict \in [Fds -> Clients \cup {None}]
  /\ state \in [Clients -> {"none", "first", "call", "regproc", "wait", "failed", "disc"}]
  /\ login \in [Clients -> BOOLEAN]
  /\ sock \in [Clients -> Fds \cup {None}]
  /\ work \in [Clients -> {"none", "queued", "routing", "waiting", "closing", "lost"}]
  /\ kind \in [Clients -> Kinds \cup {None}]
  /\ late \subseteq Clients

Open == {f \in Fds : owner[f] # None}

Busy == {c \in Clients : work[c] # "none"}

\* An open number is polled, or reported, or taken by one thread, or waits to be
\* polled again, and never two of these: no two threads ever read from or answer
\* one client, and only the thread that took a number can lose it.
InOnePlace ==
  LET handled == {sock[c] : c \in Busy}
  IN  /\ watched \cup returned \cup input \cup handled = Open
      /\ watched \cap (returned \cup input \cup handled) = {}
      /\ returned \cap (input \cup handled) = {}
      /\ input \cap handled = {}
      /\ todo \subseteq watched
      /\ \A c \in Busy : owner[sock[c]] = c

Live == {c \in Clients : state[c] \notin {"none", "disc"}}

\* The dictionary has a connection under a number exactly if the number is that
\* connection's: the poll thread never takes one client for another, although the
\* kernel gives a number to a new client as soon as it is closed.
DictIsTrue ==
  /\ \A f \in Fds : dict[f] # None => dict[f] \in Live /\ sock[dict[f]] = f
  /\ \A c \in Live : sock[c] # None /\ dict[sock[c]] = c

\* assignState() never denies a first login because a thread has changed the state
\* of the connection behind the back of the one that parses the call.
FirstCallIsFirst ==
  \A c \in Clients : work[c] \in {"queued", "routing"} /\ ~login[c] => state[c] = "first"

\* A connection that ends does not close the number of another client, although
\* the table may have closed its own number before.
ClosesNobodyElse ==
  [][\A c \in Clients :
       sock[c] # None /\ sock'[c] = None => owner[sock[c]] \in {c, None}]_vars

\* What a client sends is read, and a client that hangs up is let go, unless its
\* login was rejected without a message.
EventHandled ==
  \A c \in Clients :
    peer[c] \in {"sent", "gone"} ~>
      peer[c] \in {"idle", "away"} \/ work[c] = "lost"

\* A gxClientConn lives as long as a client is connected.
GoneIsForgotten ==
  \A c \in Clients :
    state[c] # "none" /\ peer[c] = "gone" ~> state[c] = "none"

\* The gateway treats the numbers as the poll table assumes: it returns and closes
\* only those that were reported and not returned or closed since.
Table == INSTANCE PollSet
  WITH Capacity  <- Cardinality(Fds),
       held      <- Open \ watched,
       forgotten <- {}

RespectsPollSet == Table!PSpec
=============================================================================
