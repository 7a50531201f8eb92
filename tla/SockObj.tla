------------------------------ MODULE SockObj ------------------------------
(***************************************************************************)
(* The sockets of the C libraries: the socket object of sock_fn/sock_obj.c *)
(* (which reconnects by itself while it sends) over the functions of       *)
(* sock_fn/sock_fn.c, with one listening socket.                           *)
(*                                                                         *)
(* A call is cut at each system call, whose outcome the network chooses.   *)
(* The bytes of a message are numbered.  The checks of the arguments, the  *)
(* signature and the Windows error codes are left out.                     *)
(***************************************************************************)
EXTENDS Integers, Sequences, FiniteSets

CONSTANTS
    RetryLimits,   \* values of connect_max_retry; 0 is no limit
    MessageLength, \* bytes of a message
    MaxSockCalls   \* bound: calls on the object

ASSUME SockAssumption ==
    /\ RetryLimits \subseteq Nat
    /\ MessageLength \in Nat \ {0}

VARIABLES
    sock,      \* the object: its descriptor (0 for -1), and its retry limit
               \* (NoObject before it is created)
    sockCall,  \* the call that is running
    sent,      \* the bytes that the last call sent
    opened,    \* the descriptors the process has open
    listening,  \* the listening socket and the connections it accepted
    sockCalls  \* calls so far

sockVars == <<sock, sockCall, sent, opened, listening, sockCalls>>

-----------------------------------------------------------------------------
NoSockCall == [op |-> "none", phase |-> "idle", left |-> 0, retry |-> 0, tries |-> 0,
           flag |-> FALSE, answer |-> "none"]

\* The system gives the lowest descriptor that is free.
NewFd == CHOOSE fd \in 1..(Cardinality(opened) + 1):
            fd \notin opened /\ \A lower \in 1..(fd - 1): lower \in opened

NoObject == -1
Running == sockCall.phase # "idle"

\* Both loops, of the turns of a call and of the attempts of a connection, go
\* on without end when the limit is 0.
Unlimited == sock.max = 0

SockAnswers(a) == sockCall' = [sockCall EXCEPT !.phase = "idle", !.answer = a]

\* A call begins; "flag" is its option: no reconnection, or a full read.
Begin(op, phase, left, flag) ==
    /\ ~Running /\ sockCalls < MaxSockCalls
    /\ sockCalls' = sockCalls + 1
    /\ sockCall' = [NoSockCall EXCEPT !.op = op, !.phase = phase, !.left = left, !.flag = flag]

\* An object is created closed, with an address that was found ...
CreateObject(max) ==
    /\ sock.max = NoObject
    /\ sock' = [fd |-> 0, max |-> max]
    /\ UNCHANGED <<sockCall, sent, opened, listening, sockCalls>>

\* ... or around a descriptor that is connected already.
CreateFromFd(max) ==
    /\ sock.max = NoObject
    /\ opened' = opened \cup {NewFd}
    /\ sock' = [fd |-> NewFd, max |-> max]
    /\ UNCHANGED <<sockCall, sent, listening, sockCalls>>

-----------------------------------------------------------------------------
(* Connecting *)

\* sock_obj_connect on an object that is connected is a warning.
ConnectCall ==
    /\ sock.max # NoObject
    /\ IF sock.fd # 0
       THEN /\ ~Running /\ sockCalls < MaxSockCalls
            /\ sockCalls' = sockCalls + 1
            /\ sockCall' = [NoSockCall EXCEPT !.op = "connect", !.answer = "ALREADY_CONNECTED"]
       ELSE Begin("connect", "connecting", 0, FALSE)
    /\ sent' = <<>>
    /\ UNCHANGED <<sock, opened, listening>>

\* A failed attempt closes its socket before the next one, or before the end.
Closed(fds, fd) == fds \ {fd}

\* Bound: without a limit, the turns are counted to 2, which is all that
\* Completed tells apart, and the attempts are not counted.
AnotherTurn == IF Unlimited /\ sockCall.retry = 2 THEN 2 ELSE sockCall.retry + 1
AnotherAttempt == IF Unlimited THEN 0 ELSE sockCall.tries + 1

\* Mutant of Reconnected: the turns are counted anew on each connection.
MutReconnected == [sockCall EXCEPT !.phase = "transfer", !.retry = 0]

\* The call goes on in its new connection; this took one turn.
Reconnected == [sockCall EXCEPT !.phase = "transfer", !.retry = AnotherTurn]

\* One socket() and one connect().  A refusal is tried again only by a call
\* that lost its connection; the caller of connect retries by itself.
ConnectTry ==
    /\ sockCall.phase = "connecting"
    /\ \/ /\ opened' = opened \cup {NewFd}
          /\ sock' = [sock EXCEPT !.fd = NewFd]
          /\ IF sockCall.op = "connect" THEN SockAnswers("OK")
             ELSE sockCall' = Reconnected
       \/ \E error \in {"TIMEDOUT", "REFUSED", "OTHER"}:
            LET again == /\ \/ error = "TIMEDOUT"
                            \/ error = "REFUSED" /\ sockCall.op # "connect"
                         /\ Unlimited \/ sockCall.tries < sock.max IN
            /\ opened' = Closed(opened \cup {NewFd}, NewFd)
            /\ IF again THEN sockCall' = [sockCall EXCEPT !.tries = AnotherAttempt]
               ELSE SockAnswers(IF sockCall.op = "connect" THEN "CONNECT_FAILED"
                            ELSE "FAILED_AFTER_RETRY")
            /\ UNCHANGED sock
       \/ /\ SockAnswers(IF sockCall.op = "connect" THEN "CREATE_FAILED" ELSE "FAILED_AFTER_RETRY")
          /\ UNCHANGED <<sock, opened>>
    /\ UNCHANGED <<sent, listening, sockCalls>>

Disconnect ==
    /\ ~Running /\ sock.fd # 0
    /\ opened' = Closed(opened, sock.fd)
    /\ sock' = [sock EXCEPT !.fd = 0]
    /\ UNCHANGED <<sockCall, sent, listening, sockCalls>>

-----------------------------------------------------------------------------
(* Sending *)

SendCall(noReconnect) ==
    /\ sock.fd # 0
    /\ Begin("send", "transfer", MessageLength, noReconnect)
    /\ sent' = <<>>
    /\ UNCHANGED <<sock, opened, listening>>

\* The turns of the loop are counted whatever they were for.
LastTurn == ~Unlimited /\ sockCall.retry + 1 >= sock.max

NextTurn(left) ==
    IF LastTurn
    THEN sockCall' = [sockCall EXCEPT !.phase = "idle", !.left = left,
                                      !.answer = "FAILED_AFTER_RETRY"]
    ELSE sockCall' = [sockCall EXCEPT !.retry = AnotherTurn, !.left = left]

InTurn ==
    /\ sockCall.op = "send" /\ sockCall.phase = "transfer"
    /\ Unlimited \/ sockCall.retry < sock.max

\* Mutant of Taken: a send() that took a part begins again with the first byte.
MutTaken(k) == [i \in 1..k |-> i]

\* The bytes of the message that one send() took, from the first one left.
Taken(k) == [i \in 1..k |-> MessageLength - sockCall.left + i]

\* The connection counts as lost and found after more than one turn, be they
\* short sends or interruptions; after one turn it does not.
Completed == IF sockCall.retry <= 1 THEN "OK" ELSE "RECONNECT_AFTER_RESET"

SendTry ==
    /\ InTurn
    /\ \/ /\ sent' = sent \o Taken(sockCall.left)
          /\ SockAnswers(Completed)
       \/ \E k \in 1..(sockCall.left - 1):
            /\ sent' = sent \o Taken(k)
            /\ NextTurn(sockCall.left - k)
       \/ /\ NextTurn(sockCall.left)                  \* EINTR
          /\ UNCHANGED sent
    /\ UNCHANGED <<sock, opened, listening, sockCalls>>

\* The peer has gone: reconnect, unless the caller does not want it, and go
\* on with the bytes that are left.
SendBreaks ==
    /\ InTurn
    /\ IF sockCall.flag
       THEN /\ SockAnswers("DISCONNECT_BY_PEER")
            /\ UNCHANGED <<sock, opened>>
       ELSE /\ opened' = Closed(opened, sock.fd)
            /\ sock' = [sock EXCEPT !.fd = 0]
            /\ sockCall' = [sockCall EXCEPT !.phase = "connecting", !.tries = 0]
    /\ UNCHANGED <<sent, listening, sockCalls>>

SendRefused ==
    /\ InTurn
    /\ SockAnswers("SEND_FAILED")
    /\ UNCHANGED <<sock, sent, opened, listening, sockCalls>>

\* The turn that the reconnection took may have been the last one.
TurnsEnd ==
    /\ sockCall.op = "send" /\ sockCall.phase = "transfer"
    /\ ~Unlimited /\ sockCall.retry >= sock.max
    /\ SockAnswers("FAILED_AFTER_RETRY")
    /\ UNCHANGED <<sock, sent, opened, listening, sockCalls>>

-----------------------------------------------------------------------------
(* Receiving *)

RecvCall(full) ==
    /\ sock.fd # 0
    /\ Begin("recv", "transfer", MessageLength, full)
    /\ sent' = <<>>
    /\ UNCHANGED <<sock, opened, listening>>

\* Some bytes: the end, or another turn when the buffer is to be filled.
\* Every error ends the call: the cases that would reconnect fall through.
RecvTry ==
    /\ sockCall.op = "recv" /\ sockCall.phase = "transfer"
    /\ \/ \E k \in 1..sockCall.left:
            IF ~sockCall.flag \/ k = sockCall.left THEN SockAnswers(Completed)
            ELSE NextTurn(sockCall.left - k)
       \/ SockAnswers("RECEIVE_FAILED")
    /\ UNCHANGED <<sock, sent, opened, listening, sockCalls>>

-----------------------------------------------------------------------------
(* The listening socket *)

\* Every step after socket() that fails closes the socket.
BindAndListen ==
    /\ listening.fd = 0
    /\ \/ /\ opened' = opened \cup {NewFd}
          /\ listening' = [listening EXCEPT !.fd = NewFd]
       \/ /\ opened' = Closed(opened \cup {NewFd}, NewFd)
          /\ UNCHANGED listening
    /\ UNCHANGED <<sock, sockCall, sent, sockCalls>>

\* accept() is called again when a signal interrupts it; other errors leave
\* the listening socket as it is.
AcceptConnection ==
    /\ listening.fd # 0 /\ listening.clients = {}
    /\ opened' = opened \cup {NewFd}
    /\ listening' = [listening EXCEPT !.clients = @ \cup {NewFd}]
    /\ UNCHANGED <<sock, sockCall, sent, sockCalls>>

-----------------------------------------------------------------------------
SockInit ==
    /\ sock = [fd |-> 0, max |-> NoObject]
    /\ sockCall = NoSockCall
    /\ sent = <<>>
    /\ opened = {}
    /\ listening = [fd |-> 0, clients |-> {}]
    /\ sockCalls = 0

\* The steps of a call that runs.
SockSteps == ConnectTry \/ SendTry \/ SendBreaks \/ SendRefused \/ TurnsEnd \/ RecvTry

SockNext ==
    \/ \E max \in RetryLimits: CreateObject(max) \/ CreateFromFd(max)
    \/ ConnectCall \/ Disconnect
    \/ \E flag \in BOOLEAN: SendCall(flag) \/ RecvCall(flag)
    \/ SockSteps
    \/ BindAndListen \/ AcceptConnection

-----------------------------------------------------------------------------
(* Properties *)

SockTypeOK ==
    /\ sock.fd \in Nat /\ sock.max \in RetryLimits \cup {NoObject}
    /\ opened \subseteq Nat \ {0}
    /\ sockCall.left \in 0..MessageLength
    /\ sock.max > 0 => sockCall.retry <= sock.max /\ sockCall.tries <= sock.max
    /\ sock.max <= 0 => sockCall.retry <= 2 /\ sockCall.tries = 0

\* Every open descriptor has an owner: none is lost by a failed attempt, and
\* none is used after it was closed (sock_obj.c, sock_fn.c).
DescriptorsAreOwned ==
    opened = ({sock.fd, listening.fd} \ {0}) \cup listening.clients

\* Whatever short sends, signals and reconnections there are, no byte of the
\* message is left out or sent twice, and a send that succeeds sent them all
\* (sock_obj_send_ext).
BytesAreSentOnce ==
    /\ \A i \in 1..Len(sent): sent[i] = i
    /\ sockCall.op = "send" /\ sockCall.answer \in {"OK", "RECONNECT_AFTER_RESET"} =>
          Len(sent) = MessageLength

SocketsAreTrue == DescriptorsAreOwned /\ BytesAreSentOnce
=============================================================================
