------------------------------ MODULE DestConn ------------------------------
(***************************************************************************)
(* A call that the gateway forwards: the worker of gxRPCmonitor verifies   *)
(* its connection to the destination, sends the call and relays the bytes  *)
(* of the response to the client while it looks for their end              *)
(* (gx/gxdestconn.py, gx/gxrpcmonitors.py, sendProcCall of                 *)
(* gx/gxxmltpwriter.py).  Calls follow one another on the connection, each *)
(* with a client of its own: ResPool has the queue they come from.         *)
(*                                                                         *)
(* A response is a row of cells, each a piece of it that arrives whole;    *)
(* the last two are the two halves of the tag that ends it, and its status *)
(* begins Tail cells from the end.  A login is one step with its outcomes: *)
(* what becomes of the connection.  The destination is external: it        *)
(* answers what it has received, and may leave at any time.                *)
(***************************************************************************)
EXTENDS Integers, Sequences, FiniteSets, SequencesExt

CONSTANTS
    MaxForwards,     \* bound: calls
    ResponseLength,  \* cells of a response (any number of bytes in the code)
    TailLength,      \* cells from the status to the end (70 bytes in the code)
    Window,          \* cells kept of what came before (70 bytes in the code)
    MaxFaults        \* bound: failures of the destination, of a login, of the client

\* The status and the end of a response fit into the part that is kept, with
\* the first byte that comes after it.
ASSUME DestAssumption ==
    /\ MaxForwards \in Nat /\ MaxFaults \in Nat /\ ResponseLength \in Nat
    /\ Window \in Nat /\ TailLength \in 3..ResponseLength
    /\ TailLength <= Window + 1

VARIABLES
    destConn, \* the DestConn: up (it has a socket), its state, its dirty flag
    server,   \* the other end: open, what is in transit, the call and its execution
    worker,   \* the worker: pc, call, tries, time left, return status, error
    rcvd,     \* the local variables of recvResp
    caller,   \* the client: whether it is there and connected, what it got
    execs,    \* the executions of calls by the destination: history
    faults    \* what is left of the budget

destVars == <<destConn, server, worker, rcvd, caller, execs, faults>>

-----------------------------------------------------------------------------
Cell == [exec: 1..2 * MaxForwards, k: 1..ResponseLength]

\* The statuses a destination answers: good, an error that leaves it clean (a
\* gate that is closed), and any other error.
AnswerStatuses == {"ok", "refused", "failed"}

\* Those the gateway gives: INIT_NOT_ASSIGNED_YET, -999, DS_NOT_AVAIL,
\* DS_RPC_TIMEOUT and DS_FAIL_CANNOT_RETRY.
GatewayStatuses == {"unassigned", "unknown", "unavailable", "timeout", "cannot retry"}

Fault == faults > 0 /\ faults' = faults - 1

NoServer == [open |-> FALSE, stream |-> <<>>, call |-> 0, exec |-> 0, sent |-> 0]
NewServer == [NoServer EXCEPT !.open = TRUE]
NothingRcvd == [buff |-> <<>>, bytes |-> 0, sent |-> 0, cltErr |-> FALSE]

-----------------------------------------------------------------------------
(* The connection *)

\* verifyDestConn() keeps a connection that is logged in, not dirty, and has
\* nothing to read; one that the destination has left looks the same.
KeepsConn ==
    /\ destConn.up /\ destConn.state = "logged in" /\ ~destConn.dirty
    /\ server.stream = <<>>

\* assignOutcomeOfUse() with b_dirty: the flag is set and the connection closed.
ClosesDirty ==
    /\ destConn' = [up |-> FALSE, state |-> "bad", dirty |-> TRUE]
    /\ server' = NoServer

\* resetConn() and loginToServer(): the connection is new and logged in; or
\* the destination cannot be reached; or the login fails, whatever it leaves.
Renewed ==
    /\ destConn' = [up |-> TRUE, state |-> "logged in", dirty |-> FALSE]
    /\ server' = NewServer
NotRenewed ==
    \/ destConn' = [up |-> FALSE, state |-> "bad", dirty |-> FALSE] /\ server' = NoServer
    \/ \E up, dirty \in BOOLEAN:
         /\ destConn' = [up |-> up, state |-> "no login", dirty |-> dirty]
         /\ server' = IF up THEN NewServer ELSE NoServer

-----------------------------------------------------------------------------
(* The worker *)

MovesTo(pc) == worker' = [worker EXCEPT !.pc = pc]

\* The call ends with a status for the frame; unassigned if it assigns none.
EndsWith(status) == worker' = [worker EXCEPT !.pc = "release", !.status = status]

\* An error reply.  When it cannot be sent the client is disconnected.
TellsClient(status) ==
    caller' = IF caller.there THEN [caller EXCEPT !.told = status]
                              ELSE [caller EXCEPT !.connected = FALSE]

\* A worker is started for a request.  (If its client has left meanwhile, it
\* gives the connection back as it is.)
RunThread ==
    /\ worker.pc = "idle" /\ worker.call < MaxForwards
    /\ worker' = [pc |-> "verify", call |-> worker.call + 1, retry |-> 0,
                  resent |-> FALSE, time |-> 2, status |-> "unassigned", err |-> FALSE]
    /\ caller' = [there |-> TRUE, connected |-> TRUE, got |-> <<>>, short |-> FALSE,
                  told |-> "none"]
    /\ UNCHANGED <<destConn, server, rcvd, execs, faults>>

\* The time of the send begins now, unless the call has waited too long.
VerifyDestConn ==
    /\ worker.pc = "verify"
    /\ IF KeepsConn THEN UNCHANGED <<destConn, server>> ELSE Renewed
    /\ \/ MovesTo("send") /\ UNCHANGED <<caller, faults>>
       \/ Fault /\ EndsWith("unassigned") /\ TellsClient("timeout")
    /\ UNCHANGED <<rcvd, execs>>

VerifyFails ==
    /\ worker.pc = "verify"
    /\ ~KeepsConn /\ NotRenewed /\ Fault
    /\ EndsWith("unavailable") /\ TellsClient("unavailable")
    /\ UNCHANGED <<rcvd, execs>>

\* The kernel takes the bytes, though the destination may have left.
SendProcCall ==
    /\ worker.pc = "send"
    /\ server' = IF server.open THEN [server EXCEPT !.call = worker.call] ELSE server
    /\ MovesTo("recv") /\ rcvd' = NothingRcvd
    /\ UNCHANGED <<destConn, caller, execs, faults>>

\* The connection is broken, and the destination has not got the whole call:
\* it is sent once more on a new connection.
SendAgain ==
    /\ worker.pc = "send" /\ ~server.open /\ ~worker.resent
    /\ Renewed /\ worker' = [worker EXCEPT !.resent = TRUE]
    /\ UNCHANGED <<rcvd, caller, execs, faults>>

SendGivesUp ==
    /\ worker.pc = "send" /\ ~server.open
    /\ \/ /\ ~worker.resent /\ NotRenewed /\ Fault
          /\ EndsWith("unavailable") /\ TellsClient("unavailable")
       \/ /\ worker.resent
          /\ EndsWith("unassigned") /\ TellsClient("cannot retry")
          /\ UNCHANGED <<destConn, server, faults>>
    /\ UNCHANGED <<rcvd, execs>>

-----------------------------------------------------------------------------
(* recvResp: each recv() has a timeout of what is left of the call's time *)

\* The end is found when both halves of its tag are in what is looked at, and
\* the status if it is there too.
EotIn(str) ==
    \E i \in 1..(Len(str) - 1): str[i].k = ResponseLength - 1 /\ str[i + 1].k = ResponseLength
StatusIn(str) ==
    LET found == {i \in 1..Len(str): str[i].k = ResponseLength - TailLength + 1}
    IN  IF found = {} THEN "unknown" ELSE execs[str[CHOOSE i \in found: TRUE].exec].status

\* What is kept for the next look: all that is short, or the end of it.
KeptOf(str) ==
    IF Len(str) < Window + 2 THEN str ELSE SubSeq(str, Len(str) - Window + 1, Len(str))

\* The bytes are sent to the client as they came, by one send() which may
\* take only a part of them; after an error there is no other.
SendsBack(chunk, now) ==
    \/ /\ rcvd.cltErr /\ rcvd' = now
       /\ UNCHANGED <<caller, faults>>
    \/ /\ ~rcvd.cltErr /\ rcvd' = [now EXCEPT !.sent = @ + Len(chunk)]
       /\ caller' = [caller EXCEPT !.got = @ \o chunk]
       /\ UNCHANGED faults
    \/ /\ ~rcvd.cltErr /\ rcvd' = [now EXCEPT !.sent = @ + Len(chunk) - 1]
       /\ caller' = [caller EXCEPT !.got = @ \o Front(chunk), !.short = TRUE]
       /\ Len(chunk) > 1 /\ Fault
    \/ /\ ~rcvd.cltErr /\ rcvd' = [now EXCEPT !.cltErr = TRUE]
       /\ UNCHANGED caller
       /\ IF caller.there THEN Fault ELSE UNCHANGED faults

Receives ==
    /\ worker.pc = "recv" /\ worker.time > 0 /\ server.stream # <<>>
    /\ \E n \in 1..Len(server.stream):
         LET chunk == SubSeq(server.stream, 1, n)
             str == rcvd.buff \o chunk
         IN  /\ server' = [server EXCEPT !.stream = SubSeq(@, n + 1, Len(@))]
             /\ worker' = IF EotIn(str)
                          THEN [worker EXCEPT !.pc = "received", !.status = StatusIn(str)]
                          ELSE worker
             /\ SendsBack(chunk, [rcvd EXCEPT !.buff = KeptOf(str), !.bytes = @ + n])
    /\ UNCHANGED <<destConn, execs>>

\* An error of the destination ends the loop.
ReceiveFails == worker' = [worker EXCEPT !.pc = "received", !.err = TRUE]

\* The connection ends before anything of the response: it is reset, and the
\* call is sent once more if enough time is left.  Mutant of MayResend: though
\* the response has begun.
MutMayResend == worker.retry = 0
MayResend == rcvd.bytes = 0 /\ worker.retry = 0

AtEof == worker.pc = "recv" /\ worker.time > 0 /\ ~server.open /\ server.stream = <<>>

Resends ==
    /\ AtEof /\ MayResend
    /\ \/ /\ worker.time > 1 /\ Renewed
          /\ worker' = [worker EXCEPT !.pc = "send", !.retry = 1, !.resent = FALSE]
          /\ UNCHANGED caller
       \/ /\ worker.time = 1
          /\ destConn' = [up |-> FALSE, state |-> "bad", dirty |-> FALSE] /\ server' = NoServer
          /\ EndsWith("unassigned") /\ TellsClient("timeout")
    /\ UNCHANGED <<rcvd, execs, faults>>

RecvEof ==
    /\ AtEof
    /\ \/ MayResend /\ NotRenewed /\ Fault
       \/ ~MayResend /\ ClosesDirty /\ UNCHANGED faults
    /\ ReceiveFails
    /\ UNCHANGED <<rcvd, caller, execs>>

\* recv() raises an exception, which may find bytes that were not read.
RecvBreaks ==
    /\ worker.pc = "recv" /\ worker.time > 0 /\ ~server.open
    /\ destConn' = [destConn EXCEPT !.state = "bad"]
    /\ ReceiveFails
    /\ UNCHANGED <<server, rcvd, caller, execs, faults>>

RecvTimesOut ==
    /\ worker.pc = "recv" /\ worker.time = 0
    /\ ClosesDirty /\ ReceiveFails
    /\ UNCHANGED <<rcvd, caller, execs, faults>>

\* While recv() waits: more than ten seconds are left, more than three, fewer.
TimePasses ==
    /\ worker.pc = "recv" /\ worker.time > 0 /\ server.open /\ server.stream = <<>>
    /\ worker' = [worker EXCEPT !.time = @ - 1]
    /\ UNCHANGED <<destConn, server, rcvd, caller, execs, faults>>

-----------------------------------------------------------------------------
(* receiveResponse: the cases of its table, and the end of the thread *)

\* Case 1, also when a part of the response was not sent back.
ResponseComplete ==
    /\ worker.pc = "received" /\ ~worker.err /\ ~rcvd.cltErr
    /\ MovesTo("release")
    /\ UNCHANGED <<destConn, server, rcvd, caller, execs, faults>>

\* Case 2: the client is disconnected.
ClientIsGone ==
    /\ worker.pc = "received" /\ ~worker.err /\ rcvd.cltErr
    /\ ClosesDirty /\ MovesTo("release")
    /\ caller' = [caller EXCEPT !.connected = FALSE]
    /\ UNCHANGED <<rcvd, execs, faults>>

\* Case 3: the client has a part of a response, and is disconnected too.
ResponseIsPartial ==
    /\ worker.pc = "received" /\ worker.err /\ rcvd.sent > 0
    /\ ClosesDirty /\ EndsWith("cannot retry")
    /\ caller' = [caller EXCEPT !.connected = FALSE]
    /\ UNCHANGED <<rcvd, execs, faults>>

\* Cases 4 and 5: how long the wait was decides what the client is told.
NoResponse ==
    /\ worker.pc = "received" /\ worker.err /\ rcvd.sent = 0
    /\ \/ EndsWith("timeout") /\ TellsClient("timeout") /\ ClosesDirty
       \/ /\ EndsWith("cannot retry") /\ TellsClient("cannot retry")
          /\ UNCHANGED <<destConn, server>>
    /\ UNCHANGED <<rcvd, execs, faults>>

\* markDestConnDirtyIfRPCfailedBad() and the release of the connection.
ReleaseDestConn ==
    /\ worker.pc = "release"
    /\ CASE worker.status = "ok" -> UNCHANGED <<destConn, server>>
         [] worker.status = "refused" ->
              destConn' = [destConn EXCEPT !.dirty = FALSE] /\ UNCHANGED server
         [] OTHER -> ClosesDirty
    /\ MovesTo("idle") /\ rcvd' = NothingRcvd
    /\ UNCHANGED <<caller, execs, faults>>

-----------------------------------------------------------------------------
(* The destination and the client *)

ServerExecutes ==
    /\ server.call # 0
    /\ \E s \in AnswerStatuses:
         execs' = Append(execs, [call |-> server.call, status |-> s])
    /\ server' = [server EXCEPT !.call = 0, !.exec = Len(execs) + 1, !.sent = 0]
    /\ UNCHANGED <<destConn, worker, rcvd, caller, faults>>

ServerAnswers ==
    /\ server.exec # 0
    /\ \E n \in (server.sent + 1)..ResponseLength:
         LET cells == [i \in 1..(n - server.sent) |->
                         [exec |-> server.exec, k |-> server.sent + i]]
         IN  server' = [server EXCEPT !.stream = @ \o cells, !.sent = n,
                                      !.exec = IF n = ResponseLength THEN 0 ELSE @]
    /\ UNCHANGED <<destConn, worker, rcvd, caller, execs, faults>>

ServerLeaves ==
    /\ server.open /\ Fault
    /\ server' = [server EXCEPT !.open = FALSE, !.call = 0, !.exec = 0]
    /\ UNCHANGED <<destConn, worker, rcvd, caller, execs>>

CallerLeaves ==
    /\ worker.pc # "idle" /\ caller.there
    /\ caller' = [caller EXCEPT !.there = FALSE]
    /\ UNCHANGED <<destConn, server, worker, rcvd, execs, faults>>

-----------------------------------------------------------------------------
DestInit ==
    /\ destConn = [up |-> FALSE, state |-> "bad", dirty |-> FALSE]
    /\ server = NoServer
    /\ worker = [pc |-> "idle", call |-> 0, retry |-> 0, resent |-> FALSE,
              time |-> 0, status |-> "unassigned", err |-> FALSE]
    /\ rcvd = NothingRcvd
    /\ caller = [there |-> FALSE, connected |-> FALSE, got |-> <<>>, short |-> FALSE,
                 told |-> "none"]
    /\ execs = <<>>
    /\ faults = MaxFaults

\* The steps of the worker, each wait of which has a timeout.
DestSteps ==
    \/ VerifyDestConn \/ SendProcCall \/ SendAgain
    \/ Receives \/ Resends \/ RecvEof \/ RecvTimesOut \/ TimePasses
    \/ ResponseComplete \/ ClientIsGone \/ ResponseIsPartial \/ NoResponse \/ ReleaseDestConn

DestNext ==
    \/ RunThread \/ DestSteps \/ VerifyFails \/ SendGivesUp \/ RecvBreaks
    \/ ServerExecutes \/ ServerAnswers \/ ServerLeaves \/ CallerLeaves

DestSpec == DestInit /\ [][DestNext]_destVars

-----------------------------------------------------------------------------
(* Properties *)

DestTypeOK ==
    /\ destConn \in [up: BOOLEAN, state: {"logged in", "no login", "bad"}, dirty: BOOLEAN]
    /\ server \in [open: BOOLEAN, stream: Seq(Cell), call: 0..MaxForwards,
                   exec: 0..2 * MaxForwards, sent: 0..ResponseLength]
    /\ worker \in [pc: {"idle", "verify", "send", "recv", "received", "release"},
                call: 0..MaxForwards, retry: 0..1, resent: BOOLEAN, time: 0..2,
                status: AnswerStatuses \cup GatewayStatuses, err: BOOLEAN]
    /\ rcvd \in [buff: Seq(Cell), bytes: 0..ResponseLength, sent: 0..ResponseLength,
                cltErr: BOOLEAN]
    /\ caller \in [there: BOOLEAN, connected: BOOLEAN, got: Seq(Cell), short: BOOLEAN,
                   told: GatewayStatuses \cup {"none"}]
    /\ execs \in Seq([call: 1..MaxForwards, status: AnswerStatuses])
    /\ faults \in 0..MaxFaults

Executions == {e \in DOMAIN execs: execs[e].call = worker.call}

IsStartOf(cells, e) == \A i \in DOMAIN cells: cells[i] = [exec |-> e, k |-> i]

\* Whatever a client gets is of its own call, and of its last execution: not
\* the late answer to another call, nor the answers of two tries.  (Unless a
\* send() took only a part of what it was given.)
GetsItsOwn ==
    caller.got # <<>> /\ ~caller.short =>
        \E e \in Executions: IsStartOf(caller.got, e) /\ \A d \in Executions: d <= e

\* A client that stays connected has all of a response, and the gateway knows
\* its status; or it has nothing of one, and an error.
GetsAllOrAnError ==
    worker.pc \in {"release", "idle"} /\ caller.there /\ caller.connected /\ ~caller.short =>
        IF caller.told = "none"
        THEN /\ Len(caller.got) = ResponseLength
             /\ worker.status = execs[caller.got[1].exec].status
        ELSE caller.got = <<>>

\* A connection that is free and would be used again is one on which nothing is
\* under way: no answer can come that is not the next call's.
FreeIsQuiet ==
    worker.pc = "idle" /\ destConn.up =>
        /\ destConn.state = "logged in" /\ ~destConn.dirty
        /\ server.stream = <<>> /\ server.call = 0 /\ server.exec = 0

\* A call is executed twice at most, the second time by the retry; when the
\* first send already ends with DS_NOT_AVAIL it was not executed.
ExecutedAsTold ==
    /\ Cardinality(Executions) <= 1 + worker.retry
    /\ caller.told = "unavailable" /\ worker.retry = 0 => Executions = {}

\* What the gateway relays for a client is an answer to its call, all of it or
\* an error, whatever breaks and whatever was on the connection before.
AnswerIsOwn == GetsItsOwn /\ GetsAllOrAnError /\ FreeIsQuiet /\ ExecutedAsTold

Forwarding == worker.pc # "idle"
=============================================================================
