# A TLA+ model of XMLTP/L

XMLTP/L is an RPC gateway. Clients connect over TCP and send procedure calls
in XML; a Python process (`gx/`) with a C extension (`src/xmltp/`) parses each
call, picks a destination or a registered procedure, executes it on one of a
pool of connections, and relays the answer. The same process can store calls
and forward them later. C libraries for clients and servers stand beside it.

This directory models the gateway, and the C libraries and servers around it,
in TLA+. TLC checks the models on small instances, TLAPS proves the main results
for all of them. Paths below are
relative to the repository; `gx/...` is at its top, the C code is under
`src/...`.

1. [The system](#1-the-system) — parts, state, operations, interactions
2. [What is hard, and what must hold](#2-what-is-hard-and-what-must-hold)
3. [Modules](#3-modules) — and how they correspond to the code
4. [Runs](#4-runs) — what TLC checks, bounds, fairness
5. [Disagreements found](#5-disagreements-found)
6. [Proofs](#6-proofs) — what holds for every instance, and why
7. [Not modelled](#7-not-modelled)
8. [Plan](#8-plan)

## 1. The system

One request travels like this:

    client socket --> poll table --> parsers pool --> destination pool --> poll table
     (gx_poll.c)     (poll thread)    (worker)        (worker, DestConn)   (return queue)

| Component | State | Operations | Talks to |
|---|---|---|---|
| Poll table, `gx_poll.c` | slots (fd, revents), high-water mark, first-free guess | `initListen`, `pollClients`, `getPollTab` | the kernel; called by one thread only |
| Poll thread, `gxserver.py` `ClientsPollMonitor` | exception count, the lists of one poll | `pollOneTime`: return sockets, poll, process disconnects, then input | poll table, return queue, dictionary of clients, parsers pool |
| Client connections, `gxclientconn.py`, `gxserver.py` | dictionary number → connection, state of each, lock | new, disconnect, return to poll list, dup of a number in use | all workers |
| Resource pools, `gxrespool.py` | three queues, stop and open flags, operation counters | `addRequest`, `addPrivRequest`, `releaseResource`, `assignOperation`, stop | monitor thread, one worker per busy resource |
| Queues, `gxqueue.py` | list, bound, open flags, condition variables | `put`, `get`, blocking or not | every thread |
| Destination connections, `gxdestconn.py` | socket, login state, last error | verify, login, drain, reset, close | one worker at a time |
| RPC execution, `gxrpcmonitors.py` | one call's frame, try count, answer | send, receive, retry once, answer the client, release | connection, client, pool |
| Intercept and active queues, `gxintercept.py` | stored calls, monitor's state, pseudo client | store, fetch, forward, retry, suspend | persistent queue, pools |
| Persistent queues, `bdbVarQueue.py`, `gxbdbqueue.py` | database of entries, thread lock, bound | `put`, `get`, raw variants | Berkeley DB |
| Gates and control, `gxserver.py`, `gxmonitor.py` | open gates, final-stop flag | open, close, groups, stop | all pools |
| Registered procedures, `gxregprocs.py` | none of their own | operator's commands | all of the above |
| Parser, `xmltp_gx.c` and others | lexer buffer, parse context, lists of the response | get a call or an answer from a socket that delivers it in chunks | the workers |
| Client library, `xmltp_api.c` | parse context, error class, recovery table, whether a result is shown | connect and login, execute, show rows, retry | sockets, parser, a server |
| Database server, `xml2syb.c` | process per session, bound and registered procedures, messages, retry count | accept, log in, execute, write a response | CT10 API, writer |
| File server, `xmlfisrv.c` | cache of files, session | accept, answer a call with a file | writer |
| Writer and grammar, `xmltp_writer.c`, `xmltp_gram.y` | open tags and rows, errors, the count of failed sends | write or parse a response | the two servers, the clients |
| CT10 API, `ct10api/` | handle, connection, recovery tables and decision | connect, execute, fetch, retry by decision | a vendor's library |
| Containers, `dynarray/`, `misc_fn/linklist.c` | array with its capacity, list with its cursor, memory counter | add, remove, loop, sort, search | everyone |
| Configuration, `cfg_read/` | tree of parameters, first bad name | open a section, get values in a loop, check all | everyone |
| Sockets, `sock_fn/` | descriptor, retry limit | connect, send with reconnection, receive, listen | everyone in C |
| Text of a call, `ct10rpc_parse.c` | position, parameters made | parse a call | command-line clients |

Interactions are by shared state between Python threads (the interpreter may
switch threads between any two bytecodes), by the bounded queues, and by socket
numbers handed from one part to the next. A client's socket number is a token:
it is in the poll table, or in the return queue, or with one worker, or closed.

## 2. What is hard, and what must hold

`PROJECT.json` lists the hazards line by line. In short:

* **Threads.** The pool's monitor, its workers, the operator and the shutdown
  read and write counters and flags without a lock; a request is tested against
  the stop flag and the bound, and put, in three steps.
  *A resource is in one hand only; a request is in one place, and started at most
  once; a privileged ("kill") request does not wait behind the queue; an
  operation reaches every resource; a stop starts nothing more.*
* **Failure.** A connection cannot be rebuilt, a thread cannot be started, an
  `accept()` fails, a table is full.
  *Resources do not leak; sockets are refused only when there is no room; an
  error on one does not silence the others.*
* **Order.** A reported socket must leave the table before a worker reads it and
  a disconnected number must be forgotten before the kernel hands it out again.
  *A polled socket is open and in nobody's hands; reported events are real.*
* **Retry, crash, time.** Three programs repeat a call: the client library, CT10
  and xml2syb; so do a gateway's worker and an active queue. A stored call must
  survive a crash, and a connection may break in the middle of a send.
  *What a caller is shown comes from one execution; a message is not lost by a
  retry; a stored call is sent in its turn and accounted for; no byte is sent
  twice; every call ends.*
* **Long sequences.** The C libraries keep cursors, cursors' neighbours, names,
  counts and lists from one call to the next, and a stream is cut anywhere.
  *A loop sees every element that stays; a response's lists are its own; what is
  read does not depend on the cuts.*
* **Waiting.** Every queue is bounded and put blocks.
  *A worker never blocks giving back its resource; a queued request is started;
  a monitor that is stopped exits.*

## 3. Modules

| Module | What it is |
|---|---|
| `ResAllocator` | what a pool promises: requests that run alone on a resource, at most once |
| `ResPool` | `gx/gxrespool.py` on `gx/gxqueue.py`, as `gx/gxdestconn.py` uses it; properties and refinement mapping |
| `ResPoolInv` | the inductive invariant of `ResPool` |
| `ResPoolProofs` | its proof, the proofs of the safety properties and of the refinement of `ResAllocator` |
| `MCResPool` | instances of `ResPool` for TLC |
| `PollSet` | what the poll table promises: a set of sockets polled, held or forgotten |
| `PollTable` | `src/xmltp/gx_poll.c`, with its caller and the peers; properties, inductive invariant, refinement mapping |
| `PollTableProofs` | the proofs about it, refinement included |
| `MCPollTable` | instances of `PollTable` for TLC |
| `ClientConns` | client connections through the poll thread, the parsers and the workers (`gx/gxserver.py`, `gx/gxclientconn.py`, `gx/gxcallparser.py`, the ends of the monitors of `gx/gxrpcmonitors.py`), on top of `PollSet` |
| `ClientConnsProofs` | its inductive invariant, the proofs of its safety properties and of `RespectsPollSet` |
| `MCClientConns` | an instance of `ClientConns` for TLC |
| `XmltpWire` | the writer of responses and the grammar that parses them, as operators |
| `Xml2Syb` | `src/xmltp/xml2syb.c`: listener, login, execution, retries, messages |
| `XmlFiServ` | `src/xmltp/xmlfisrv.c`: the file server, a client's peer |
| `XmltpApi` | `src/xmltp/xmltp_api.c`: the client library, with `XmlFiServ` as its server |
| `XmltpLex` | `src/xmltp/xmltp_lex.c`, `xmltp_ctx.c`: a stream in chunks, read and timed out |
| `GxResponse` | `src/xmltp/xmltp_gx.c` and the interception monitor: a response relayed and captured |
| `StoreForward` | `gx/gxintercept.py` on `gx/gxqueue.py` or `gx/gxbdbqueue.py` and `gx/bdbVarQueue.py`: active queues |
| `DestConn` | `gx/gxdestconn.py`, `gxRPCmonitor` of `gx/gxrpcmonitors.py`, `sendProcCall` of `gx/gxxmltpwriter.py`: a call forwarded over a connection that is used again |
| `MessagesProofs` | the inductive invariants of `StoreForward`, `DestConn`, `XmltpLex` and `Config`, and the proofs of `CallsAreKept`, `AnswerIsOwn` and `ReadsWhatWasWritten` |
| `Containers` | `src/misc_fn/linklist.c`, `src/dynarray/` |
| `Config` | `src/cfg_read/ucfg.c`, `ucfg_clt.c`, `src/misc_fn/getline1.c` |
| `SockObj` | `src/sock_fn/` |
| `RpcText` | `src/ct10api/ct10rpc_parse.c`, `src/dulib/check_num_string.c` |
| `Libraries`, `MCLibraries` | the modules from `Xml2Syb` to `RpcText` side by side, eleven parts each with its own environment, and an instance for TLC |
| `LibrariesProofs` | the proofs about the sockets and the XMLTP programs in `Libraries` |
| `UtilitiesProofs` | the proofs about its containers and the texts of calls |
| `InputProofs` | the proofs about what is taken in: the lists that the gateway makes of a response, the configuration, and with them `InputIsTrue` |
| `Ct10Recov` | the tables and the decision of `src/ct10api/ct10reco.c` |
| `Ct10Api`, `MCCt10Api` | the connection and the calls of `src/ct10api/ct10api.c`, on `Ct10Recov`, and an instance |
| `Ct10ApiProofs` | its inductive invariants and the proofs of its safety properties |

### ResPool

Variables carry the names of the code's attributes: `resourcesQueue`,
`requestsQueue`, `privRequestsQueue`, `b_open`, `b_stopThread`,
`operationToDo`, `ctrResDone`, `tStampOperation`, `tStampLastOper`. `pc` holds
the control point of the monitor and of each worker; a worker is named by the
resource it runs on, since a resource is never given to two
(`ResourceExclusive`, proved). `monRes`, `monReq` are the monitor's local
variables; `tmp` is what a thread has read of `ctrResDone` before it writes it
back.

An action reads or writes shared state once, because the interpreter may switch
between two reads:

* callers: `IsOpen`, `AddRequestCheckStop`, `AddRequestCheckFull`, `AddRequestPut`;
* monitor (`processOneRequest`): `MonitorLoop`, `MonitorGetRes`, `MonitorCheckStop`,
  … `SpawnRequestThread`, `SpawnFails`;
* release, by a worker or by the monitor that failed to start one:
  `ReleaseResource` (which rebuilds or loses a broken connection),
  `PutResInQueueExt`, `DoOperation`, `CountResDone`, `TestAllDone`,
  `OperationCompleted`, `PutResource`;
* kills: `WorkerKills`, `AddPrivRequest…`, with the dummy request that wakes the monitor;
* `AssignOperation…` (an operator's `clean`) and the stop:
  `AssignStopThreadFlag`, `StopPut…`, `Shutdown…`.

The strings that the code puts in a queue to wake the monitor are the model value
`Dummy`: the code looks at their type only. Of the time stamps only the order
matters; they are counted.

### PollTable

`fdAt`, `revents`, `high`, `firstFree` are `s_poll_tab[].fd`, `.revents`,
`s_high_ctr_poll_fd_used` and `s_position_first_fd_free`. Slot 0 is the
listening socket. `pollClients` is a sequence of actions of the poll thread:
`PollClients` (take the addList), `AddBack` or `AddRefused` for its members,
`PollTimeout`, `PollEvents` or `PollInterrupted`, then one action per slot —
`NoEvent`, `AcceptConnection`, `AcceptNoSlot`, `AcceptFails`, `ClientInput`,
`ClientDisconnected` — and `EndOfPass`. `GetPollTab` compresses the table.
Between two of these actions peers connect, send and hang up (external,
`Peer…`), and the gateway's workers read, return and close the sockets they hold
(`Gateway…`). The order of the addList is left open, which covers the order of
the queue it comes from. The kernel may give a new connection any number not in
use, including that of a client that was just closed.

`WatchedOnce` assumes that the gateway closes and returns only sockets it holds;
`RespectsPollSet` of `ClientConns` says that it does.

### ClientConns

`dict` is `dictSdToClientConn`; `state`, `login` and `sock` are the state, the
user id (set or not) and the socket of a client's `gxClientConn`; `returned` is
`queueOfClientsToReturnToPollList`. `owner` and `peer` are the kernel's side:
whose connection a number is, and what the peer has done. The poll table is the
set `watched` of `PollSet`; the lists of one pass are `todo`, `disc` and `input`.
`work` and `kind` say where a client's request is: in the parsers' queue, being
routed, in a pool, or with a thread that is disconnecting the client.

The poll thread (`AddBack`, `PollReturns`, `Accept`, `ClientInput`,
`ClientDisconnected`, `Disconnect…`, `RefuseClient`, `NewClient`,
`RefuseRequest`, `NewRequest`) is one thread, so each client it handles is one
step. A pool's thread takes its steps between: `ParseCall`, `ParseError`,
`EndOfStream`; the routing, `RejectAndClose`, `RejectFails`, `RejectAndReturn`,
`Queue`; and the end of the execution, `Answered`, `Recovered` (which assigns a
state once more after the client is returned, `LateState`) and `FailAndClose`.
The disconnection of a pool's thread is two steps, since others run between the
removal from the dictionary and the `close()`. The kernel gives out the lowest
free number, as POSIX prescribes, to `accept()` and to the `dup()` of
`socket.fromfd()`.

The pools appear as what happens to a request, in any order among the clients;
`ResPool` has their inside. `RespectsPollSet` composes the module with the table:
seen through the mapping that takes the open numbers that are not watched for
those in the gateway's hands, it takes only steps that `PollSet` allows.

### The XMLTP programs

A response is a record that the writer's functions change as the C functions
change their static flags: the tags that are open, the sets and rows counted, and
what was sent, as a sequence of parts. `XmltpWire` has those functions and the
grammar of `xmltp_gram.y` as an automaton over the parts; `IsSentence` says that a
client's parser accepts them. Characters do not appear: only `XmltpLex` reads
characters, over an alphabet of those that the lexer treats differently, cut into
chunks in every way, with encoding and decoding by what they do. A peer may
write a tag that the table of the lexer does not have (`SendUnknown`): the parser
takes its negative token for the end of the input, and parsing fails.

`Xml2Syb` composes the session and one execution after the other: CT10 calls back
with headers, rows, parameters, messages and errors in any order it allows (`Ct10Api`
has their origin). Each call of the handler is a step, as in `sf_process_row`: the
header of a result set (`BeginSet`) or of the output parameters (`BeginParams`), and
then each row (`Row`, or `RowFails` when a column cannot be converted) or parameter
(`ParamShown`, `ParamFails`); the time may pass (`TimesOut`) and the execution end
(`ExecEnds`) between any two of them. `call.half` says that what is written last is
not complete yet, `call.cut` that something was left so. `NextTry` begins a retry, `Finish` closes the response and `Exits`
leaves the process in the middle. `XmltpApi` is a stack of calls (a call that
reconnects logs in by a call of its own), against `XmlFiServ`, whose answers and
broken connections come in any order. The recovery table of the client library is
in a file that is not in the repository (`xmltp_api_reco.c`): it is the constant
`Reco`, any function of the error's class that resets the connection after an error of
sending or receiving (`XmltpApiAssumption`). The library creates its socket object
without a limit of retries (`xmltp_api.c:1044`): a connection that times out, and one that
is refused inside a send, is tried again for ever in `Open` and `Reconnects`, and what
fails there (`OpenFails`, `ReconnectFails`) is what the code does not repeat. `GxResponse` is one call through the
gateway, from `parseResponse` to what the monitor does with its answer.

### StoreForward

`store` is the queue with its open flags, `mon` the thread of
`ActiveQueueMonitor` — its control point, the item it holds, the return status of
the frame and whether the frame is used for a ping —, `fate` what became of each
item. A worker that captures a response puts rows between any two steps of the
thread; the destination, the gate and the pool answer as they like, each trouble
from a budget; the operator opens and closes; the shutdown dumps a queue in
memory item by item while the thread may still take one; a persistent queue is
restarted, after a crash or a shutdown, with what was committed.

### DestConn

`worker` is the thread of `gxRPCmonitor` with the variables that live through a
call (the retry counter, the time that is left, the return status), `rcvd` the
local variables of `recvResp`, `destConn` the connection with its state and its
dirty flag, `server` the other end of its socket with what is in transit. Calls
follow one another on the same connection, each for a client of its own
(`caller`). The steps are those between which the destination or the client may
do something: `VerifyDestConn` or `VerifyFails`; `SendProcCall`, `SendAgain`,
`SendGivesUp`; one step for every `recv()` — `Receives` with what it found of the
end and what it sent to the client, `Resends`, `RecvEof`, `RecvBreaks`,
`RecvTimesOut`, `TimePasses` —; the cases of `receiveResponse`
(`ResponseComplete`, `ClientIsGone`, `ResponseIsPartial`, `NoResponse`); and
`ReleaseDestConn`, which marks the connection dirty. `verifyDestConn` with its
`connect` and its login is one step with the states it can leave the connection
in: the login is itself a call on a connection nobody else uses. A `recv()` of the
response takes any number of the cells in transit; the tag that ends a response
is two cells, so a cut may go through it.

### Containers, configuration, sockets, texts

`Containers` keeps the list and its cursor, the array with its capacity and its
counter of memory, and what a program has been shown by its loop; any element may be
removed, and `astray` remembers that it was one that the cursor is not made for. `Config` reads a
file of lines (words, indentation, continuation) and answers a program that loops
over values. `SockObj` cuts a call at each system call; a limit of zero is none, as in the code. `RpcText` parses a text
over an alphabet, with the states of the C parser. In each the properties compare
the outcome with a definition on the whole input that does not follow the code.

### Ct10Recov and Ct10Api

`Ct10Recov` has the recovery tables, the entry a message finds (`EntryOf`), the
counters, what an entry proposes (`ProposedCode`) and what is posted on a
connection (`Posted`), as operators and constants. `Ct10Api` is one handle: `conn` and `lib` its
connection and the vendor's, `pc` the point of `ct10api_exec_rpc`'s loops, `res`
the masks that the callbacks set. The vendor's library is external: results,
rows and messages arrive in any order it allows.

## 4. Runs

| Run | Expect | Instance | Shows |
|---|---|---|---|
| `respool_safety` | pass | 2 resources, 3 requests, 1 kill, request queue of 1; every release outcome; stop, gates | the safety properties and `ImplementsAllocator` |
| `respool_operation` | pass | 2 resources, 1 request, 1 kill, request queue of 1, 1 operation, resources kept or lost, shutdown that drains, fairness | `OperationReachesAll` and `RequestServed` |
| `respool_refusal` | violation | 2 resources, 2 requests, 1 operation | `RefusalIsTruthful` |
| `respool_stop` | violation | 1 resource, 1 request, fairness | `MonitorExits` |
| `polltable` | pass | 3 socket numbers, table of 4 (2 clients), backlog 1, fairness | the properties of the table and `ImplementsPollSet` |
| `polltable_events` | violation | 3 numbers, table of 6, slack of one slot | `EventsAreReal` |
| `polltable_input` | violation | 1 number, fairness | `InputReported` |
| `clientconns` | pass | 2 clients, 3 numbers, fairness | the properties of the connections and `RespectsPollSet` |
| `clientconns_gone` | violation | the same | `GoneIsForgotten` |
| `ct10_calls` | pass | 1 handle, six messages, 2 messages a call, fairness | the properties of `Ct10Api` |
| `libraries` | pass | the eleven parts of `Libraries`, fairness of each | the properties of `Libraries` |
| `client_send` | violation | the client library and the file server | `EveryCallReturns` |

**Properties.** `ResPool`: `ResourceExclusive`, `NoResourceLeak`,
`ReleaseNeverBlocks`, `RequestInOnePlace`, `PrivOvertakenOnce`,
`PrivFlagTellsRequest`, `StopStartsAtMostOne`, `OperationReachesAll`,
`RequestServed` and the refinement `ImplementsAllocator`. `PollTable`:
`WatchedOnce`, `NoSlotWasted` (an action property), `InputReportedOrError`
(liveness) and the refinement `ImplementsPollSet`. `ClientConns`: `InOnePlace`,
`DictIsTrue`, `FirstCallIsFirst`, `ClosesNobodyElse`, `EventHandled` (liveness)
and the refinement `RespectsPollSet`. `Ct10Api`: `OneExecutionShown`,
`CommandIsLive`, `ErrorIsReported`, `RetryIsAllowed` (an action property) and
`CallReturns` (liveness). `Libraries`, each named after what it says:

| Property | Parts | What could be wrong |
|---|---|---|
| `ResponsesParse` | xml2syb, gateway | a response left open, or begun twice, by an error, a timeout or a retry between two rows, or between a header and its values |
| `OneExecution` | xml2syb, client | rows of a try that was repeated stay in the answer |
| `NoMessageLost` | xml2syb | a message that came before a retry, or past the table's end, is not listed |
| `GxReportIsOwn` | gateway | an interceptor is given lists of an earlier response |
| `ContainersAreTrue` | list, array | a cursor that a removal at it or right behind it leaves wrong, neighbours of a search at an end, memory counted wrongly |
| `SocketsAreTrue` | socket | a descriptor lost or used after it is closed; a byte sent twice over a reconnection |
| `InputIsTrue` | reader, config, text | a token cut at a chunk's end, a definition that hides another, a static buffer of an earlier parameter |
| `CallsAreKept` | queue | a stored call lost, overtaken, or counted as done without being executed |
| `AnswerIsOwn` | forward | a late answer, or the answers of two tries, shown to a client; the end or the status missed at a cut; a connection used again while something is under way on it; a call executed that the client is told was not |
| `CallsEnd` | all that call | a retry, a wait or a parse that never ends |

The liveness properties are stated as what comes again and again: no request is
queued, taken or dropped, unless the pool is stopped or every resource is gone
(`RequestServed`); a socket is not watched, has nothing to report, or
`pollClients` has answered with an error (`InputReportedOrError`); no call is
under way (`CallReturns`, `CallsEnd`). Where the requests or calls are finitely
many, or a new one begins only after the last, this says that each of them ends.
Each module states them at its
end with the behaviour of the code they are about; each has at least one mutant
(`Mut…`, listed in `PROJECT.json`), a plausible slip in the code with which TLC
finds it violated.

**Bounds.** Two resources are the least for which two threads release at once
and for which one request can be on a resource while another waits for one;
three requests and one kill fill the queue of one behind them, so that a request
is refused, a kill is overtaken and a stop finds requests in the queue, at the
monitor and on a worker. The drain at the shutdown is in `respool_operation`.
`MaxOps` and `MaxRefusals` cap the operator's calls, which nothing else limits;
two overlapping operations, and a refusal next to the liveness, are outside the runs
(`respool_refusal` has one). `MaxRequests` is a parameter of
the code, 0 for no bound. For the table, four slots are the listening socket, two
clients and the one slot the code never uses; three numbers are one more than
the clients that fit, so that refusals, reuse of a number and a full table
happen. `Slack` is 100 in the code: it only delays the compression, and 0 or 1
makes it happen in a small table. `polltable_events` keeps a slack of one, as the
code has one, and so needs a larger table for a compression to happen. The proofs are for all values.
For the connections, two clients are the least for which one gets a number that
the other has just left, while the other's thread is still busy with it; each
comes back any number of times. A third number serves the `dup()` of one while
both are connected. `MaxSockets = 2` is therefore never the reason of a
refusal in these runs: `RefuseClient` fires there because the socket options of
a client that has already left cannot be set. An instance with three
clients and four numbers, where the limit can be reached, was run once for the
safety invariants only and they held; it takes minutes and is not kept as a run.

For `libraries`, a part begins where its bounds make each of its cases
happen. xml2syb: a try after the first (`MaxTries = 2`), a result set of up to
two rows and output parameters (`MaxRows = 2`), so that one may fail before or behind
another, one message in the table before it overflows.
Client and file server: two calls, so that the state of one is met by the next,
and two broken connections, one for the call and one for its retry; `Reco`
repeats once. Reader: strings of two characters over five kinds, chunks of up to
two, a buffer of six, one timeout. Gateway: two messages, two gaps, two calls,
so that the lists of the first could show in the second. List and array: seven
operations on three data, memory for four elements. Configuration: every file of
up to three of seven lines — among them two sections on a line, a second
definition, a comment, a continuation, a prefixed parameter —, two opens. Socket:
messages of three bytes, limits of one retry and of three and no limit, three calls. Text: up
to two texts of seven characters over three alphabets, each with the characters
that one kind of value needs, and a table of two parameters. Queue: three items,
room for two, two errors (20 in the code) and two troubles of any kind, so that
a failed removal can be followed by a crash. Forward: two calls, so that the second
meets what the first left on the connection; responses of four cells, the status
three cells from the end and a window of two, the smallest that the assumption
`TailLength <= Window + 1` allows (in the code the tail is at most 70 bytes, the
window 70); one fault, so that a call is retried or a client leaves (`AnswerOwn` is
proved for any number of faults).
`RetryStatus`, the statuses on which xml2syb repeats a procedure, is empty in
the run: with one, a retry after rows leaves an ill-formed response (section 5).
For `ct10_calls`, six messages, one for each way an entry of the tables
answers (retry, ignore, application's error, timeout, dead connection, no
host); a configuration that makes the retries few and the escalation near; two
messages in a try, so that a harmless one may come with a fatal one; counters
up to two.

**Symmetry** is used where no liveness is checked: resources, requests and
socket numbers are interchangeable.

**Deadlock** is not checked: a pool that is stopped has nothing left to do, and
a table that no client uses and that is at its bound may be quiet.

**Fairness.** `ResPool`: weak fairness of each thread's own steps, since the
interpreter schedules every thread that can run; a worker ends because its
sockets have timeouts. Callers, the operator, a kill and the stop come from
outside: they need not begin, but finish what they have begun. `PollTable`:
weak fairness of the poll thread's next step, which loops while the gateway runs
and whose `poll()` has a timeout of milliseconds (the loop also ends after twenty
exceptions; pollClients raises none for the events of the model). Nothing is assumed of
peers or of the workers that hold sockets. `QuietSpec`, for the violation
`InputReported`, also assumes that signals do not interrupt `poll()` for ever
(strong fairness): the counterexample is then not one of interruptions.
`ClientConns`: weak fairness of the poll thread, and for each client strong
fairness of the progress of its request — a worker's waits have timeouts, and a
pool whose thread cannot be started gives the client back, which is not counted
as progress and is assumed not to happen every time. Peers need do nothing.
`Libraries`: weak fairness of each part's program, of the file server and of
the thread of a queue and the worker that answers it, and of the worker that
forwards a call, each of whose waits has a timeout; CT10's callbacks, peers,
operators and shutdowns owe nothing. `Ct10Api`: weak fairness of the program and
of a connect, a send and a fetch, which the vendor's timeouts end; strong
fairness of `Ending`, since a server that sends results for ever is not a fault of
the program.

## 5. Disagreements found

* `respool_refusal`: `putResInQueueExt` updates `ctrResDone` without a lock
  (`gx/gxrespool.py:754`). A lost update leaves the operation "not completed"
  for good, and the next `clean` is refused until it is forced.
* `respool_stop`: the stop puts a dummy in the bounded `resourcesQueue`; a monitor
  that has taken a resource puts it back with a blocking put and finds no room
  (`gx/gxrespool.py:223`): it never exits.
* `polltable_events`: `sf_create_new_poll_fd` does not reset `revents`
  (`src/xmltp/gx_poll.c:507`), unlike `sf_reuse_old_poll_fd`. After a
  compression a connection accepted in the same pass may be reported, or closed,
  on the strength of another socket's old event.
* `polltable_input`: a failed `accept()` leaves the loop before any client's slot
  (`src/xmltp/gx_poll.c:971`). When the process is out of descriptors the clients
  it has are not heard either.

* `clientconns_gone`: with a debug level of three or more, the log message of a
  login that a group gate blocks is built by calling a string
  (`gx/gxcallparser.py:354`). The `TypeError` ends the thread before the client
  is answered and disconnected: its number is neither polled nor closed, for good.
* `client_send`: the writer's count of failed sends is never reset
  (`src/xmltp/xmltp_writer.c:145`). After one failed send the client library
  reconnects and retries, as its header asks, but writes nothing and waits for an
  answer for ever.

Seen in the models, and not stated as runs:

* *Poll table.* It closes the number of a client that hangs up
  (`src/xmltp/gx_poll.c:371`) and `processDisconnect` closes it again
  (`gx/gxclientconn.py:619`). `ClosesNobodyElse` shows that no other *client* has
  the number by then, since the poll thread itself hands out clients' numbers and
  treats disconnections first. Whatever else another thread opens between the two
  closes — a connection to a destination, a file — is not in the model, and
  nothing in the code protects it.
* *Pools.* An operation that is assigned between the last count of the previous one
  and the clearing of its flag (`gx/gxrespool.py:696`, `:757`) is accepted, without
  force, and cleared with it: it is done on the resources that are released before
  only. A resource that is lost or rebuilt is not counted, so that an operation
  during which that happens is never declared completed, and the next one has to be
  forced. A lost update has the same effect (`respool_refusal`).
* *Active queues.* When the gate is closed, `writeEndRPClogMsg`
  (`gx/gxrpcmonitors.py:428`) is undefined: nobody notifies the queue's thread,
  which waits for ever (`stuck`); so it does when the pool refuses the request.
  When the destination is closed the thread is notified, but no status is
  assigned, and the initial one is in the range that drops the call
  (`gx/gxintercept.py:859`) — where a ping was meant. A ping's status stays in the
  frame: a call that follows and could not be sent counts as done (`pinged` in
  `DoneIsExecuted`). A failed removal hands out the item and keeps it (`doubled`).
  A put that fails in the storage answers success (`unstored`). The twenty errors
  that end the thread are counted over its life.
* *Forwarded calls.* `send` may take a part of what it is given (the socket has a
  send timeout): the comment says that every byte is sent back
  (`gx/gxrpcmonitors.py:1598`), the code only logs a warning and returns the client
  to the poll list with a truncated response (`short`). After a retry a client may
  be told that the destination is not available, a status that says the call may
  be repeated, though the first send was executed: `ExecutedAsTold` says it for a
  call that was not retried. A connection that the destination has closed passes
  the test of `verifyDestConn`, since `drainConnection` takes an end of file for
  an empty socket; it is found when the response is waited for, which is what the
  retry is for.
* *Client library.* A timeout never ends its wait (it is reset to none, and a read
  that would block goes on). The flag that a result is shown is not reset by
  a login, and output parameters do not set it: a retry may show them twice.
  `write_params` that fails sends a truncated call. `sock_obj_send` reconnects
  without logging in.
* *xml2syb.* A retry by return status after rows have been sent leaves an
  ill-formed response (`xml2syb.c:3419`, against its comment at 3405); the messages
  of the failed tries are sent too. A parameter that is `NULL` is dropped and the
  procedure executed without it. A `fork` that fails ends the listener. A
  second column that cannot be converted (`xml2syb.c:1778`) leaves its row half-written
  when it was in the last row of its set (the next row completes it); the header of the
  output parameters opens their list (`:1718`), and a timeout (`:1668`), a value that
  cannot be converted or a `ct_fetch` that fails before the first value leaves it empty.
  `xmltp_gram.y` has neither a row without its end nor an empty list (`:259`): such a
  response does not parse. `SybResponseParses` says that these are all the responses
  that do not (`cut`), and that each of them does not.
* *Reader.* A value that ends with a backslash hides the bracket of its end tag
  (`xmltp_lex.c:335`; excluded from `InputIsTrue` by `Backslashed`). In a file of
  two documents the second is read as the answer of the next call.
* *Gateway.* The status and the lists of an earlier response stay when no response
  is parsed (`xmltp_gx.c:350`): `GxReportIsOwn` holds because they are only given to
  an interceptor after a response without error.
* *Configuration.* An open with a duplicate answers 0, not
  `UCFG_PARAM_DUPLICATED` (`ucfg.h:115`); a prefixed parameter with an empty list
  ends a loop early (excluded from `ValuesAreShown`).
* *Sockets.* A send that reconnects answers a warning where its comment promises
  an error, and sends the rest of the message on the new connection; no retry
  limit means retries for ever (`sock_obj.c:291`), which is what the client library
  asks for: a call to a server that does not listen waits for it (`WaitsForServer`, excluded
  from `CallsEnd`); the reconnection in `recv` cannot be reached.
* *Lists.* The removal of an element in front of the cursor takes the cursor back to
  it (`linklist.c:224`), and that of one further behind takes it forward: a loop in
  whose body that happens gives elements twice or leaves some out (`astray`, excluded
  from `LoopGivesAll`).
* *Text of a call.* A trailing comma is accepted and counts a parameter that was
  never made (`trailing` in `CountIsTold`).
* *CT10.* After fifteen errors of an application the escalation changes the code
  of a call that should succeed; `ct10api_connect` makes one attempt whatever
  its "number of attempts"; a send that fails returns without dropping its command;
  a failure without a message would be retried without end. The model assumes
  what the library documents, that a message announces a failure
  (`Announced`): `CallReturns` rests on it.

## 6. Proofs

All theorems are for every value of the constants that satisfies the named
assumption of the module (`PoolAssumption`: a finite non-empty set of resources,
disjoint sets of requests, natural bounds; `TableAssumption`: finitely many
sockets, a table larger than two slots; `ConnAssumption`: finitely many clients
and more numbers; `ForwardAssumption`: natural bounds; `DestAssumption`: a response
whose status and end fit into the window and one byte more; `Ct10Assumption`: any
set of messages of the three layers, whether or not the connection dies of them;
`ContainersAssumption`: keys that are integers; `RpcTextAssumption`: a table that is
not empty; `SockAssumption`: a message that is not empty, any limits of retries;
`XmltpApiAssumption`: any recovery table that resets the connection after an error of
sending or receiving; `Xml2SybAssumption`, `XmlFiServAssumption`: bounds that
are not zero where the code needs one, and any set of files). TLC evaluates them on the
instances.

**ResPool.** `IInv` (in `ResPoolInv`) adds to the
safety properties what makes them inductive:

* `Shape`: what the monitor's locals hold at each control point, and that
  only resources are in the queue until a stop — without it
  `ResourceExclusive` is not preserved when the monitor takes or gives back;
* `WorkShape`, `KillShape`: what a worker has in hand — for `RequestInOnePlace`
  when it ends or kills;
* `OvertakenShape`: a kill that was overtaken once finds the monitor on its way
  to look at the privileged queue — for `PrivOvertakenOnce`;
* `FlagShape`, `StartedShape`: the same for the flag and the stop.

* `OperShape`: `ctrResDone` is at most the number of resources that are stamped
  (`CountShape`), although threads that release at once overwrite each other's
  counts; before the operation is stamped it is due on no resource, and nobody
  counts (`BeforeShape`) — for `OperationReachesAll`. That the thread which has
  stamped a resource, and not yet counted it, counts one more than it read at most
  needs that no other thread has the same resource in hand: `ResourceExclusive` again.

`Init => IInv` and `IInv /\ [Next]_vars => IInv'` are proved action by action;
`Invariant`, `TypeCorrect`, `Exclusive`, `NoLeak`, `OnePlace`,
`OvertakenAtMostOnce`, `FlagTells`, `StopStarts` and `OperationReaches` follow. `NeverBlocks` needs
more: the resources in the queue are distinct and the one being released is not
among them, so by the pigeonhole principle the queue is shorter than its bound.
`Refinement` maps the requests' stages and the workers'
requests to the allocator's and shows that each action is one of the allocator's
steps or none.

**PollTable.** `IInv` adds to `TypeOK` and `WatchedOnce`:

* `HandInv`: the sockets held, returned, to be added and reported are disjoint
  and open — otherwise one could be added twice;
* `GuessInv`: no slot before the guessed first free one is free — it is why a
  search that starts at the guess finds every free slot, and the heart of
  `NoSlotWasted`;
* `PassInv`: in the rest of a pass there is a socket where there is an event —
  otherwise the pass would report slot -1.

`AddFacts`, `TakeOutFacts` and `CompressFacts` say what the three changes of the
table do; the steps of `NextIInv` cite them. `NoSlotWastedCorrect` is the
action property. `Refinement` shows that the table implements `PollSet`; for
`AddRefused` it needs that a full table polls `TableSize - 2` clients
(`FullTable`, an injection from slots to sockets).

**ClientConns.** The properties speak of what the gateway believes; they follow
from an invariant that ties it to the kernel's side:

* `KernelInv`: a connected client has one number — with it, as there are more
  numbers than clients, one is free when a client connects (by the pigeonhole
  principle), so that `accept()` has a lowest free number to give;
* `PlaceInv`: an open number is polled, reported, returned, or with the thread that
  has its client's request;
* `PassInv`: no connection is accepted while a disconnection of the pass is still
  to be handled — why a number that is to be forgotten is nobody else's;
* `ConnInv`, `DictInv`: what the gateway takes for a client's number is the one the
  kernel has, unless its disconnection is to be handled, and the dictionary agrees;
* `LateInv`: a thread that still has to assign a state, after its client was
  returned, does not make a first call of a later one.

`ConnsTyped`, `OnePlace`, `DictTrue` and `FirstCall` follow, `ClosesOnlyItsOwn` is
the action property, and `UsesPollSet` shows that every step is one that `PollSet`
allows. With `Refinement` of the table this closes a circle: the table assumes
that the gateway closes and returns only sockets in its hands, and is what the
connections assume it to be.

**StoreForward.** `CallsAreKept` relates the history of every item to the queue
and the thread. `FwdInv` adds that items in the queue are in order and those not
yet stored come after them (`QueueInv`), what the thread holds at each point
(`HeldInv`), that an item without a fate is in one place (`KeptInv`), that what was
sent came before what is stored (`OrderInv`), and that an answer belongs to the
call that is held (`AnswerInv`).

**DestConn.** `AnswerIsOwn` speaks of what the client has; the invariant `DestInv`
follows the bytes back to their execution:

* `ConnInv`: when a call is sent, and whenever its connection is kept, nothing is
  under way on the connection and it is logged in — why no late answer to another
  call can arrive;
* `ServerInv`, `StreamInv`: what arrived and what is in transit are one response,
  the last execution's, in order, and what the gateway keeps of it is its end;
* `GotInv`, `ToldInv`: the client has the beginning of what arrived, and an error is
  told only when nothing was sent;
* `ExecInv`, `LengthInv`: a call has no more executions than sends.

That the cases of `receiveResponse` decide rightly rests on the window:
`EotFound`, `StatusFound` and `EnoughKept` show that the end is found exactly when
all of the response has arrived, with its status, however the bytes were cut, and that
what is kept is enough for the next look. It is where `DestAssumption` is needed,
and why the code keeps 70 bytes: as many as the end of a response has from its status on.

**Ct10Api.** Two invariants, since not everything needs the same. `CallInv` holds
whatever the application does, even if it goes on with a handle it has closed:

* `StackInv`: an initialisation string is executed on a connection that has just
  been opened, so that it never connects in its turn: calls nest at most once;
* `ShownInv`: only the last try has shown results, and the mark it leaves forbids
  another one — `OneExecutionShownHolds`;
* `CommandInv`: the command that is sent or read is one of the connection that is
  open, and still is before a retry that does not reset it — `CommandIsLiveHolds`.

`PostedInv` is about what the messages post on the connection, and holds if a
closed handle is not used again (`UseAfterClose = FALSE`; a message for a handle
that is not in the list finds no owner, and is not posted):

* `HeardInv`: the code on the connection is the least that a message of this try
  proposed, and the marks are there whenever one forbids something: with a harmless
  code every message was harmless — `ErrorIsReportedHolds`;
* `RetryInv`: the retries are as many as the entries allow, at most ten in the
  range that the code checks — `RetryIsAllowedHolds`, and `TypeCorrect` for the bound
  of eleven tries.

**Libraries.** Every step of `Libraries` is a step of one part and leaves the others
alone, so that an invariant of a part is one of the whole.

*Sockets.* `SockInv` adds to `SocketsAreTrue` that an object which is connecting
has no descriptor, that the object's and the listener's are different
(`OwnerInv`), and that while a send runs the bytes left are those behind the bytes
sent (`BytesInv`). `NewFdFacts` is about the kernel: among one number more than
there are descriptors one is free, and there is a lowest (`LeastNumber`).

*Answers of xml2syb.* What was written is a sequence of any length, and the
properties read it with functions that recur over it. The library's induction
theorems cannot be used, but the one induction that is needed can be made by hand:
a set of numbers that has 0 and the successors of its members has all of them
(`AllNumbers`, from the least counterexample of `LeastNumber`). Applied to the
numbers at which two such functions agree it gives what a parse, the values of some
tags (`Of`) and the count of the messages (`ListedMessages`) make of one more token
(`ParseAppend`, `OfAppend`, `ListedAppend` and the lemmas around them). From there on
each operation of the writer is described by what it adds: `Neutral`, nothing that
the properties look at; `Adds`, one such token; `Writes`, values of one call.

* `MessagesInv`: until a call is answered every message is counted and none is
  listed, then all are listed or counted by the last entry — `MessagesListed`;
* `SybRows`: the values written belong to the try that runs, and there are none
  unless a result was reported present; an open row or parameter list says so too.

*Client library and file server.* `ClientInv` ties the answer under way to the call
that reads it:

* `StackInv`: logins are above the application's call, which is at the bottom, so
  that the call on the top is the only one that is told apart by its identity;
* `LinkInv`: nothing of an answer is left when a call ends, and what is on the
  link is an answer to the call on the top, its end its last token (`OwnTokens`);
* `ShownInv`: values that were shown are of the current try, and while the parser is
  inside rows the library knows that a result is present: the column names come
  first in the grammar, and their callback sets the flag (`ShiftFacts`).

`RowsOfOneTryHolds` follows for any such recovery table. `RowsOfOneExecution`, which states
`OneExecution` of both programs, has the hypothesis `RetryStatus = {}`: the list of
statuses on which xml2syb repeats a procedure is an optional parameter, empty
by default, and with it the property is false, as section 5 says.

*What is answered is a response.* Of the writer: its variables say where the parse
of what it has written stands (`Stands`; in a result set's rows, in the output
parameters, ...). Each operation has a lemma with the state it needs and the state
it leaves (`BeginSetStands` to `EndResponseStands`), from what a token makes of
the parse (`ParseAppend`, `Shifts`). `SybParse` says in which of these states a call
of xml2syb may be while it is executed: as long as nothing was left half-written (`cut`)
those from which each thing CT10 can report next, and the end, are legal; afterwards the
state of a parse that was refused, which no token leaves (`StaysAtError`) and which is
not that of a sentence (`NotAccepted`). What closes a half-written row or list
(the next set, the messages, the end of the response) leads from the one to the other
(`EndPreviousBreaks` and the lemmas around it). It is why the calls of the writer that
`xml2syb.c` makes, without looking at what was written before, compose one response
exactly when each row and list they begin is completed.

Of the gateway, `GxInv`:

* `GxUnread`: when a call is sent nothing is left on the link, and what is read is of
  its execution, its end last: a connection on which an answer is late is closed;
* `GxParsed`: the parser that is done and was not interrupted has read all of it;
* `GxForwarded`: while a response comes a connected client has what was parsed of
  it, and nothing of it before its first byte. So a call that is repeated, or given
  up with a status, has shown nothing.

`EveryResponseParses` states both, with the hypothesis `RetryStatus = {}` as above.

*What an interceptor is given.* `GxListed` follows the tokens of the answer, `GxSent`,
which is told by the reply and the execution: some number `k` of them have been read, what
is still to come is the rest (`GxTaken`), and if no error was counted the parser stands
behind the last one that was read and the lists are those of the first `k` (`GxFilled`).
The lists of the first `k` tokens are described on the answer, without the callbacks
(`ListsAre`): the values of a tag up to there (`NumbersUpTo`), the rows of a row list
(`RowsUpTo`), the counts of the result sets, and where the parser is inside a result set,
what is open of it. So a response may stop anywhere, be late, or be asked again: the first
token makes the lists anew (`ListsBegin`), and nothing older is in them.
`CallbackFills` says what the callback of a token does to the lists, and that an operation
on a list that does not exist counts an error; `ListsStep`, that `ListsAre` holds of one
more token. That an answer's counts are true (`TokensTold`) follows
from its definition, and at its end (`OwnTokens`: only the last token is `EOT`) `ListsAre` is
`GxReportIsOwn`.

*What is read of a message.* `ReaderInv` follows the characters of the message that was
written: some number `k` of them have been taken, what is in the buffer and on the
network are the next ones (`Coming`: a prefix of them, for a peer that closed), and
if no error was counted the context is what the first `k` make of it (`ReadUpTo`):
at which place of the lexer, with which tokens, and of the value the characters up to
there. `Written` lays the message out, head, value and end (`WrittenIs`, `WrittenHas`);
`EncodeGrows` and `EncodedUpToFacts` say what the encoder adds with each character of the
value, so that no bracket is in it and only a value that ends with a backslash ends so
there; `DecodeEncode` that decoding what was encoded gives the value back. Then each
character leads from one `ReadUpTo` to the next (`HeadReads`, `ValueReads`, `EndReads`;
`HiddenEndReads` for a bracket that a backslash hides), and receiving, waiting and closing leave it (`SamePlace`).
A tag that the table does not have ends the parsing (`UnknownTag`, `UnknownReads`).
`ReadsWhatWasWrittenHolds` is stated of `LexSpec`, the reader on its own; `ReaderRuns`
says that in `Libraries` it runs as it does there.

*Lists and arrays.* `LoopInv` says how far a loop is that did not go astray: the elements that it gave are
those up to the cursor, and the last one it gave is at the cursor as long as it is in
the list. A removal may leave the cursor on the element before, or in front of the
list; that what is behind it has still not been given is why the loop goes on with the
right one. `ArrayInv` is `MemoryIsTrue` and `NeighboursAreTrue` with the types. The
search is a recursive function over ranges of places (`Probe`), which divides a
range into smaller ones (`MiddleFacts`): that there is one such function
(`ProbesExist`) and where it ends (`ProbeEnds`) follow by inductions over the length
of the range, made as above. It ends at the key, or where the next element of the
range is on the key's other side, or at an end of the range (`EndsAt`); for the whole
of an ordered array that is between the key's neighbours. `ContainersTrue` follows.

*Texts of calls.* `TextInv` says what the static buffers hold at each level of the
automaton (`BuffersOwn`): the fields that the parameter has so far, from its own part
of its own text, none that it does not have yet, and the word that may be OUT while
it is read. `TurnLeads` sums up the automaton: which lists of functions lead from
which levels to which; the lemmas around `BuffersStay`, `ParamMade` and `MoreOwn` say
what each list leaves, errors in the middle of it included. `FieldsAreOwnHolds`
follows. `CountInv` ties the number of the parameter under way to the length of the
table, level by level (`CountsTo` says what a turn of the automaton means for it;
`CharTakes`, what a character does in all); behind a comma the number is one ahead, and
that is what a text that ends there is told. `CountIsToldHolds` follows. For the third part
of `RpcTextIsTrue`, `KindsAreTrue`, `NumberRun` is the automaton of
`cns_check_string` over the characters of a value, and `PlaceTells` what its place
tells of the characters before it (a digit and no point, one point, a blank behind,
or what makes it no number); by an induction over the value its last place tells
whether it reads as a number (`NumbersAre`). `KindInv` says that what stands unquoted
has no blanks, and that every entry of the table is of the kind its value reads as;
`KindsAreTrueHolds` follows.

*Configuration.* What the code does with a file is described on its logical lines
(`LinesFrom`: those from each physical line on, with the lines that continue them;
`LinesAfter`: what is behind the first `j` of them). They recur from the end of the
file; that such functions exist (`RecursExists`), and what holds of each place
(`JoinedIs`, `LinesFromIs`), follows by inductions from the last line (`FromTheEnd`).
`FindFinds` and `SectionFound` say that the search ends at the first line that opens
the section. From there `CfgReading` follows the reading: `j` lines behind it were
read, all of them indented, and the tree and the name that is kept are what those `j`
definitions make of the older tree (`TreeIs`: the first or the last definition of each
name, with the older ones, as the arguments say; `BadIs`: the first name defined
again). `TreeGrows` and `BadGrows` are the step to one definition more; at the end of
the section the `j` definitions are all of it (`DefinitionsAre`), and `DescribesConfig`
makes what `ConfigIsTrue` says of them. `CfgLoop` says that a loop has shown the first values of
the list up to its cursor (an opening ends the loop). `ConfigAssumption` says that no word is the
one that stands for no name, and that a continuation character does not stand alone
on a line: the code could then read a parameter that has no name.
`ConfigIsTrueHolds` follows; with the reader and the texts of calls it gives
`InputIsTrueHolds`.

**Only model-checked**: the liveness properties `RequestServed`,
`InputReportedOrError`, `EventHandled`, `CallReturns` and `CallsEnd` (liveness
under fairness is beyond the prover). Of the safety
properties only `LibTypeOK`: the proofs carry the types that they need in their own
invariants, part by part, and need no bound on the counters that `LibTypeOK` also states.

## 7. Not modelled

`PROJECT.json` names every component with the reason. Left out for good:
formatting of frames and logs, command-line tools, the generated parser's tables
(its grammar is in `XmltpWire`), and the wrappers of vendors' database libraries.

Inside the modelled parts:

* *Gateway's C.* The last-error record of `gx_poll.c`, memory exhaustion, errors
  of the listening socket other than those of `accept()`. In the model of
  `getPollTab` a slot with an old event counts as active, as in the code; that
  `poll()` may also clear events when a signal interrupts it is not modelled
  (nothing but that count would see it).
* *Pools.* Statistics, log messages, the switches that close single queues other
  than the resources'.
* *Clients.* The final stop, which disconnects clients from another thread; the
  pools' refusals when they stop; pseudo clients; descriptors that other parts of
  the process open; events that `poll()` reports without cause, and numbers
  running out (both shown of `PollTable`). `assignState` is one step, test and
  assignment.
* *Active queues.* The persistent queue's lock, which gives up after nine tries
  and is then released by a thread that has not got it; filters, custom
  callbacks, the commands that hold and get items of a passive queue.
* *C programs.* The getters of results, the hosts file, bulk copy, logging. In `Xml2Syb` the vendor's library reports what it
  likes; its own retries are in `Ct10Api`, and the two are not composed. In
  `GxResponse` a response is parts, in `XmltpLex` characters: that the parts are
  what the lexer delivers for a whole message is `InputIsTrue`.

## 8. Plan

Done: the pools, the poll table, the clients, the active queues, the forwarding
of calls, CT10 and the sockets, with proofs; the other C libraries and servers, and the interception. What is left, in this order:

1. `Gates` and the order of the shutdown. *Nothing is accepted after the final
   stop; overlapping groups agree on whether a gate is open.*
2. The lock of the persistent queue, in more detail than a step for each `put` and
   `get`.
3. `Xml2Syb` over `Ct10Api`, in place of its own environment.
4. A proof of `LibTypeOK`, for which the bounds of the counters of all parts would be
   added to their invariants.
