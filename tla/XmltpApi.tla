------------------------------ MODULE XmltpApi ------------------------------
(***************************************************************************)
(* The client library (xmltp/xmltp_api.c) with its parser callbacks        *)
(* (xmltp_parser_api.c), talking to the file server XmlFiServ.             *)
(*                                                                         *)
(* A call (xmltp_api_exec_rpc) connects if there is no connection, which   *)
(* logs in with a call of its own; sends; parses the response, giving the  *)
(* rows to the application as they come; and decides with the recovery     *)
(* table whether it tries again.  The table (xmltp_api_reco.c) is not in   *)
(* the repository: it is a constant here.                                  *)
(***************************************************************************)
EXTENDS XmlFiServ, FiniteSets

CONSTANTS
  Reco,     \* class -> [reset, noRetry : BOOLEAN, maxRetry : Nat]
  MaxCalls  \* bound: calls of the application

Classes == {"CONNECT", "LOGIN", "SEND", "RECV", "STATUS"}

ASSUME XmltpApiAssumption ==
  /\ Reco \in [Classes -> [reset : BOOLEAN, noRetry : BOOLEAN, maxRetry : Nat]]
  /\ Reco["RECV"].reset /\ Reco["SEND"].reset /\ MaxCalls \in Nat

VARIABLES
  cpc,       \* "idle", or where exec_rpc is: "top", "open", "send", "parse", "decide";
             \* "reconnect" is inside sock_obj_send
  stack,     \* the calls under way: the application's, then a login inside it
  fd,        \* the socket object is connected
  errClass,  \* s_error_class
  present,   \* s_result_present
  sendErrs,  \* s_ctr_socket_write_errors >= 1
  parsed,    \* the parser: [at, errs : its error counter is not zero]
  status,    \* return_status of the connection
  calls,     \* how many calls the application made
  shown      \* history: the calls whose rows the application was given

apiVars == <<cpc, stack, fd, errClass, present, sendErrs, parsed, status, calls, shown>>

NO_STATUS == -999
NewParser == [at |-> "start", errs |-> FALSE]
Frame(proc) == [proc |-> proc, tries |-> 0]
Top == stack[Len(stack)]
InLogin == Top.proc = "login"

\* A call's tries are told apart: the n-th try of the application's k-th call.
CallId == IF InLogin THEN <<0, 0>> ELSE <<calls, Top.tries>>

ApiInit ==
  /\ cpc = "idle" /\ stack = << >> /\ fd = FALSE /\ errClass = "none"
  /\ present = FALSE /\ sendErrs = FALSE /\ parsed = NewParser /\ status = NO_STATUS
  /\ calls = 0 /\ shown = {}

-----------------------------------------------------------------------------
(* The call and its loop                                                   *)

Call(proc) ==
  /\ cpc = "idle" /\ calls < MaxCalls
  /\ calls' = calls + 1
  /\ stack' = <<Frame(proc)>> /\ shown' = {} /\ cpc' = "top"
  /\ UNCHANGED <<fd, errClass, present, sendErrs, parsed, status, serverVars>>

\* The loop begins: the status is reset, and a call without a connection opens
\* one.
BeginTry ==
  /\ cpc = "top"
  /\ stack' = [stack EXCEPT ![Len(stack)].tries = @ + 1]
  /\ errClass' = "none" /\ status' = NO_STATUS
  /\ cpc' = IF fd THEN "send" ELSE "open"
  /\ UNCHANGED <<fd, present, sendErrs, parsed, calls, shown, serverVars>>

\* xmltp_api_connect: the login is a call of its own.  The socket object has no
\* limit of retries (connect_max_retry is 0): while the attempts time out, the
\* call waits here.
Open ==
  /\ cpc = "open"
  /\ listener.at = "accept"
  /\ fd' = TRUE /\ link' = NewLink /\ session' = [at |-> "waits", cached |-> "none"]
  /\ stack' = Append(stack, Frame("login")) /\ cpc' = "top"
  /\ UNCHANGED <<errClass, present, sendErrs, parsed, status, calls, shown, listener, breaks>>

\* A refusal and the other errors of connect, and a socket that the system does
\* not give.
OpenFails ==
  /\ cpc = "open"
  /\ errClass' = "CONNECT" /\ cpc' = "decide"
  /\ UNCHANGED <<stack, fd, present, sendErrs, parsed, status, calls, shown, serverVars>>

\* xmltp_api_close_connection
Closes ==
  /\ fd' = FALSE /\ link' = NoLink
  /\ session' = [at |-> "none", cached |-> "none"]
  /\ UNCHANGED <<listener, breaks>>

-----------------------------------------------------------------------------
(* Sending                                                                 *)

\* The lexer is reset, and the call is written.  A parameter of a type that
\* cannot be written ends the list, and the call is sent all the same.
Sends ==
  /\ cpc = "send" /\ present' = FALSE /\ parsed' = NewParser
  /\ UNCHANGED <<stack, status, calls, shown, listener, breaks>>

\* The writer asks for an abort, and counts the failure.
Outcome(failed) ==
  /\ errClass' = (IF failed THEN "SEND" ELSE errClass) /\ sendErrs' = failed
  /\ cpc' = IF failed THEN "decide" ELSE "parse"

\* A broken link takes the call, and loses it.  A send that is late, of three
\* turns or more, answers the warning that it reconnected, which the writer
\* takes for a failure: the call was sent, and counts as failed.
SendSucceeds(late) ==
  /\ Sends /\ ~sendErrs /\ Outcome(late)
  /\ link' = IF link.up THEN [link EXCEPT !.request = <<Top.proc, CallId>>] ELSE link
  /\ UNCHANGED <<fd, session>>

\* An error that sock_obj_send does not recover from, a reset for instance.
SendFails ==
  /\ Sends /\ ~sendErrs /\ ~link.up /\ Outcome(TRUE)
  /\ UNCHANGED <<fd, link, session>>

\* sock_obj_send finds the link broken, and connects again.
LinkIsFoundBroken ==
  /\ Sends /\ ~sendErrs /\ ~link.up
  /\ cpc' = "reconnect" /\ Closes
  /\ UNCHANGED <<errClass, sendErrs>>

\* The call is sent in the new session, without a login.
Reconnects(late) ==
  /\ cpc = "reconnect" /\ listener.at = "accept" /\ Outcome(late)
  /\ fd' = TRUE /\ link' = [NewLink EXCEPT !.request = <<Top.proc, CallId>>]
  /\ session' = [at |-> "waits", cached |-> "none"]
  /\ UNCHANGED <<stack, present, parsed, status, calls, shown, listener, breaks>>

\* A refusal is repeated here, and so for ever is a connection that times out;
\* any other error leaves the object without a descriptor.
ReconnectFails ==
  /\ cpc = "reconnect" /\ Outcome(TRUE)
  /\ UNCHANGED <<stack, fd, present, parsed, status, calls, shown, serverVars>>

\* After a failure nothing is written any more, and flushing nothing succeeds.
SendsNothing ==
  /\ Sends /\ sendErrs /\ cpc' = "parse"
  /\ UNCHANGED <<fd, errClass, sendErrs, link, session>>

-----------------------------------------------------------------------------
(* Parsing                                                                 *)

\* The column names, a row and the number of rows are given to the application.
Shows(token) == token[1] \in {"/COLNAMES", "/ROW", "NBROWS"}

\* One token, and the callback of its rule.
Read ==
  /\ cpc = "parse" /\ link.answer # << >>
  /\ LET token == Head(link.answer)
         ok == Shift(parsed.at, token[1]) # "error"
         next == IF ok THEN Shift(parsed.at, token[1]) ELSE SkipFrom(parsed.at)
     IN /\ parsed' = [at |-> next, errs |-> parsed.errs \/ ~ok]
        /\ present' = (present \/ (ok /\ Shows(token)))
        /\ status' = IF ok /\ token[1] = "STATUS" THEN token[2] ELSE status
        /\ shown' = IF ok /\ token[1] = "VAL" THEN shown \cup {token[2]} ELSE shown
        /\ errClass' = IF next = "done" /\ parsed.errs THEN "RECV" ELSE errClass
        /\ cpc' = IF next = "done" THEN "decide" ELSE cpc
  /\ link' = [link EXCEPT !.answer = Tail(@)]
  /\ UNCHANGED <<stack, fd, sendErrs, calls, listener, session, breaks>>

\* recv() says that the peer has gone.
ReadEnds ==
  /\ cpc = "parse" /\ link.answer = << >> /\ ~link.up
  /\ errClass' = "RECV" /\ cpc' = "decide"
  /\ UNCHANGED <<stack, fd, present, sendErrs, parsed, status, calls, shown, serverVars>>

-----------------------------------------------------------------------------
(* Behind a try: the error class by status, and the recovery               *)

ClassOf == IF errClass = "none" /\ status # 0 THEN "STATUS" ELSE errClass

\* Mutant of MayRetry: rows that were given do not matter.
MutMayRetry(class) ==
  /\ class # "none" /\ ~Reco[class].noRetry
  /\ Top.tries <= Reco[class].maxRetry

MayRetry(class) ==
  /\ class # "none" /\ ~Reco[class].noRetry
  /\ Top.tries <= Reco[class].maxRetry
  /\ ~present

Resets(class) == class # "none" /\ Reco[class].reset /\ fd

Retry ==
  /\ cpc = "decide" /\ MayRetry(ClassOf)
  /\ IF Resets(ClassOf) THEN Closes ELSE UNCHANGED <<fd, serverVars>>
  /\ errClass' = ClassOf /\ cpc' = "top"
  /\ UNCHANGED <<stack, present, sendErrs, parsed, status, calls, shown>>

Finished == cpc = "decide" /\ ~MayRetry(ClassOf)

\* The application has its return code and its status.
Return ==
  /\ Finished /\ Len(stack) = 1
  /\ IF Resets(ClassOf) THEN Closes ELSE UNCHANGED <<fd, serverVars>>
  /\ errClass' = ClassOf /\ cpc' = "idle"
  /\ stack' = << >>
  /\ UNCHANGED <<present, sendErrs, parsed, status, calls, shown>>

\* sf_login: a login that failed closes the connection.
LoginReturns ==
  /\ Finished /\ Len(stack) > 1
  /\ stack' = SubSeq(stack, 1, Len(stack) - 1)
  /\ LET ok == errClass = "none" /\ status = 0
     IN /\ errClass' = IF ok THEN "none" ELSE "LOGIN"
        /\ cpc' = IF ok THEN "send" ELSE "decide"
        /\ IF ~ok /\ fd THEN Closes ELSE UNCHANGED <<fd, serverVars>>
  /\ UNCHANGED <<present, sendErrs, parsed, status, calls, shown>>

-----------------------------------------------------------------------------
TrySteps ==
  \/ BeginTry \/ Open
  \/ LinkIsFoundBroken \/ SendsNothing \/ SendFails
  \/ \E late \in BOOLEAN : SendSucceeds(late) \/ Reconnects(late)
  \/ Read \/ ReadEnds \/ Retry \/ Return \/ LoginReturns

ApiNext ==
  \/ \E proc \in Procs \ {"login"} : Call(proc)
  \/ TrySteps \/ OpenFails \/ ReconnectFails
  \/ ServerNext /\ UNCHANGED apiVars

\* The client runs, and reaches a server that listens; and so does the server.
\* Nobody has to stop the listener, to break a link, or to say that there is no
\* server.
ApiFairness ==
  /\ WF_<<apiVars, serverVars>>(TrySteps)
  /\ WF_<<apiVars, serverVars>>((ServerAccept \/ Serve) /\ UNCHANGED apiVars)

ApiTypeOK ==
  /\ ServerTypeOK
  /\ cpc \in {"idle", "top", "open", "send", "reconnect", "parse", "decide"}
  /\ Len(stack) <= 3 + breaks /\ fd \in BOOLEAN
  /\ errClass \in Classes \cup {"none"} /\ parsed.at \in Parsing
  /\ calls \in 0..MaxCalls /\ (cpc = "idle" <=> stack = << >>)

-----------------------------------------------------------------------------
(* Properties                                                              *)

\* The rows that a call gives to the application come from one try: it is not
\* repeated once it has shown some.  (The login shows a process number.)
RowsOfOneTry == Cardinality(shown \ {<<0, 0>>}) <= 1

\* A call of the application that has not returned.
ApiInCall == cpc # "idle"

\* A connection is tried for ever while there is no server, by design.
WaitsForServer == cpc \in {"open", "reconnect"} /\ listener.at # "accept"

\* Every call returns, with the answer of one of its tries or with an error,
\* unless it waits for a server to connect to.
EveryCallReturns == ApiInCall ~> (~ApiInCall \/ WaitsForServer)
=============================================================================
