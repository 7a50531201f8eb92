------------------------------ MODULE Xml2Syb ------------------------------
(***************************************************************************)
(* The database server of the gateway (xmltp/xml2syb.c): its listener, and *)
(* then the process that this forks for one connection of the gateway.  It *)
(* parses a call, executes it with the CT10 API, whose handlers give it    *)
(* the results and the messages while it waits, and writes the response    *)
(* with XmltpWire's writer.                                                *)
(*                                                                         *)
(* The gateway, the database and the CT10 API are external.  Of the last   *)
(* Ct10Api shows what is used here: its calls return.  The retries here    *)
(* are xml2syb's own.                                                      *)
(***************************************************************************)
EXTENDS XmltpWire, FiniteSets

CONSTANTS
  MaxSybBinds,     \* the listener's tries of bind and listen
  MaxTries,     \* MAX_RETRY_COUNT
  MaxMsgs,      \* MAX_NB_MESSAGES
  RetryStatus,  \* the statuses of RETRY_ON_THOSE_RETURN_STATUS
  MaxSets,      \* bound: result sets of one execution
  MaxRows,      \* bound: rows of one result set
  MaxRaised     \* bound: messages of one call

ASSUME Xml2SybAssumption ==
  /\ MaxSybBinds \in Nat \ {0} /\ MaxTries \in Nat \ {0} /\ MaxMsgs \in Nat \ {0}
  /\ RetryStatus \subseteq Int
  /\ MaxSets \in Nat /\ MaxRows \in Nat /\ MaxRaised \in Nat

VARIABLES
  pc,      \* the listener: "init", "bind", "accept"; the child process: "parse",
           \* in the CT10 API "exec", "decide" behind it; or "gone"
  binds,   \* the listener's failed tries
  w,       \* the writer
  active,  \* s_db_connection_is_active
  abort,   \* s_abort_flag
  nbRows,  \* s_last_result_set_nb_rows
  call     \* the call: the static values, and its history

sybVars == <<pc, binds, w, active, abort, nbRows, call>>

NoStatus == -999
NO_DS_CONN == -1100
TIMEOUT_STATUS == -1101
FATAL_STATUS == -1105
DEADLOCK_STATUS == -1205
TOO_MANY_FATALS == -13
Smaller(a, b) == IF a < b THEN a ELSE b
\* CT10's diagnosis; a dead connection is treated like one that its peer has left.
Diags == {"DEADLOCK", "DISCONNECTED", "TIMEOUT", "OTHER", "none"}

NewCall == [tries |-> 0, present |-> FALSE, rc |-> 0, status |-> NoStatus, diag |-> "none",
            reset |-> FALSE, paramsErr |-> FALSE, timedOut |-> FALSE, nbMsg |-> 0,
            set |-> 0, open |-> "no", rows |-> 0, half |-> FALSE,
            raised |-> 0, answered |-> FALSE, cut |-> FALSE]

SybInit ==
  /\ pc = "init" /\ binds = 0 /\ w = FreshWriter /\ active = FALSE /\ abort = FALSE
  /\ nbRows = 0 /\ call = [NewCall EXCEPT !.answered = TRUE]

-----------------------------------------------------------------------------
(* The listener                                                            *)

\* The library, the host file, the limits and the log; any of them may be
\* missing, and the program exits.
Start(complete) ==
  /\ pc = "init"
  /\ pc' = IF complete THEN "bind" ELSE "gone"
  /\ UNCHANGED <<binds, w, active, abort, nbRows, call>>

\* sf_init_master_socket_listen sleeps between its tries.
Bind(bound) ==
  /\ pc = "bind"
  /\ binds' = IF bound THEN 0 ELSE binds + 1
  /\ pc' = CASE bound -> "accept"
             [] ~bound /\ binds' = MaxSybBinds -> "gone"
             [] OTHER -> "bind"
  /\ UNCHANGED <<w, active, abort, nbRows, call>>

\* An accept that is interrupted is repeated; one that fails, and a fork that
\* fails, end the listener.
Accept(forked) ==
  /\ pc = "accept"
  /\ pc' = IF forked THEN "parse" ELSE "gone"
  /\ UNCHANGED <<binds, w, active, abort, nbRows, call>>

-----------------------------------------------------------------------------
(* The parameters of a call                                                *)

CallParams == [type : {"int", "float", "datetime", "char", "unsupported"},
           null : BOOLEAN, fits : BOOLEAN, converts : BOOLEAN]

\* A type that the database does not have, and a text that is longer than its
\* declared size.
Unsupported(p) == p.type = "unsupported"
TooLong(p) == p.type = "char" /\ ~p.fits

\* cs_convert is given the other types, when there is a value.
Inconvertible(p) == p.type \in {"int", "float", "datetime"} /\ ~p.null /\ ~p.converts

\* xml2db_create_param_struct: only the parameter that cannot be converted is an
\* error; the other bad ones are missing in the list.
Created(p) ==
  CASE Unsupported(p) \/ TooLong(p) -> "missing"
    [] Inconvertible(p) -> "error"
    [] OTHER -> "struct"

-----------------------------------------------------------------------------
(* Answers                                                                 *)

\* xmltp_writer_end_response flushes the response; if the gateway has gone,
\* the failure raises the abort flag.
Responds(writer, sent, next) ==
  /\ w' = writer
  /\ abort' = (abort \/ ~sent)
  /\ pc' = next

\* The loop of sf_process_client_connection stops on the abort flag.
NextCall == IF abort' THEN "gone" ELSE "parse"

\* sf_convert_ct10api_diag_mask_into_std_return_stat
StatusOfDiag(diag) ==
  CASE diag = "TIMEOUT" -> TIMEOUT_STATUS
    [] diag = "DISCONNECTED" -> NO_DS_CONN
    [] diag = "DEADLOCK" -> DEADLOCK_STATUS
    [] OTHER -> FATAL_STATUS

\* sf_write_error_msg: the entry of the messages that had no room is the last
\* one; its value is how many they are, and the value of the others is zero.
WithMessages(writer, nbMsg) ==
  LET f[i \in 0..Smaller(nbMsg, MaxMsgs)] ==
        IF i = 0 THEN BeginMsg(writer, nbRows)
        ELSE WriteMsg(f[i - 1], IF i = MaxMsgs THEN nbMsg + 1 - MaxMsgs ELSE 0)
  IN IF nbMsg = 0 THEN writer ELSE EndMsg(f[Smaller(nbMsg, MaxMsgs)])

-----------------------------------------------------------------------------
(* Calls that need no execution: xml2db_exec_proc resets the static values *)
(* and the writer, and looks for a registered procedure                    *)

Starts == [NewCall EXCEPT !.answered = TRUE]

\* xml2db_ping, ping and the debug levels
Ping(sent) ==
  /\ pc = "parse"
  /\ Responds(EndResponse(FreshWriter, 0, 0, 0), sent, NextCall)
  /\ call' = Starts
  /\ UNCHANGED <<binds, active, nbRows>>

\* sf_kill_process: the number of parameters, then kill() decide.
Kill(status, sent) ==
  /\ pc = "parse"
  /\ status \in IF active THEN {0, 401, 402} ELSE {NO_DS_CONN}
  /\ Responds(EndResponse(FreshWriter, status, 0, 1), sent, NextCall)
  /\ call' = Starts
  /\ UNCHANGED <<binds, active, nbRows>>

\* The response of sf_process_db_login: the process id, and the status.
LoginResponse(status) ==
  LET header == ColumnName(BeginResultSet(FreshWriter, 1, 0))
  IN EndResponse(EndColumnValues(ColumnValue(header, 0)), status, 0, 1)

\* Without a connection to the database the process stops.  When the old
\* connection cannot be closed, it is still the active one.
Login(outcome, sent) ==
  /\ pc = "parse"
  /\ outcome \in {"connected", "refused", "not closed"}
  /\ active' = CASE outcome = "connected" -> TRUE
                 [] outcome = "refused" -> FALSE
                 [] outcome = "not closed" -> active
  /\ w' = LoginResponse(IF outcome = "connected" THEN 0 ELSE NO_DS_CONN)
  /\ abort' = (abort \/ ~sent \/ outcome # "connected")
  /\ pc' = NextCall
  /\ call' = Starts
  /\ UNCHANGED <<binds, nbRows>>

\* A name, a password or a target that is too long: logged, not answered.
LoginTooLong ==
  /\ pc = "parse"
  /\ w' = FreshWriter /\ call' = NewCall
  /\ UNCHANGED <<pc, binds, active, abort, nbRows>>

\* Any other procedure needs the connection.
Refuse(sent) ==
  /\ pc = "parse" /\ ~active
  /\ Responds(EndResponse(FreshWriter, NO_DS_CONN, 0, nbRows), sent, NextCall)
  /\ call' = Starts
  /\ UNCHANGED <<binds, active, nbRows>>

BadParameter(sent) ==
  /\ pc = "parse" /\ active /\ \E p \in CallParams : Created(p) = "error"
  /\ Responds(EndResponse(FreshWriter, FATAL_STATUS, 0, 1), sent, NextCall)
  /\ call' = Starts
  /\ UNCHANGED <<binds, active, nbRows>>

\* The gateway hangs up, or yyparse gives up: the process stops.
EndOfStream ==
  /\ pc = "parse"
  /\ pc' = "gone"
  /\ UNCHANGED <<binds, w, active, abort, nbRows, call>>

-----------------------------------------------------------------------------
(* The execution: what the handlers do while ct10api_exec_rpc runs         *)

\* A parameter that is missing in the list is not missed.
Execute ==
  /\ pc = "parse" /\ active /\ \E p \in CallParams : Created(p) # "error"
  /\ w' = FreshWriter
  /\ call' = [NewCall EXCEPT !.tries = 1]
  /\ pc' = "exec"
  /\ UNCHANGED <<binds, active, abort, nbRows>>

\* sf_save_error_msg counts every message, and keeps those that have room.
Message ==
  /\ pc = "exec" /\ call.raised < MaxRaised
  /\ call' = [call EXCEPT !.nbMsg = @ + 1, !.raised = @ + 1]
  /\ UNCHANGED <<pc, binds, w, active, abort, nbRows>>

\* sf_process_row gives up the call once its time has passed.
Processing == pc = "exec" /\ ~call.timedOut

TimesOut ==
  /\ Processing
  /\ call' = [call EXCEPT !.timedOut = TRUE]
  /\ UNCHANGED <<pc, binds, w, active, abort, nbRows>>

\* A result set arrives: its header, or nothing of it when CT10 flushes the
\* results that follow an error.  Rows come before output parameters.
BeginSet(hidden) ==
  /\ Processing /\ call.open = "no" /\ call.set < MaxSets
  /\ call' = [call EXCEPT !.set = @ + 1, !.present = TRUE, !.rows = 0,
                          !.open = IF hidden THEN "no" ELSE "rows"]
  /\ w' = IF hidden THEN w
          ELSE ColumnName(ColumnName(BeginResultSet(w, call'.set, nbRows)))
  /\ UNCHANGED <<pc, binds, active, abort, nbRows>>

\* A row, and each output parameter, is a call of the handler of its own, behind
\* the one that brought the header.
Another(open) == Processing /\ call.open = open /\ call.rows < MaxRows

Row ==
  /\ Another("rows")
  /\ w' = EndColumnValues(ColumnValue(ColumnValue(w, call.tries), call.tries))
  /\ call' = [call EXCEPT !.rows = @ + 1, !.half = FALSE]
  /\ UNCHANGED <<pc, binds, active, abort, nbRows>>

\* cs_convert fails on the first or the second column: the row is left as it
\* is, and CT10, which is not told, goes on with the next one behind it.
RowFails(column) ==
  /\ Another("rows")
  /\ w' = IF column = 1 THEN w ELSE ColumnValue(w, call.tries)
  /\ call' = [call EXCEPT !.rows = @ + 1, !.half = @ \/ column # 1]
  /\ UNCHANGED <<pc, binds, active, abort, nbRows>>

\* The number of rows comes behind a result set, if it is known.
SetDone(known) ==
  /\ Processing /\ call.open = "rows"
  /\ nbRows' = IF known THEN call.rows ELSE nbRows
  /\ call' = [call EXCEPT !.open = "no", !.half = FALSE, !.cut = @ \/ call.half]
  /\ UNCHANGED <<pc, binds, w, active, abort>>

\* Output parameters are shown even when results are flushed.  Their header
\* opens the list, which has nothing yet: their names come with the values.
BeginParams ==
  /\ Processing /\ call.open = "no"
  /\ w' = BeginOutputParams(w, nbRows)
  /\ call' = [call EXCEPT !.present = TRUE, !.open = "params", !.rows = 0, !.half = TRUE]
  /\ UNCHANGED <<pc, binds, active, abort, nbRows>>

ParamShown ==
  /\ Another("params")
  /\ w' = ParamValue(w, call.tries)
  /\ call' = [call EXCEPT !.rows = @ + 1, !.half = FALSE]
  /\ UNCHANGED <<pc, binds, active, abort, nbRows>>

\* cs_convert fails: nothing of the parameter is written.
ParamFails ==
  /\ Another("params")
  /\ call' = [call EXCEPT !.rows = @ + 1]
  /\ UNCHANGED <<pc, binds, w, active, abort, nbRows>>

\* ct10api_exec_rpc returns, at the end of the results or before it, when a
\* fetch, a bind or the connection fails or a message cancels them: what is
\* half-written then is not completed.
ExecEnds(rc, status, diag, reset) ==
  /\ pc = "exec"
  /\ rc = 0 <=> diag = "none"
  /\ call' = [call EXCEPT !.rc = rc, !.status = status, !.diag = diag, !.reset = reset,
                          !.half = FALSE, !.cut = @ \/ call.half]
  /\ pc' = "decide"
  /\ UNCHANGED <<binds, w, active, abort, nbRows>>

-----------------------------------------------------------------------------
(* Behind the execution: the loop of xml2db_exec_proc                      *)

\* sf_retry_rpc refuses when the call has taken too long.
Retried(inTime) ==
  /\ ~call.timedOut /\ call.tries < MaxTries
  /\ \/ /\ call.rc # 0 /\ ~call.present /\ inTime
        /\ call.diag \in {"DEADLOCK", "DISCONNECTED"}
     \/ call.rc = 0 /\ call.status \in RetryStatus

\* Mutant of NextTry: the messages of a try that failed are not counted.
MutNextTry ==
  [NewCall EXCEPT !.tries = IF call.tries < MaxTries THEN call.tries + 1 ELSE @,
     !.raised = call.raised, !.cut = call.cut]

NextTry ==
  [NewCall EXCEPT !.tries = IF call.tries < MaxTries THEN call.tries + 1 ELSE @,
     !.nbMsg = call.nbMsg, !.raised = call.raised, !.cut = call.cut]

\* The next try writes behind what the writer has.
TryAgain(inTime, connected) ==
  /\ pc = "decide" /\ Retried(inTime)
  /\ call.rc > TOO_MANY_FATALS /\ (call.reset => connected)
  /\ call' = NextTry
  /\ pc' = "exec"
  /\ UNCHANGED <<binds, w, active, abort, nbRows>>

\* What a call leaves is its history only.
Answered == [NewCall EXCEPT !.answered = TRUE, !.raised = call.raised, !.cut = call.cut]

\* The process answers, without the messages, and exits.
Exits(inTime, connected, sent) ==
  /\ pc = "decide"
  /\ LET status ==
        CASE call.timedOut -> TIMEOUT_STATUS
          [] ~call.timedOut /\ call.rc <= TOO_MANY_FATALS -> FATAL_STATUS
          [] OTHER -> NO_DS_CONN
     IN /\ \/ call.timedOut
           \/ Retried(inTime) /\ (call.rc <= TOO_MANY_FATALS \/ (call.reset /\ ~connected))
        /\ Responds(EndResponse(w, status, 0, 1), sent, "gone")
  /\ call' = Answered
  /\ UNCHANGED <<binds, active, nbRows>>

\* Mutant of Finish: the list of messages comes behind the response's end.
MutFinish(inTime, sent) ==
  /\ pc = "decide" /\ ~call.timedOut /\ ~Retried(inTime)
  /\ Responds(WithMessages(EndResponse(w, call.status, 0, nbRows), call.nbMsg), sent, NextCall)
  /\ call' = Answered
  /\ UNCHANGED <<binds, active, nbRows>>

Finish(inTime, sent) ==
  /\ pc = "decide" /\ ~call.timedOut /\ ~Retried(inTime)
  /\ LET status == IF call.status # NoStatus THEN call.status ELSE StatusOfDiag(call.diag)
     IN Responds(EndResponse(WithMessages(w, call.nbMsg), status, 0, nbRows), sent, NextCall)
  /\ call' = Answered
  /\ UNCHANGED <<binds, active, nbRows>>

-----------------------------------------------------------------------------
ExecutionStep ==
  \/ Message \/ TimesOut \/ Row \/ BeginParams \/ ParamShown \/ ParamFails
  \/ \E b \in BOOLEAN : BeginSet(b) \/ SetDone(b)
  \/ \E column \in 1..2 : RowFails(column)

ExecReturns == \E rc \in {0, -1, -13}, status \in {NoStatus, 0}, diag \in Diags, reset \in BOOLEAN :
          ExecEnds(rc, status, diag, reset)

Decides == \E inTime, sent \in BOOLEAN :
             \/ Finish(inTime, sent)
             \/ \E connected \in BOOLEAN :
                  TryAgain(inTime, connected) \/ Exits(inTime, connected, sent)

SybNext ==
  \/ \E b \in BOOLEAN : Start(b) \/ Bind(b) \/ Accept(b)
  \/ LoginTooLong \/ Execute \/ EndOfStream
  \/ \E sent \in BOOLEAN :
       \/ Ping(sent) \/ Refuse(sent) \/ BadParameter(sent)
       \/ \E status \in {0, 401, 402, NO_DS_CONN} : Kill(status, sent)
       \/ \E outcome \in {"connected", "refused", "not closed"} : Login(outcome, sent)
  \/ ExecutionStep \/ ExecReturns \/ Decides

\* The CT10 API returns in the end, and the process goes on.
SybFairness == WF_sybVars(ExecReturns) /\ WF_sybVars(Decides)

SybTypeOK ==
  /\ pc \in {"init", "bind", "accept", "parse", "exec", "decide", "gone"}
  /\ binds \in 0..MaxSybBinds
  /\ active \in BOOLEAN /\ abort \in BOOLEAN /\ nbRows \in 0..MaxRows
  /\ call.tries \in 0..MaxTries /\ call.nbMsg \in 0..MaxRaised
  /\ call.set \in 0..MaxSets /\ call.diag \in Diags
  /\ abort => pc = "gone"

-----------------------------------------------------------------------------
(* Properties                                                              *)

\* What is answered is a sentence of the response grammar, whatever arrived
\* before the call ended, unless a row that was begun, or the list of the output
\* parameters, was left without what the grammar requires of it: then the
\* writer closes what the row or the list is in, and the answer is no sentence.
SybResponseParses == call.answered /\ w.out # << >> => (IsSentence(w.out) <=> ~call.cut)

\* All the rows and output parameters of a response are of one execution.
Of(tokens, tags) == {tokens[i][2] : i \in {j \in DOMAIN tokens : tokens[j][1] \in tags}}
SybOneExecution == Cardinality(Of(w.out, {"VAL", "PARAM"})) <= 1

\* While the process goes on, the messages that a call raised are listed in its
\* response, or counted by the last entry of the list.
ListedMessages(tokens) ==
  LET f[i \in 0..Len(tokens)] ==
        IF i = 0 THEN 0
        ELSE f[i - 1] + CASE tokens[i][1] # "MSG" -> 0
                          [] tokens[i] = <<"MSG", 0>> -> 1
                          [] OTHER -> tokens[i][2]
  IN f[Len(tokens)]
NoMessageLost == pc = "parse" /\ call.answered => ListedMessages(w.out) = call.raised

\* A call is executed and not yet answered.
SybInCall == pc \in {"exec", "decide"}
=============================================================================
