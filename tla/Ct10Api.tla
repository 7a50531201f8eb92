------------------------------ MODULE Ct10Api ------------------------------
(***************************************************************************)
(* The high-level client of CT-Lib (ct10api/ct10api.c): one connection     *)
(* handle, the calls that an application makes on it, the connection they  *)
(* open and open again, and the retries that the recovery module asks for. *)
(*                                                                         *)
(* A call is a stack of functions: exec_rpc or exec_lang may have to       *)
(* connect, connect executes the initialisation string with exec_lang,     *)
(* which checks the connection in its turn.  pc says what the function on  *)
(* top is doing.  CT-Lib and the server are external: their results, their *)
(* failures and their messages are chosen freely, but for one assumption,  *)
(* that a failing library call was preceded by a message to its handlers.  *)
(***************************************************************************)
EXTENDS Ct10Recov

CONSTANTS
  Messages,      \* records [layer, no, severity, kills]: what CT-Lib may report
  InitString,    \* whether the handle has an initialisation string
  UseAfterClose, \* whether the application goes on after ct10api_close_connection
  MaxMessages    \* bound: messages of one try

ASSUME Ct10Assumption ==
  /\ \A m \in Messages : m.layer \in {"server", "ctlib", "cslib"} /\ m.kills \in BOOLEAN
  /\ InitString \in BOOLEAN /\ UseAfterClose \in BOOLEAN
  /\ MaxMessages \in Nat

VARIABLES
  handle,  \* the CT10_CONN_T: "none", "listed" in sp_list_of_conn, or "closed"
  conn,    \* its fields
  lib,     \* the CS_CONNECTION: "null", "alloc", "open" or "dead"
  count,   \* the counters of the master recovery table
  stack,   \* the functions that have not returned, the caller's first
  pc,      \* what the function on top is doing
  res,     \* ct10api_process_results: the type of the last result set
  ret,     \* the last return code
  call     \* history of the application's call

vars == <<handle, conn, lib, count, stack, pc, res, ret, call>>

Functions == {"rpc", "lang", "connect", "init"}
Waiting == {"connect", "send", "results", "fetch"}   \* inside the library

NoInfo == [retryCtr |-> -1, action |-> {}, code |-> 0, diag |-> {}, result |-> "not"]
Info == [retryCtr |-> conn.retryCtr, action |-> conn.action, code |-> conn.code,
         diag |-> conn.diag, result |-> conn.result]

Top == stack[Len(stack)]
SetTop(f) == [stack EXCEPT ![Len(stack)] = f]
Pop == SubSeq(stack, 1, Len(stack) - 1)
Smaller(a, b) == IF a < b THEN a ELSE b

TypeOK ==
  /\ handle \in {"none", "listed", "closed"}
  /\ lib \in {"null", "alloc", "open", "dead"}
  /\ conn.retryCtr \in 0..10 /\ conn.code \in FATAL_ERROR + ERR_INTERVAL .. 0
  /\ conn.action \subseteq {RESET, NO_LOG} \cup FORGET_IT \cup {CS_FAIL}
  /\ conn.diag \subseteq Classes \cup {Unknown}
  /\ conn.result \in {"present", "not"} /\ conn.status \in BOOLEAN
  /\ conn.cmd \in {"none", "current", "stale", "dropped"}
  /\ count \in [Tracked -> 0..MaxCount]
  /\ Len(stack) <= 2 /\ \A i \in DOMAIN stack : stack[i].fn \in Functions
  /\ pc \in {"idle", "check", "setup", "connected", "ready", "decide", "return"} \cup Waiting
  /\ res \in {"unset", "row", "param", "status"}

-----------------------------------------------------------------------------
(* The application's calls                                                 *)

Init ==
  /\ handle = "none" /\ lib = "null" /\ stack = << >> /\ pc = "idle"
  /\ conn = [retryCtr |-> 0, action |-> {}, code |-> 0, diag |-> {},
             result |-> "not", status |-> FALSE, cmd |-> "none"]
  /\ count = [c \in Tracked |-> 0]
  /\ res = "unset" /\ ret = SUCCESS
  /\ call = [tries |-> 0, shown |-> {}, heard |-> {}, msgs |-> 0]

NewCall == [tries |-> 0, shown |-> {}, heard |-> {}, msgs |-> 0]

\* Mutant of Initialised: the actions that the last call asked for stay.
MutInitialised == [conn EXCEPT !.retryCtr = 0, !.code = 0, !.diag = {},
                               !.result = "not", !.status = FALSE]

\* ct10api_init_recov_info; return_status is whether a status has arrived.
Initialised == [conn EXCEPT !.retryCtr = 0, !.action = {}, !.code = 0, !.diag = {},
                            !.result = "not", !.status = FALSE]

CreateConnection ==
  /\ pc = "idle" /\ handle = "none"
  /\ handle' = "listed"
  /\ UNCHANGED <<conn, lib, count, stack, pc, res, ret, call>>

\* ct10api_exec_rpc and ct10api_exec_lang begin in the same way.
Execute(fn) ==
  /\ pc = "idle"
  /\ handle = "listed" \/ (handle = "closed" /\ UseAfterClose)
  /\ stack' = << [fn |-> fn, saved |-> NoInfo, reset |-> FALSE] >>
  /\ conn' = Initialised
  /\ pc' = "check" /\ call' = NewCall
  /\ UNCHANGED <<handle, lib, count, res, ret>>

Connect ==
  /\ pc = "idle" /\ handle = "listed"
  /\ stack' = << [fn |-> "connect", saved |-> NoInfo, reset |-> FALSE] >>
  /\ pc' = "setup" /\ call' = NewCall
  /\ UNCHANGED <<handle, conn, lib, count, res, ret>>

\* ct10api_close_and_drop_connection.  ct10api_close_connection2 tries twice,
\* then by force, and its outcome is not looked at: what counts is whether
\* ct_con_drop accepts the connection.
Gone(dropped) == lib = "null" \/ dropped
CloseAndDrop(dropped, next) ==
  /\ lib' = IF Gone(dropped) THEN next ELSE lib
  /\ conn' = [conn EXCEPT !.cmd = IF Gone(dropped) /\ @ = "current" THEN "stale" ELSE @]

CloseConnection(dropped) ==
  /\ pc = "idle" /\ handle = "listed"
  /\ CloseAndDrop(dropped, "null")
  /\ IF Gone(dropped) THEN handle' = "closed" /\ ret' = SUCCESS
     ELSE ret' = FAILED /\ UNCHANGED handle
  /\ call' = NewCall
  /\ UNCHANGED <<count, stack, pc, res>>

ChangeConnectionParams(dropped) ==
  /\ pc = "idle" /\ handle = "listed"
  /\ CloseAndDrop(dropped, "null")
  /\ ret' = (IF Gone(dropped) THEN SUCCESS ELSE FATAL_ERROR)
  /\ call' = NewCall
  /\ UNCHANGED <<handle, count, stack, pc, res>>

ResetBatchCounters ==
  /\ pc = "idle"
  /\ count' = BatchReset(count)
  /\ UNCHANGED <<handle, conn, lib, stack, pc, res, ret, call>>

-----------------------------------------------------------------------------
(* Checking and opening the connection                                     *)

\* ct10api_check_and_reset_connection
Usable == lib = "open" /\ RESET \notin conn.action

CheckUsable ==
  /\ pc = "check" /\ Usable
  /\ pc' = "ready"
  /\ stack' = SetTop([Top EXCEPT !.reset = FALSE])
  /\ UNCHANGED <<handle, conn, lib, count, res, ret, call>>

CheckReconnects ==
  /\ pc = "check" /\ ~Usable
  /\ stack' = SetTop([Top EXCEPT !.saved = Info])
  /\ pc' = "setup"
  /\ UNCHANGED <<handle, conn, lib, count, res, ret, call>>

\* ct10api_connect up to ct_connect: the old connection goes, a new one is
\* allocated and given its properties.
PrepareConnect(dropped, allocated) ==
  /\ pc = "setup"
  /\ CloseAndDrop(dropped, IF allocated THEN "alloc" ELSE "null")
  /\ IF Gone(dropped) /\ allocated THEN pc' = "connect" /\ UNCHANGED ret
     ELSE pc' = "connected" /\ ret' = FATAL_ERROR
  /\ UNCHANGED <<handle, count, stack, res, call>>

ConnectSucceeds ==
  /\ pc = "connect" /\ lib = "alloc"
  /\ lib' = "open"
  /\ IF InitString
     THEN /\ stack' = Append(stack, [fn |-> "init", saved |-> NoInfo, reset |-> FALSE])
          /\ conn' = Initialised
          /\ pc' = "check" /\ UNCHANGED ret
     ELSE pc' = "connected" /\ ret' = SUCCESS /\ UNCHANGED <<conn, stack>>
  /\ UNCHANGED <<handle, count, res, call>>

ConnectFails ==
  /\ pc = "connect"
  /\ ret' = CASE "CANNOT_FIND_HOST" \in conn.diag -> FAILED
              [] /\ "CANNOT_FIND_HOST" \notin conn.diag
                 /\ conn.diag \cap {"LOGIN_REJECTED", "NO_SUCH_SERVER"} # {}
                   -> DO_NOT_RETRY_RC
              [] OTHER -> FATAL_ERROR
  /\ pc' = "connected"
  /\ UNCHANGED <<handle, conn, lib, count, stack, res, call>>

\* ct10api_restore_recov_info: the reconnection does not count as a try.
Restored(saved) ==
  [conn EXCEPT !.retryCtr = saved.retryCtr, !.action = saved.action, !.code = saved.code,
               !.diag = saved.diag, !.result = saved.result]

\* Mutant of ConnectReturns: the check of the connection goes on until the
\* reconnection succeeds.
MutConnectReturns ==
  /\ pc = "connected"
  /\ IF Top.fn = "connect" THEN pc' = "return" /\ UNCHANGED <<conn, stack, ret>>
     ELSE IF ret = SUCCESS
     THEN /\ conn' = Restored(Top.saved)
          /\ stack' = SetTop([Top EXCEPT !.saved = NoInfo, !.reset = TRUE])
          /\ pc' = "ready" /\ UNCHANGED ret
     ELSE pc' = "check" /\ UNCHANGED <<conn, stack, ret>>
  /\ UNCHANGED <<handle, lib, count, res, call>>

\* ct10api_connect has returned ret: to the application, or to the function
\* whose check of the connection called it, which restores what it saved.
ConnectReturns ==
  /\ pc = "connected"
  /\ IF Top.fn = "connect" THEN pc' = "return" /\ UNCHANGED <<conn, stack, ret>>
     ELSE IF ret = SUCCESS
     THEN /\ conn' = Restored(Top.saved)
          /\ stack' = SetTop([Top EXCEPT !.saved = NoInfo, !.reset = TRUE])
          /\ pc' = "ready" /\ UNCHANGED ret
     ELSE /\ ret' = FATAL_ERROR /\ pc' = "return"
          /\ stack' = SetTop([Top EXCEPT !.saved = NoInfo]) /\ UNCHANGED conn
  /\ UNCHANGED <<handle, lib, count, res, call>>

-----------------------------------------------------------------------------
(* Sending the command                                                     *)

\* Mutant of NeedsCommand: the command of the previous connection is sent again.
MutNeedsCommand == Top.fn # "rpc" \/ conn.retryCtr = 0

\* exec_rpc forgets the mask and the code of the previous try; it makes the
\* command on its first try and after a reset, and otherwise sends it again.
NeedsCommand == Top.fn # "rpc" \/ conn.retryCtr = 0 \/ Top.reset

Prepare ==
  /\ pc = "ready"
  /\ conn' = [conn EXCEPT
       !.action = IF Top.fn = "rpc" THEN {} ELSE @,
       !.code = IF Top.fn = "rpc" THEN 0 ELSE @,
       !.cmd = IF NeedsCommand THEN "current" ELSE @]
  /\ call' = [call EXCEPT !.heard = {}, !.msgs = 0]
  /\ pc' = "send"
  /\ UNCHANGED <<handle, lib, count, stack, res, ret>>

\* ct_cmd_alloc, ct_command or ct_param fails: nothing is dropped.
PrepareFails ==
  /\ pc = "ready" /\ NeedsCommand
  /\ conn' = [conn EXCEPT !.action = IF Top.fn = "rpc" THEN {} ELSE @,
                          !.code = IF Top.fn = "rpc" THEN 0 ELSE @]
  /\ ret' = FATAL_ERROR /\ pc' = "return"
  /\ UNCHANGED <<handle, lib, count, stack, res, call>>

SendSucceeds ==
  /\ pc = "send" /\ lib = "open"
  /\ conn' = [conn EXCEPT !.result = "not"]
  /\ res' = "unset"
  /\ call' = [call EXCEPT !.tries = IF Top.fn = "rpc" THEN @ + 1 ELSE @]
  /\ pc' = "results"
  /\ UNCHANGED <<handle, lib, count, stack, ret>>

\* ct10api_ct10fail_return_value; the command is not dropped.
FailValue == IF conn.code < SUCCESS THEN conn.code ELSE FAILED

Announced == call.heard # {}    \* a failing call of CT-Lib reported it before

SendFails ==
  /\ pc = "send" /\ Announced
  /\ ret' = FailValue /\ pc' = "return"
  /\ UNCHANGED <<handle, conn, lib, count, stack, res, call>>

-----------------------------------------------------------------------------
(* ct10api_process_results and ct10api_process_1_result_set                *)

\* Rows are hidden from the application while results are flushed; output
\* parameters never are.
Visible(type) == type # "status" /\ (FLUSH \notin conn.action \/ type = "param")
Seen(type) == IF Visible(type) /\ Top.fn # "init"
              THEN [call EXCEPT !.shown = @ \cup {call.tries}] ELSE call

ResultSet(type) ==
  /\ pc = "results" /\ lib = "open"
  /\ conn' = [conn EXCEPT !.result = IF type = "status" THEN @ ELSE "present"]
  /\ res' = type
  /\ call' = Seen(type)
  /\ pc' = "fetch"
  /\ UNCHANGED <<handle, lib, count, stack, ret>>

FetchRow ==
  /\ pc = "fetch" /\ lib = "open"
  /\ conn' = [conn EXCEPT !.status = @ \/ res = "status"]
  /\ call' = Seen(res)
  /\ UNCHANGED <<handle, lib, count, stack, pc, res, ret>>

FetchEnds ==
  /\ pc = "fetch"
  /\ pc' = "results"
  /\ UNCHANGED <<handle, conn, lib, count, stack, res, ret, call>>

\* What the function on top does with the return code rc of the results:
\* exec_rpc decides on a retry, exec_lang drops its command and returns.
ResultsReturn(rc) ==
  /\ ret' = rc
  /\ IF Top.fn = "rpc" THEN pc' = "decide" /\ UNCHANGED conn
     ELSE pc' = "return" /\ conn' = [conn EXCEPT !.cmd = "dropped"]
  /\ UNCHANGED <<handle, lib, count, stack, res, call>>

\* Mutant of ResultsEnd: the code that the messages proposed is lost.
MutResultsEnd ==
  /\ pc = "results" /\ lib = "open"
  /\ ResultsReturn(SUCCESS)

ResultsEnd ==
  /\ pc = "results" /\ lib = "open"
  /\ ResultsReturn(Smaller(SUCCESS, conn.code))

\* ct_results fails, a row fails, or a result set cannot be described or
\* bound: the code of the result set is replaced by FAILED.
ResultsFail ==
  /\ pc \in {"results", "fetch"} /\ Announced
  /\ ResultsReturn(Smaller(FAILED, conn.code))

\* ct_res_info fails on the count of rows: returned as it is.
RowCountFails ==
  /\ pc = "results" /\ res # "status" /\ Announced
  /\ ResultsReturn(FATAL_ERROR)

-----------------------------------------------------------------------------
(* The end of a try, and of a call                                         *)

\* Mutant of TryAgain: results that were shown do not matter.
MutTryAgain == ret # SUCCESS /\ NO_RETRY \notin conn.action

TryAgain == /\ ret # SUCCESS
            /\ NO_RETRY \notin conn.action
            /\ conn.result = "not"

Decide ==
  /\ pc = "decide"
  /\ conn' = [conn EXCEPT
       !.retryCtr = IF TryAgain THEN @ + 1 ELSE @,
       !.cmd = IF ~TryAgain \/ RESET \in conn.action THEN "dropped" ELSE @]
  /\ pc' = IF TryAgain THEN "check" ELSE "return"
  /\ UNCHANGED <<handle, lib, count, stack, res, ret, call>>

\* A function returns ret: to the application, or, when it is the execution
\* of the initialisation string, to ct10api_connect.
Return ==
  /\ pc = "return"
  /\ stack' = Pop
  /\ IF Top.fn = "init"
     THEN pc' = "connected" /\ ret' = IF ret = SUCCESS THEN SUCCESS ELSE FATAL_ERROR
     ELSE pc' = "idle" /\ UNCHANGED ret
  /\ UNCHANGED <<handle, conn, lib, count, res, call>>

-----------------------------------------------------------------------------
(* The error handlers, called by the library                               *)

\* ct10api_get_owner_of_conn: the handle is found in the list by its
\* connection, or without a connection it is the current one.
Owned(msg) == msg.layer = "cslib" \/ handle = "listed"

Message(msg) ==
  /\ pc \in Waiting /\ call.msgs < MaxMessages
  /\ lib # "null" /\ (msg.kills => lib = "open")
  /\ LET class == ErrorClass(msg)
         e == EntryOf(class)
     IN /\ count' = Counted(count, e)
        /\ conn' = IF ~Owned(msg) THEN conn
                   ELSE Posted(conn, Table[e], class, ProposedCode(count', e, class, msg.no))
        /\ lib' = IF lib = "open" /\ (msg.kills \/ HandlerReturns(msg.layer, Table[e]) = "fail")
                  THEN "dead" ELSE lib
        /\ call' = [call EXCEPT !.heard = @ \cup {class}, !.msgs = @ + 1]
  /\ UNCHANGED <<handle, stack, pc, res, ret>>

-----------------------------------------------------------------------------
Next ==
  \/ CreateConnection \/ Connect \/ ResetBatchCounters
  \/ \E fn \in {"rpc", "lang"} : Execute(fn)
  \/ \E dropped \in BOOLEAN : CloseConnection(dropped) \/ ChangeConnectionParams(dropped)
  \/ CheckUsable \/ CheckReconnects
  \/ \E dropped, allocated \in BOOLEAN : PrepareConnect(dropped, allocated)
  \/ ConnectSucceeds \/ ConnectFails \/ ConnectReturns
  \/ Prepare \/ PrepareFails \/ SendSucceeds \/ SendFails
  \/ \E type \in {"row", "param", "status"} : ResultSet(type)
  \/ FetchRow \/ FetchEnds \/ ResultsEnd \/ ResultsFail \/ RowCountFails
  \/ Decide \/ Return
  \/ \E msg \in Messages : Message(msg)

\* A step of a call, other than a message or one more row, is taken in the
\* end; the library ends every wait (time-outs are set on the context), and
\* the results of a command are finite.
Running == CheckUsable \/ CheckReconnects \/ ConnectReturns \/ Prepare \/ Decide \/ Return
Opening == \E dropped, allocated \in BOOLEAN : PrepareConnect(dropped, allocated)
Ending == ResultsEnd \/ ResultsFail
Fairness == /\ WF_vars(Running) /\ WF_vars(Opening)
            /\ WF_vars(ConnectSucceeds \/ ConnectFails)
            /\ WF_vars(SendSucceeds \/ SendFails)
            /\ WF_vars(FetchEnds) /\ SF_vars(Ending)

Spec == Init /\ [][Next]_vars /\ Fairness

-----------------------------------------------------------------------------
(* Properties                                                              *)

\* A call presents rows and output parameters of one execution of the
\* procedure, however often exec_rpc tries it again.
OneExecutionShown == Cardinality(call.shown) <= 1

\* The command that is sent, and whose results are read, was allocated on the
\* connection that is open: neither dropped, nor left by an earlier one.
CommandIsLive == pc \in {"send", "results", "fetch"} => conn.cmd = "current"

\* The procedure is executed again only if every message of the failed try
\* allows it, for the number of retries already done, and nothing was shown.
RetryIsAllowed ==
  [][pc = "decide" /\ pc' = "check" =>
       /\ call.tries \notin call.shown
       /\ \A c \in call.heard : /\ NO_RETRY \notin Table[EntryOf(c)].actions
                                 /\ conn.retryCtr < Table[EntryOf(c)].maxRetry]_vars

\* A call that answers SUCCESS heard no error in its last try: every message
\* was informative, or an error that the application raised itself.
Harmless(c) == Table[EntryOf(c)].code = SUCCESS
               \/ (FirstRaiserror # 0 /\ c = "SEV_MISC_USER_ERROR")
ErrorIsReported ==
  pc = "idle" /\ call.tries > 0 /\ ret = SUCCESS => \A c \in call.heard : Harmless(c)

\* Every call returns.
CallReturns == []<>(pc = "idle")
=============================================================================
