----------------------------- MODULE GxResponse -----------------------------
(***************************************************************************)
(* How the gateway executes a call on a destination and gives the response *)
(* to its client: the loop of gxInterceptRPCMonitor (gx/gxrpcmonitors.py), *)
(* the parser of the gateway (xmltp/xmltp_gx.c) and the callbacks that     *)
(* build the Python lists of a response (xmltp_parser_gx.c).               *)
(*                                                                         *)
(* While it is parsed a response is forwarded to the client as it comes,   *)
(* so that a call can be repeated only while nothing of it came.  The      *)
(* destination is external: it answers with a sentence of XmltpWire's      *)
(* grammar or with a broken one, it may be late, and its link may break.   *)
(***************************************************************************)
EXTENDS XmltpWire, FiniteSets

CONSTANTS
  Replies,    \* what a destination answers: "rows", "params", "status", "bad"
  MaxGxCalls, \* bound: calls of the client
  MaxGaps     \* bound: how often the link breaks

ASSUME GxResponseAssumption ==
  /\ Replies \subseteq {"rows", "params", "status", "bad"}
  /\ MaxGxCalls \in Nat /\ MaxGaps \in Nat

VARIABLES
  rpc,     \* the monitor: [at, tries, calls, execs]
  dest,    \* the link: [up, asked, tokens : not read yet, reply]; gaps: its breaks
  yy,      \* yyparse and its context: [at, errs, bytes, eof]
  resp,    \* the PY_RESP_STRUCT of the context
  client,  \* [up, failed : clt_errno, got : the tokens of this call]
  report   \* the tuple that xmltp_gx_parse_response returned

gxVars == <<rpc, dest, yy, resp, client, report>>

DS_NOT_AVAIL == -1100
DS_RPC_TIMEOUT == -1101
DS_FAIL_CANNOT_RETRY == -1105

\* A pointer to a list is the set of what it points to.
NULL == {}
NewPyList == {<< >>}
Appended(pointer, element) == {Append(list, element) : list \in pointer}
Pointed(pointer) == IF pointer = NULL THEN << >> ELSE CHOOSE list \in pointer : TRUE

\* An answer of the destination; its values are of the execution n.
Answer(reply, n) ==
  LET named == ColumnName(BeginResultSet(FreshWriter, 1, 0))
      row == EndColumnValues(ColumnValue(ColumnValue(named, n), n))
      second == ColumnName(BeginResultSet(row, 2, 1))
  IN CASE reply = "rows" -> EndResponse(EndMsg(WriteMsg(BeginMsg(second, 1), n)), n, 0, 0).out
       [] reply = "params" -> EndResponse(ParamValue(BeginOutputParams(FreshWriter, 0), n), n, 0, 0).out
       [] reply = "status" -> EndResponse(FreshWriter, n, 0, 0).out
       [] reply = "bad" -> <<Tag("RESPONSE"), Tag("ROW"), <<"VAL", n>>, <<"STATUS", n>>,
                             Tag("/RESPONSE"), Tag("EOT")>>

-----------------------------------------------------------------------------
(* The structure of a response, and the callbacks that fill it             *)

NewResp == [sets |-> NULL, names |-> NULL, rows |-> NULL, row |-> NULL,
            msgs |-> NULL, params |-> NULL, nbRows |-> 0, status |-> -995,
            capture |-> FALSE, manip |-> 0]

\* xmltp_parser_response_parse_begin; what an older response left is forgotten.
ParseBegin(r) ==
  [NewResp EXCEPT !.sets = NewPyList, !.msgs = NewPyList, !.capture = TRUE]

\* sf_note_data_manipulation_error, when a list is there that should not be, or
\* is not there.
Noted(r, wrong) == IF wrong THEN [r EXCEPT !.manip = @ + 1] ELSE r

ResultSetBegin(r) ==
  [Noted(r, r.names # NULL \/ r.rows # NULL)
     EXCEPT !.names = NewPyList, !.rows = NewPyList, !.nbRows = 0]

AddColName(r) == [Noted(r, r.names = NULL) EXCEPT !.names = Appended(@, "column")]

RowBegin(r) == [Noted(r, r.row # NULL) EXCEPT !.row = NewPyList]

AddRowElem(r, v) == [Noted(r, r.row = NULL) EXCEPT !.row = Appended(@, v)]

RowEnd(r) ==
  IF NULL \in {r.rows, r.row} THEN Noted(r, TRUE)
  ELSE [r EXCEPT !.rows = Appended(@, Pointed(r.row)), !.row = NULL]

ResultSetEnd(r) ==
  IF NULL \in {r.names, r.rows, r.sets} THEN Noted(r, TRUE)
  ELSE [r EXCEPT !.sets = Appended(@, <<Pointed(r.rows), r.nbRows>>), !.names = NULL,
                 !.rows = NULL, !.nbRows = 0]

\* The parameters of a response are kept when its begin was seen.
AddParam(r, v) ==
  IF ~r.capture THEN r
  ELSE [r EXCEPT !.params = Appended(IF @ = NULL THEN NewPyList ELSE @, v)]

AddMsg(r, v) == [Noted(r, r.msgs = NULL) EXCEPT !.msgs = Appended(@, v)]

Callback(r, token) ==
  CASE token[1] = "RESPONSE" -> ParseBegin(r)
    [] token[1] = "SET" -> ResultSetBegin(r)
    [] token[1] = "COL" -> AddColName(r)
    [] token[1] = "ROW" -> RowBegin(r)
    [] token[1] = "VAL" -> AddRowElem(r, token[2])
    [] token[1] = "/ROW" -> RowEnd(r)
    [] token[1] = "NBROWS" -> [r EXCEPT !.nbRows = token[2]]
    [] token[1] = "/SET" -> ResultSetEnd(r)
    [] token[1] = "PARAM" -> AddParam(r, token[2])
    [] token[1] = "MSG" -> AddMsg(r, token[2])
    [] token[1] = "STATUS" -> [r EXCEPT !.status = token[2]]
    [] OTHER -> r

-----------------------------------------------------------------------------
Parser == [at |-> "start", errs |-> 0, bytes |-> FALSE, eof |-> 0]
NoReport == [sets |-> << >>, params |-> << >>, msgs |-> << >>, status |-> 0, errs |-> -1,
             mask |-> 0]

GxInit ==
  /\ rpc = [at |-> "idle", tries |-> 0, calls |-> 0, execs |-> 0]
  /\ dest = [up |-> FALSE, asked |-> FALSE, tokens |-> << >>, reply |-> "none", gaps |-> 0]
  /\ yy = Parser /\ resp = NewResp
  /\ client = [up |-> TRUE, failed |-> FALSE, got |-> << >>]
  /\ report = NoReport

Link == [dest EXCEPT !.up = TRUE, !.asked = FALSE, !.tokens = << >>]
GxClosed == [dest EXCEPT !.up = FALSE, !.asked = FALSE, !.tokens = << >>]

\* A call of a client: the frame has a connection, which was verified.
GxCall ==
  /\ rpc.at = "idle" /\ rpc.calls < MaxGxCalls /\ client.up
  /\ rpc' = [rpc EXCEPT !.at = "send", !.tries = 0, !.calls = @ + 1]
  /\ dest' = IF dest.up THEN dest ELSE Link
  /\ client' = [client EXCEPT !.got = << >>, !.failed = FALSE]
  /\ report' = NoReport
  /\ UNCHANGED <<yy, resp>>

-----------------------------------------------------------------------------
(* The destination                                                         *)

DestAnswers ==
  /\ dest.up /\ dest.asked
  /\ \E reply \in Replies :
       dest' = [dest EXCEPT !.asked = FALSE, !.reply = reply,
                            !.tokens = @ \o Answer(reply, rpc.execs)]
  /\ UNCHANGED <<rpc, yy, resp, client, report>>

DestBreaks ==
  /\ dest.up /\ dest.gaps < MaxGaps
  /\ \E n \in 0..Len(dest.tokens) :
       dest' = [dest EXCEPT !.up = FALSE, !.asked = FALSE, !.gaps = @ + 1,
                            !.tokens = SubSeq(@, 1, n)]
  /\ UNCHANGED <<rpc, yy, resp, client, report>>

ClientGoes ==
  /\ client.up
  /\ client' = [client EXCEPT !.up = FALSE]
  /\ UNCHANGED <<rpc, dest, yy, resp, report>>

-----------------------------------------------------------------------------
(* One try                                                                 *)

\* abortRPCandTellClient: a status is all that the client gets.
Reply(status) ==
  client' = IF client.up
            THEN [client EXCEPT !.got = @ \o EndResponse(FreshWriter, status, 0, 0).out]
            ELSE client

GxEnds == rpc' = [rpc EXCEPT !.at = "idle"]

\* sendProcCall: it connects again when the link is broken; the parser is reset.
GxSend(connected) ==
  /\ rpc.at = "send"
  /\ dest.up \/ connected
  /\ rpc' = [rpc EXCEPT !.at = "parse", !.execs = @ + 1]
  /\ dest' = [(IF dest.up THEN dest ELSE Link) EXCEPT !.asked = TRUE]
  /\ yy' = Parser
  /\ UNCHANGED <<resp, client, report>>

\* There is no time left, or no connection.
GxGivesUp(status) ==
  /\ rpc.at = "send"
  /\ GxEnds /\ Reply(status)
  /\ UNCHANGED <<dest, yy, resp, report>>

\* The call was sent, but there is no time left to wait for its response.
GxTooLate ==
  /\ rpc.at = "parse" /\ yy = Parser
  /\ GxEnds /\ Reply(DS_FAIL_CANNOT_RETRY) /\ dest' = GxClosed
  /\ UNCHANGED <<yy, resp, report>>

\* One token is received, forwarded, and parsed.
GxRead ==
  /\ rpc.at = "parse" /\ dest.tokens # << >>
  /\ LET token == Head(dest.tokens)
         ok == Shift(yy.at, token[1]) # "error"
         next == IF ok THEN Shift(yy.at, token[1]) ELSE SkipFrom(yy.at)
         filled == IF ok THEN Callback(resp, token) ELSE resp
     IN /\ yy' = [yy EXCEPT !.at = next, !.bytes = TRUE,
                            !.errs = @ + (IF ok THEN filled.manip - resp.manip ELSE 1)]
        /\ resp' = [filled EXCEPT !.manip = 0]
        /\ client' = [client EXCEPT !.failed = @ \/ ~client.up,
                        !.got = IF client.up /\ ~client.failed THEN Append(@, token) ELSE @]
        /\ rpc' = IF next = "done" THEN [rpc EXCEPT !.at = "parsed"] ELSE rpc
  /\ dest' = [dest EXCEPT !.tokens = Tail(@)]
  /\ UNCHANGED report

\* The link is broken (1), or the time is up (2): yyparse gives up.
GxReadFails(eof) ==
  /\ rpc.at = "parse" /\ dest.tokens = << >>
  /\ eof = 1 <=> ~dest.up
  /\ yy' = [yy EXCEPT !.eof = eof, !.errs = @ + 1]
  /\ rpc' = [rpc EXCEPT !.at = "parsed"]
  /\ UNCHANGED <<dest, resp, client, report>>

Mask == yy.eof + (IF yy.eof # 0 /\ yy.bytes THEN 4 ELSE 0)

\* The tuple, with the lists that are complete; the other ones stay.
GxReturn ==
  /\ rpc.at = "parsed"
  /\ report' = [sets |-> Pointed(resp.sets), params |-> Pointed(resp.params),
                msgs |-> Pointed(resp.msgs), status |-> resp.status, errs |-> yy.errs,
                mask |-> Mask]
  /\ resp' = [resp EXCEPT !.sets = NULL, !.params = NULL, !.msgs = NULL]
  /\ rpc' = [rpc EXCEPT !.at = "decide"]
  /\ UNCHANGED <<dest, yy, client>>

-----------------------------------------------------------------------------
(* What the monitor makes of the tuple                                     *)

\* The link is broken and nothing came: the first try is repeated.
Repeats == report.mask = 1 /\ rpc.tries = 0

GxRetry(connected) ==
  /\ rpc.at = "decide" /\ Repeats
  /\ IF connected
     THEN /\ rpc' = [rpc EXCEPT !.at = "send", !.tries = @ + 1]
          /\ dest' = Link
          /\ UNCHANGED client
     ELSE GxEnds /\ Reply(DS_NOT_AVAIL) /\ dest' = GxClosed
  /\ UNCHANGED <<yy, resp, report>>

\* The whole response was forwarded.  A client that has gone costs the
\* connection.
GxComplete ==
  /\ rpc.at = "decide" /\ report.mask = 0
  /\ GxEnds
  /\ dest' = IF client.failed THEN GxClosed ELSE dest
  /\ client' = [client EXCEPT !.up = @ /\ ~client.failed]
  /\ UNCHANGED <<yy, resp, report>>

\* Mutant of GxIncomplete: the connection is kept when it was late.
MutGxIncomplete ==
  /\ rpc.at = "decide" /\ report.mask # 0 /\ ~Repeats
  /\ GxEnds /\ dest' = IF report.mask \in {2, 6} THEN dest ELSE GxClosed
  /\ CASE report.mask \in {5, 6} -> client' = [client EXCEPT !.up = FALSE]
       [] report.mask = 1 -> Reply(DS_NOT_AVAIL)
       [] OTHER -> Reply(DS_RPC_TIMEOUT)
  /\ UNCHANGED <<yy, resp, report>>

\* The client has a part of a response, or nothing.
GxIncomplete ==
  /\ rpc.at = "decide" /\ report.mask # 0 /\ ~Repeats
  /\ GxEnds /\ dest' = GxClosed
  /\ CASE report.mask \in {5, 6} -> client' = [client EXCEPT !.up = FALSE]
       [] report.mask = 1 -> Reply(DS_NOT_AVAIL)
       [] OTHER -> Reply(DS_RPC_TIMEOUT)
  /\ UNCHANGED <<yy, resp, report>>

-----------------------------------------------------------------------------
GxSteps ==
  \/ \E connected \in BOOLEAN : GxSend(connected) \/ GxRetry(connected)
  \/ \E status \in {DS_NOT_AVAIL, DS_RPC_TIMEOUT} : GxGivesUp(status)
  \/ \E eof \in 1..2 : GxReadFails(eof)
  \/ GxTooLate \/ GxRead \/ GxReturn \/ GxComplete \/ GxIncomplete

GxNext == GxCall \/ DestAnswers \/ DestBreaks \/ ClientGoes \/ GxSteps

GxTypeOK ==
  /\ rpc.at \in {"idle", "send", "parse", "parsed", "decide"} /\ rpc.tries \in 0..1
  /\ yy.at \in Parsing \cup {"done"} /\ yy.eof \in 0..2
  /\ report.mask \in {0, 1, 2, 5, 6} /\ dest.gaps \in 0..MaxGaps

-----------------------------------------------------------------------------
(* Properties                                                              *)

\* What a client that is still connected got for a call is one response, of one
\* execution.  (A response that does not parse is forwarded as it is.)
GxClientWhole ==
  rpc.at = "idle" /\ rpc.calls > 0 /\ client.up /\ ~(report.mask = 0 /\ report.errs > 0) =>
    /\ IsSentence(client.got)
    /\ Cardinality({client.got[i][2] : i \in
         {j \in DOMAIN client.got : client.got[j][1] \in {"VAL", "PARAM"}}}) <= 1

\* The lists that an interceptor is given for a response that was parsed without
\* an error are those of this execution, and nothing is missing in them.
NumbersOf(tokens, tag) ==
  LET f[i \in 0..Len(tokens)] ==
        IF i = 0 THEN << >>
        ELSE IF tokens[i][1] = tag THEN Append(f[i - 1], tokens[i][2]) ELSE f[i - 1]
  IN f[Len(tokens)]

GxReportIsOwn ==
  rpc.at = "decide" /\ report.mask = 0 /\ report.errs = 0 =>
    LET tokens == Answer(dest.reply, rpc.execs)
    IN /\ report.status = rpc.execs
       /\ report.params = NumbersOf(tokens, "PARAM") /\ report.msgs = NumbersOf(tokens, "MSG")
       /\ [i \in DOMAIN report.sets |-> report.sets[i][2]] = NumbersOf(tokens, "NBROWS")
       /\ \A i \in DOMAIN report.sets : Len(report.sets[i][1]) = report.sets[i][2]

\* A call of the client is under way.
GxInCall == rpc.at # "idle"
=============================================================================
