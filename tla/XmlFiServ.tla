----------------------------- MODULE XmlFiServ -----------------------------
(***************************************************************************)
(* The file server (xmltp/xmlfisrv.c) that stands for a database server in *)
(* tests: it answers a call with the file of that name.  Its listener, the *)
(* process that it forks for a connection, and the link between this one   *)
(* and its client.                                                         *)
(*                                                                         *)
(* A link carries one call at a time to the server, and the tokens of      *)
(* XmltpWire back.  The files are what XmltpWire's writer would write, or  *)
(* are not a sentence of the grammar; but every one has its status and its *)
(* end, without which the client would wait for ever.                      *)
(***************************************************************************)
EXTENDS XmltpWire

CONSTANTS
  MaxBinds,  \* SOCKPARA_NB_RETRY_LISTEN_DEFAULT
  Files,     \* what the allowed file may be: "rows", "failed rows", "params", "status", "bad"
  MaxBreaks  \* bound: how often a link breaks

ASSUME XmlFiServAssumption ==
  /\ MaxBinds \in Nat \ {0} /\ MaxBreaks \in Nat
  /\ Files \subseteq {"rows", "failed rows", "params", "status", "bad"}

VARIABLES
  listener, \* [at : "bind", "accept" or "gone", binds : the failed tries]
  session,  \* the child: [at, cached]: s_last_file_read with its content, or "none"
  link,     \* [up, request, answer]: the call sent, the tokens not read yet
  breaks    \* how often a link broke

serverVars == <<listener, session, link, breaks>>

NoCall == <<"none", 0>>
Procs == {"login", "ping", "file", "denied"}
NOT_ALLOWED == -500

NoLink == [up |-> FALSE, request |-> NoCall, answer |-> << >>]
NewLink == [NoLink EXCEPT !.up = TRUE]

ServerInit ==
  /\ listener = [at |-> "bind", binds |-> 0]
  /\ session = [at |-> "none", cached |-> "none"]
  /\ link = NoLink /\ breaks = 0

-----------------------------------------------------------------------------
(* The listener                                                            *)

ServerBind(bound) ==
  /\ listener.at = "bind"
  /\ listener' = CASE bound -> [at |-> "accept", binds |-> 0]
                   [] ~bound /\ listener.binds + 1 = MaxBinds -> [at |-> "gone", binds |-> 0]
                   [] OTHER -> [listener EXCEPT !.binds = @ + 1]
  /\ UNCHANGED <<session, link, breaks>>

\* A connection that waits is accepted, and has a process of its own.
ServerAccept ==
  /\ listener.at = "accept" /\ session.at = "waits"
  /\ session' = [at |-> "parse", cached |-> "none"]
  /\ UNCHANGED <<listener, link, breaks>>

\* accept() or fork() fails: the listener stops, and what waits is closed.
ListenerStops ==
  /\ listener.at = "accept"
  /\ listener' = [listener EXCEPT !.at = "gone"]
  /\ IF session.at = "waits"
     THEN session' = [session EXCEPT !.at = "gone"] /\ link' = [link EXCEPT !.up = FALSE]
     ELSE UNCHANGED <<session, link>>
  /\ UNCHANGED breaks

-----------------------------------------------------------------------------
(* The session                                                             *)

\* The answers of the registered procedures; a value is tagged with the call
\* that it answers.
LoginAnswer(call) ==
  LET w == ColumnName(BeginResultSet(FreshWriter, 1, 0))
  IN EndResponse(EndColumnValues(ColumnValue(w, call)), 0, 0, 1).out

StatusAnswer(status) == EndResponse(FreshWriter, status, 0, 0).out

\* A file holds a result set, whose status may say that the procedure failed,
\* output parameters, a status alone, or no response.
FileAnswer(file, call) ==
  LET set == EndColumnValues(ColumnValue(ColumnName(BeginResultSet(FreshWriter, 1, 0)), call))
  IN CASE file = "rows" -> EndResponse(set, 0, 0, 1).out
       [] file = "failed rows" -> EndResponse(set, -1, 0, 1).out
       [] file = "params" -> EndResponse(ParamValue(BeginOutputParams(FreshWriter, 0), call), 0, 0, 0).out
       [] file = "status" -> StatusAnswer(-1)
       [] file = "bad" -> <<Tag("RESPONSE"), Tag("ROW"), <<"VAL", call>>, <<"STATUS", 0>>,
                               Tag("/RESPONSE"), Tag("EOT")>>

\* sf_get_xml_file_and_send_it_back: what was read first is sent again; a file
\* that cannot be opened or read, and one that is not allowed, are a status.
FromFile(call) ==
  IF session.cached # "none"
  THEN {[tokens |-> FileAnswer(session.cached, call), cached |-> session.cached]}
  ELSE {[tokens |-> FileAnswer(file, call), cached |-> file] : file \in Files}
       \cup {[tokens |-> StatusAnswer(rc), cached |-> "none"] : rc \in {-1, -2}}

Answers(proc, call) ==
  CASE proc = "login" -> {[tokens |-> LoginAnswer(call), cached |-> session.cached]}
    [] proc = "ping" -> {[tokens |-> StatusAnswer(0), cached |-> session.cached]}
    [] proc = "denied" -> {[tokens |-> StatusAnswer(NOT_ALLOWED), cached |-> session.cached]}
    [] proc = "file" -> FromFile(call)

\* The call is parsed and executed.  A failed send of a file is logged only.
Serve ==
  /\ session.at = "parse" /\ link.up /\ link.request # NoCall
  /\ \E answer \in Answers(link.request[1], link.request[2]) :
       /\ link' = [link EXCEPT !.request = NoCall, !.answer = @ \o answer.tokens]
       /\ session' = [session EXCEPT !.cached = answer.cached]
  /\ UNCHANGED <<listener, breaks>>

\* The link breaks, or the process is killed: what is under way may be lost.
Break ==
  /\ link.up /\ breaks < MaxBreaks
  /\ breaks' = breaks + 1
  /\ \E n \in 0..Len(link.answer) :
       link' = [up |-> FALSE, request |-> NoCall, answer |-> SubSeq(link.answer, 1, n)]
  /\ session' = [session EXCEPT !.at = "gone", !.cached = "none"]
  /\ UNCHANGED listener

ServerNext ==
  \/ \E b \in BOOLEAN : ServerBind(b)
  \/ ServerAccept \/ ListenerStops \/ Serve \/ Break

ServerTypeOK ==
  /\ listener.at \in {"bind", "accept", "gone"} /\ listener.binds \in 0..MaxBinds
  /\ session.at \in {"none", "waits", "parse", "gone"} /\ session.cached \in Files \cup {"none"}
  /\ link.up \in BOOLEAN /\ breaks \in 0..MaxBreaks
=============================================================================
