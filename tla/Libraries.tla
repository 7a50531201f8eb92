------------------------------ MODULE Libraries ------------------------------
(***************************************************************************)
(* The parts of the C libraries, of the XMLTP programs and of the gateway  *)
(* that have an environment of their own, put in one specification so that *)
(* one run checks them: a behaviour is a behaviour of one part, chosen at  *)
(* its beginning, and the others rest.  The parts share no state in the    *)
(* code either, but for the grammar and the writer, which three of them    *)
(* use.                                                                    *)
(***************************************************************************)
EXTENDS Xml2Syb, XmltpApi, XmltpLex, GxResponse, Containers, Config, SockObj, RpcText, StoreForward, DestConn

CONSTANT Parts  \* the parts of a run

AllParts == {"xml2syb", "client", "reader", "gateway", "list", "array", "config", "socket", "text", "queue", "forward"}

ASSUME LibrariesAssumption == Parts \subseteq AllParts

VARIABLE part

responseVars == <<sybVars, apiVars, serverVars, gxVars, destVars>>
dataVars == <<fwdVars, listVars, arrayVars, configVars, sockVars, rpcTextVars, lexVars>>
libVars == <<part, responseVars, dataVars>>

LibInit ==
  /\ part \in Parts
  /\ SybInit /\ ServerInit /\ ApiInit /\ LexInit /\ GxInit /\ DestInit
  /\ ListInit /\ ArrayInit /\ SockInit /\ RpcTextInit
  /\ IF part = "config" THEN ConfigInit ELSE ConfigInit /\ file = << >>
  /\ IF part = "queue" THEN FwdInit ELSE FwdInit /\ ~store.persistent

\* One step of a part, which leaves the others alone.
SybPart == part = "xml2syb" /\ SybNext /\ UNCHANGED <<apiVars, serverVars, gxVars, destVars, dataVars>>
ClientPart == part = "client" /\ ApiNext /\ UNCHANGED <<sybVars, gxVars, destVars, dataVars>>
GatewayPart == part = "gateway" /\ GxNext /\ UNCHANGED <<sybVars, apiVars, serverVars, destVars, dataVars>>
ForwardPart == part = "forward" /\ DestNext /\ UNCHANGED <<sybVars, apiVars, serverVars, gxVars, dataVars>>
ReaderPart ==
  /\ part = "reader" /\ LexNext
  /\ UNCHANGED <<responseVars, fwdVars, listVars, arrayVars, configVars, sockVars, rpcTextVars>>
ListPart ==
  /\ part = "list" /\ ListNext
  /\ UNCHANGED <<responseVars, fwdVars, lexVars, arrayVars, configVars, sockVars, rpcTextVars>>
ArrayPart ==
  /\ part = "array" /\ ArrayNext
  /\ UNCHANGED <<responseVars, fwdVars, lexVars, listVars, configVars, sockVars, rpcTextVars>>
ConfigPart ==
  /\ part = "config" /\ ConfigNext
  /\ UNCHANGED <<responseVars, fwdVars, lexVars, listVars, arrayVars, sockVars, rpcTextVars>>
SocketPart ==
  /\ part = "socket" /\ SockNext
  /\ UNCHANGED <<responseVars, fwdVars, lexVars, listVars, arrayVars, configVars, rpcTextVars>>
TextPart ==
  /\ part = "text" /\ RpcTextNext
  /\ UNCHANGED <<responseVars, fwdVars, lexVars, listVars, arrayVars, configVars, sockVars>>
QueuePart ==
  /\ part = "queue" /\ FwdNext
  /\ UNCHANGED <<responseVars, lexVars, listVars, arrayVars, configVars, sockVars, rpcTextVars>>

LibNext ==
  /\ UNCHANGED part
  /\ \/ SybPart \/ ClientPart \/ GatewayPart \/ ReaderPart \/ ListPart \/ ArrayPart
     \/ ConfigPart \/ SocketPart \/ TextPart \/ QueuePart \/ ForwardPart

\* The fairness of each part: what its program does by itself goes on.
LibFairness ==
  /\ WF_sybVars(part = "xml2syb" /\ (ExecReturns \/ Decides))
  /\ WF_<<apiVars, serverVars>>(part = "client" /\ TrySteps)
  /\ WF_<<apiVars, serverVars>>(part = "client" /\ (ServerAccept \/ Serve) /\ UNCHANGED apiVars)
  /\ WF_gxVars(part = "gateway" /\ GxSteps)
  /\ WF_destVars(part = "forward" /\ DestSteps)
  /\ WF_lexVars(part = "reader" /\ LexSteps)
  /\ WF_fwdVars(part = "queue" /\ FwdSteps)
  /\ WF_sockVars(part = "socket" /\ SockSteps)

LibSpec == LibInit /\ [][LibNext]_libVars /\ LibFairness

-----------------------------------------------------------------------------
(* Properties                                                              *)

\* Every variable has its type.
LibTypeOK ==
  /\ part \in Parts
  /\ SybTypeOK /\ ApiTypeOK /\ LexTypeOK /\ GxTypeOK /\ DestTypeOK
  /\ FwdTypeOK /\ ContainersTypeOK /\ ConfigTypeOK /\ SockTypeOK /\ RpcTextTypeOK

\* What a caller is answered is one response that the grammar accepts, whichever
\* program composed it: xml2syb from what CT10 reports while it executes, except
\* exactly for the responses in which it left something half-written, the gateway
\* from what the destination sends before it breaks.
ResponsesParse == SybResponseParses /\ GxClientWhole

\* The rows of an answer come from one execution of the call, by xml2syb and by
\* the client library, which both repeat calls.
OneExecution == SybOneExecution /\ RowsOfOneTry

\* Every call ends: an execution of xml2syb, a call of the client library
\* (unless a send has failed, or it waits for a server), the reading of a
\* message, a call through the gateway, forwarded or intercepted, a call on a socket whose retries are
\* limited, and the call of an active queue (unless the gate is closed or the
\* operator is waited for).
InCall ==
  CASE part = "xml2syb" -> SybInCall
    [] part = "client" -> ApiInCall /\ ~sendErrs /\ ~WaitsForServer
    [] part = "gateway" -> GxInCall
    [] part = "reader" -> Reading
    [] part = "forward" -> Forwarding
    [] part = "socket" -> Running /\ ~Unlimited
    [] part = "queue" -> FwdInCall
    [] OTHER -> FALSE

CallsEnd == []<>~InCall

\* What the programs take from a stream, from a configuration or from the text
\* of a call is what is written there.
InputIsTrue == ReadsWhatWasWritten /\ ConfigIsTrue /\ RpcTextIsTrue
=============================================================================
