----------------------------- MODULE Ct10Recov -----------------------------
(***************************************************************************)
(* The recovery module of the CT-Lib client (ct10api/ct10reco.c).  Every   *)
(* message of the server or of the library is classified, by its number,   *)
(* then by its severity; the class selects an entry of the master table;   *)
(* and the entry says what is posted on the connection: what to diagnose,  *)
(* which return code to propose, whether the call may be tried again.      *)
(*                                                                         *)
(* Masks are sets of their bits, an error class is the name its entry has  *)
(* in the configuration, and a diagnostic mask is the set of classes that  *)
(* set it (one bit per class, one of the two masks per class).             *)
(***************************************************************************)
EXTENDS Integers, Sequences, FiniteSets

CONSTANTS
  FirstRaiserror,  \* FIRST_RAISERROR_MSG_NUMBER of the configuration, 0 if absent
  Config,          \* the overrides of the file: records [class, attr, val]
  MaxCount         \* bound: a larger limit of escalation is never reached

ASSUME RaiserrorAssumption == FirstRaiserror = 0 \/ FirstRaiserror >= 20000
ASSUME MaxCountAssumption == MaxCount \in Nat

-----------------------------------------------------------------------------
(* Return codes (include/ct10api.h) and actions (include/ct10reco.h)       *)

SUCCESS == 0
FAILED == -1
DO_NOT_RETRY_RC == -5
FATAL_ERROR == -9
ERR_INTERVAL == -4
NOTHING_TO_DO == 1
BAD_CONN_HANDLE == -40
RPC_PARSING_ERROR == -10

RESET == "RESET_CONNECTION"
FLUSH == "FLUSH_RESULTS"
NO_RETRY == "DO_NOT_RETRY"
CS_FAIL == "RETURN_CS_FAIL"
NO_LOG == "DO_NOT_LOG_MSG"
FORGET_IT == {FLUSH, NO_RETRY}

Unknown == "UNKNOWN"        \* ERR_CLASS_UNKNOWN, the class -1
Fallback == "FALLBACK"      \* s_fallback_master_recov_entry

-----------------------------------------------------------------------------
(* First level: a message number, or a severity, gives a class             *)

\* s_remote_err_recov_tab; the OSCLERR numbers of the gateway are kept by name.
RemoteTab == <<
  <<201, "BAD_PARAM">>, <<208, "MISSING_OBJECT">>, <<229, "EXEC_PERMISSION_DENIED">>,
  <<249, "CONVERT_ERROR">>, <<257, "CONVERT_ERROR">>, <<265, "CONVERT_ERROR">>,
  <<266, "TRANSACTION_COUNT_IMBALANCE">>, <<276, "BAD_PARAM">>,
  <<515, "ATTEMPT_INSERT_NULL">>, <<567, "ROLE_DENIED">>, <<911, "MISSING_OBJECT">>,
  <<1205, "DEADLOCK">>, <<2601, "DUPLICATE_KEY">>, <<2812, "MISSING_PROC">>,
  <<4002, "LOGIN_REJECTED">>, <<5701, "INFO_MSG_TO_IGNORE">>,
  <<5703, "INFO_MSG_TO_IGNORE">>, <<17001, "INFO_MSG_TO_LOG">> >>

CtlibTab == <<
  <<3, "NO_SUCH_SERVER">>, <<4, "CANNOT_FIND_HOST">>, <<6, "DISCONNECTED_BY_PEER">>,
  <<7, "DISCONNECTED_BY_PEER">>, <<44, "LOGIN_REJECTED">>, <<50, "DEAD_CONNECTION">>,
  <<63, "TIMEOUT">>, <<148, "TIMEOUT">> >>

CSlibTab == << >>

\* s_severity_err_recov_tab: the severities of CT-Lib are 0..7 (external).
SeverityTab == <<
  <<0, "INFO_MSG_TO_LOG">>, <<10, "INFO_MSG_TO_LOG">>, <<8, "INFO_MSG_TO_LOG">>,
  <<9, "INFO_MSG_TO_LOG">>, <<4, "CTLIB_CONFIG_ERROR">>, <<2, "CTLIB_ERROR_RETRYABLE">>,
  <<1, "CTLIB_API_CALL_BAD">>, <<3, "CTLIB_INTERNAL_RES_FAIL">>,
  <<6, "CTLIB_INTERNAL_RES_FAIL">>, <<7, "CTLIB_FATAL">>,
  <<5, "CTLIB_COMM_ERROR_RETRYABLE">>, <<11, "SEV_OBJECT_NOT_FOUND">>,
  <<12, "SEV_WRONG_DATATYPE">>, <<13, "SEV_TRANSACTION_SCOPE_ERROR">>,
  <<14, "SEV_PERMISSION_DENIED">>, <<15, "SEV_SYNTAX_ERROR">>,
  <<16, "SEV_MISC_USER_ERROR">>, <<17, "SEV_INSUFFICIENT_SPACE_RES">>,
  <<18, "SEV_FATAL_THREAD_ERROR">>, <<19, "SEV_FATAL_RESOURCE_ERROR">>,
  <<20, "SEV_FATAL_THREAD_ERROR">>, <<21, "SEV_FATAL_DB_PROCESSES_ERROR">>,
  <<22, "SEV_FATAL_TABLE_ERROR">>, <<23, "SEV_FATAL_DATABASE_ERROR">>,
  <<24, "SEV_FATAL_SERVER_ERROR">>, <<25, "SEV_FATAL_SERVER_ERROR">>,
  <<26, "SEV_FATAL_SERVER_ERROR">> >>

\* sf_find_error_class_by_msgno / _by_severity: the first row of the table
\* with the key, and no class when there is none.
FindClass(tab, key) ==
  LET rows == {i \in DOMAIN tab : tab[i][1] = key}
  IN IF rows = {} THEN Unknown
     ELSE tab[CHOOSE i \in rows : \A j \in rows : i <= j][2]

TabOf(layer) == CASE layer = "server" -> RemoteTab
                  [] layer = "ctlib" -> CtlibTab
                  [] layer = "cslib" -> CSlibTab

ErrorClass(msg) ==
  LET byNumber == FindClass(TabOf(msg.layer), msg.no)
  IN IF byNumber = Unknown THEN FindClass(SeverityTab, msg.severity) ELSE byNumber

-----------------------------------------------------------------------------
(* Second level: the master table                                          *)

Informative == {"INFO_MSG_TO_IGNORE", "INFO_MSG_TO_LOG"}
Retried == {"DEAD_CONNECTION", "DEADLOCK", "TIMEOUT", "DISCONNECTED_BY_PEER",
            "CTLIB_ERROR_RETRYABLE", "CTLIB_COMM_ERROR_RETRYABLE",
            "CTLIB_INTERNAL_RES_FAIL"}
NotRetried == {"BAD_RETURN_STATUS", "ABORTED_BY_CUSTOM_RECOVERY", "NO_SUCH_SERVER",
               "CANNOT_FIND_HOST", "LOGIN_REJECTED", "CTLIB_CONFIG_ERROR",
               "DUPLICATE_KEY", "ATTEMPT_INSERT_NULL", "TRANSACTION_COUNT_IMBALANCE"}
CountedFatal == {"SEV_FATAL_DB_PROCESSES_ERROR", "SEV_FATAL_TABLE_ERROR",
                 "SEV_FATAL_DATABASE_ERROR", "SEV_FATAL_SERVER_ERROR"}
Forgotten == CountedFatal \cup
  {"MISSING_PROC", "MISSING_OBJECT", "BAD_PARAM", "CONVERT_ERROR",
   "EXEC_PERMISSION_DENIED", "ROLE_DENIED", "CIG_RESOURCE_ERROR", "CIG_GATE_CLOSE",
   "BAD_REG_PROC_PARAMS", "BAD_REG_PROC_DEFINITION", "CTLIB_API_CALL_BAD",
   "CTLIB_FATAL", "SEV_OBJECT_NOT_FOUND", "SEV_WRONG_DATATYPE",
   "SEV_TRANSACTION_SCOPE_ERROR", "SEV_PERMISSION_DENIED", "SEV_SYNTAX_ERROR",
   "SEV_MISC_USER_ERROR", "SEV_INSUFFICIENT_SPACE_RES", "SEV_FATAL_THREAD_ERROR",
   "SEV_FATAL_RESOURCE_ERROR"}

\* The entries before ERR_CLASS_UNKNOWN, which ends every walk of the table.
Classes == Informative \cup Retried \cup NotRetried \cup Forgotten \cup {"CONNECT_TIMEOUT"}

EntryActions(c) ==
  CASE c = "INFO_MSG_TO_IGNORE" -> {NO_LOG}
    [] c \in {"DEADLOCK", "DISCONNECTED_BY_PEER"} -> {RESET, FLUSH}
    [] c = "TIMEOUT" -> {RESET, FLUSH, CS_FAIL}
    [] c = "CTLIB_COMM_ERROR_RETRYABLE" -> {RESET}
    [] c = "CTLIB_INTERNAL_RES_FAIL" -> {RESET, CS_FAIL}
    [] c = "CTLIB_FATAL" -> FORGET_IT \cup {CS_FAIL}
    [] c \in Forgotten \ {"CTLIB_FATAL"} -> FORGET_IT
    [] c \in NotRetried \cup {Fallback} -> {NO_RETRY}
    [] OTHER -> {}

EntryCode(c) ==
  CASE c \in Informative -> SUCCESS
    [] c \in CountedFatal \cup {"CTLIB_FATAL", "SEV_FATAL_RESOURCE_ERROR"} -> FATAL_ERROR
    [] c \in (Retried \ {"CTLIB_INTERNAL_RES_FAIL"}) \cup
             {"BAD_RETURN_STATUS", "ABORTED_BY_CUSTOM_RECOVERY", "CONNECT_TIMEOUT",
              Fallback} -> FAILED
    [] OTHER -> DO_NOT_RETRY_RC

EntryEscalation(c) ==
  CASE c \in Informative -> 0
    [] c \in CountedFatal -> 5
    [] c \in {"ABORTED_BY_CUSTOM_RECOVERY", "CONNECT_TIMEOUT", "CIG_RESOURCE_ERROR",
              "CIG_GATE_CLOSE", "CTLIB_INTERNAL_RES_FAIL", Fallback,
              "SEV_INSUFFICIENT_SPACE_RES"} -> 200
    [] c \in (Retried \ {"CTLIB_INTERNAL_RES_FAIL"}) \cup
             {"BAD_RETURN_STATUS", "DUPLICATE_KEY", "ATTEMPT_INSERT_NULL"} -> 2000
    [] OTHER -> 15

\* s_master_recov_tab with the single fallback entry beside it; the total
\* counters, the delays and the debug levels are left out.
DefaultTable ==
  [c \in Classes \cup {Fallback} |->
     [maxEsc |-> EntryEscalation(c), actions |-> EntryActions(c),
      code |-> EntryCode(c),
      maxRetry |-> IF c \in Retried THEN 3 ELSE IF c = "CONNECT_TIMEOUT" THEN 2 ELSE 0]]

\* sf_find_recov_entry_for_error_class: the walk ends at the class -1, so a
\* class that has no entry, and the unknown one, get the fallback entry.
EntryOf(class) == IF class \in Classes THEN class ELSE Fallback

\* ct10reco_reconfigure_master_recov_table_from_config_params: the entries
\* before the class -1 take the values of the file that are in range.
HighestLimit == 1000000
InRange(o) ==
  \/ o.attr = "maxEsc" /\ o.val \in 0..HighestLimit
  \/ o.attr = "maxRetry" /\ o.val \in 0..10
  \/ o.attr = "actions" /\ o.val \subseteq {RESET, FLUSH, NO_RETRY, CS_FAIL, NO_LOG}
Overridden(c, attr, default) ==
  LET os == {o \in Config : o.class = c /\ o.attr = attr}
  IN IF c = Fallback \/ os = {} THEN default
     ELSE LET o == CHOOSE o \in os : TRUE IN IF InRange(o) THEN o.val ELSE default
Table ==
  [c \in Classes \cup {Fallback} |->
     LET d == DefaultTable[c]
     IN [maxEsc |-> Overridden(c, "maxEsc", d.maxEsc), code |-> d.code,
         actions |-> Overridden(c, "actions", d.actions),
         maxRetry |-> Overridden(c, "maxRetry", d.maxRetry)]]

\* curr_batch_ctr, of the entries whose limit the bound allows to reach.
Tracked == {c \in DOMAIN Table : Table[c].maxEsc \in 1..MaxCount}

\* ct10reco_reset_current_batch_counters: not the fallback entry.
BatchReset(count) == [c \in Tracked |-> IF c = Fallback THEN count[c] ELSE 0]

-----------------------------------------------------------------------------
(* sf_recover_from_error: one message                                      *)

\* It only matters whether a counter reached its limit: it stops there.
Counted(count, e) ==
  [c \in Tracked |-> IF c = e /\ count[c] < Table[c].maxEsc THEN count[c] + 1 ELSE count[c]]

\* The return code a message proposes, its entry e being already counted.
ProposedCode(count, e, class, no) ==
  LET fromRaiserror == /\ FirstRaiserror # 0
                       /\ no > FirstRaiserror
                       /\ class = "SEV_MISC_USER_ERROR"
      base == IF fromRaiserror THEN SUCCESS ELSE Table[e].code
      escalated == e \in Tracked /\ count[e] >= Table[e].maxEsc
  IN IF escalated THEN base + ERR_INTERVAL ELSE base

\* Mutant of Posted: the number of retries is not compared with the limit.
MutPosted(r, entry, class, code) ==
  [r EXCEPT !.diag = @ \cup {class}, !.action = @ \cup entry.actions,
            !.code = IF code < @ THEN code ELSE @]

\* What the message leaves on the connection record r.
Posted(r, entry, class, code) ==
  [r EXCEPT !.diag = @ \cup {class},
            !.action = @ \cup entry.actions
                         \cup (IF r.retryCtr >= entry.maxRetry THEN {NO_RETRY} ELSE {}),
            !.code = IF code < @ THEN code ELSE @]

\* What the handlers of CT-Lib return to the library.
HandlerReturns(layer, entry) ==
  IF layer = "server" \/ CS_FAIL \notin entry.actions THEN "succeed" ELSE "fail"
=============================================================================
