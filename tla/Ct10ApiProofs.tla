--------------------------- MODULE Ct10ApiProofs ---------------------------
(***************************************************************************)
(* Proofs about Ct10Api, for any configuration of the recovery, any set of *)
(* messages and any number of tries.  What the rows and the command of a   *)
(* call are holds whatever the application does; what the messages of a    *)
(* try allow, and the bound on the retries, need that the application does *)
(* not go on with a handle it has closed, whose messages find no owner.    *)
(***************************************************************************)
EXTENDS Ct10Api, FiniteSetTheorems, WellFoundedInduction, TLAPS

-----------------------------------------------------------------------------
(* The inductive invariant *)

Codes == FATAL_ERROR + ERR_INTERVAL .. 0
ActionBits == {RESET, NO_LOG} \cup FORGET_IT \cup {CS_FAIL}
AllClasses == Classes \cup {Unknown}
Entries == Classes \cup {Fallback}
ConnType ==
  [retryCtr : Nat, action : SUBSET ActionBits, code : Codes, diag : SUBSET AllClasses,
   result : {"present", "not"}, status : BOOLEAN,
   cmd : {"none", "current", "stale", "dropped"}]
InfoType ==
  [retryCtr : Nat \cup {-1}, action : SUBSET ActionBits, code : Codes,
   diag : SUBSET AllClasses, result : {"present", "not"}]
Frame == [fn : Functions, saved : InfoType, reset : BOOLEAN]
CallType == [tries : Nat, shown : SUBSET Nat, heard : SUBSET AllClasses, msgs : Nat]
Points == {"idle", "check", "setup", "connected", "ready", "decide", "return"} \cup Waiting

TypeInv ==
  /\ handle \in {"none", "listed", "closed"}
  /\ lib \in {"null", "alloc", "open", "dead"}
  /\ conn \in ConnType
  /\ count \in [Tracked -> 0..MaxCount]
  /\ stack \in Seq(Frame)
  /\ pc \in Points
  /\ res \in {"unset", "row", "param", "status"}
  /\ ret \in Int
  /\ call \in CallType

\* The connection is being opened: from the call of ct10api_connect to its
\* return, the execution of the initialisation string included.
Reconnecting == pc \in {"setup", "connect", "connected"} \/ Len(stack) = 2

\* Who calls whom: the initialisation string is executed on a connection that
\* has just been opened, so that it never connects in its turn.
StackInv ==
  /\ pc = "idle" <=> Len(stack) = 0
  /\ Len(stack) <= 2
  /\ Len(stack) >= 1 => stack[1].fn \in {"rpc", "lang", "connect"}
  /\ Len(stack) = 2 => /\ stack[2].fn = "init"
                       /\ pc \in {"check", "ready", "send", "results", "fetch", "return"}
                       /\ pc = "check" => Usable
  /\ Len(stack) = 1 /\ stack[1].fn = "connect" =>
       pc \in {"setup", "connect", "connected", "return"}
  /\ pc = "decide" => stack[1].fn = "rpc"
  /\ Len(stack) >= 1 /\ stack[1].fn # "connect" /\ Reconnecting =>
       stack[1].saved.retryCtr \in Nat
  /\ call.tries > 0 /\ pc # "idle" => stack[1].fn = "rpc"

InRpc == Len(stack) = 1 /\ stack[1].fn = "rpc"

\* Only the last try shows results, and a try that shows some leaves the mark
\* that forbids another one.
ShownInv ==
  /\ call.shown \subseteq {call.tries}
  /\ call.shown # {} =>
       /\ Len(stack) <= 1
       /\ pc \in {"results", "fetch", "decide", "return", "idle"}
       /\ InRpc /\ pc \in {"results", "fetch", "decide"} => conn.result = "present"
  /\ pc = "fetch" /\ res # "status" => conn.result = "present"

\* The command is one of the connection that is open; before a retry, it still
\* is, unless the retry is going to open another one.
CommandInv ==
  /\ pc \in {"send", "results", "fetch", "decide"} => conn.cmd = "current"
  /\ InRpc /\ conn.retryCtr > 0 =>
       /\ pc = "check" /\ RESET \notin conn.action => conn.cmd = "current"
       /\ pc = "ready" /\ ~stack[1].reset => conn.cmd = "current"

\* The part that holds whatever the application does.
CallInv == TypeInv /\ StackInv /\ ShownInv /\ CommandInv

InTry == InRpc /\ pc \in {"send", "results", "fetch", "decide"}

\* What the messages of the try posted is still on the connection.
HeardInv ==
  /\ InTry =>
       /\ \A c \in call.heard :
            /\ Table[EntryOf(c)].actions \subseteq conn.action
            /\ conn.retryCtr >= Table[EntryOf(c)].maxRetry => NO_RETRY \in conn.action
            /\ conn.code >= SUCCESS => Harmless(c)
       /\ conn.code < SUCCESS => call.heard # {}
  /\ pc = "decide" => /\ ret # SUCCESS => call.heard # {}
                      /\ ret = SUCCESS => \A c \in call.heard : Harmless(c)
  /\ pc \in {"return", "idle"} /\ call.tries > 0 /\ Len(stack) <= 1 /\ ret = SUCCESS =>
       \A c \in call.heard : Harmless(c)

\* No entry allows more than ten retries.
RetryInv ==
  /\ conn.retryCtr \in 0..10
  /\ Len(stack) >= 1 /\ stack[1].fn # "connect" /\ Reconnecting =>
       stack[1].saved.retryCtr \in 0..10

\* The part that needs the messages to find the handle: the application calls
\* with a handle that is in the list.
ListedInv == pc # "idle" => handle = "listed"
PostedInv ==
  /\ ListedInv
  /\ HeardInv
  /\ RetryInv

-----------------------------------------------------------------------------
(* The tables *)

\* Every row of the first level names a class of the master table.
LEMMA TabsType ==
  ASSUME NEW tab \in {RemoteTab, CtlibTab, CSlibTab, SeverityTab}
  PROVE  /\ DOMAIN tab \subseteq Nat
         /\ \A i \in DOMAIN tab : tab[i][2] \in Classes
<1>1. CASE tab = RemoteTab
  <2>1. DOMAIN tab = 1..18
    BY <1>1 DEF RemoteTab
  <2>2. \A i \in 1..18 : tab[i][2] \in
          {"BAD_PARAM", "MISSING_OBJECT", "EXEC_PERMISSION_DENIED", "CONVERT_ERROR",
           "TRANSACTION_COUNT_IMBALANCE", "ATTEMPT_INSERT_NULL", "ROLE_DENIED",
           "DEADLOCK", "DUPLICATE_KEY", "MISSING_PROC", "LOGIN_REJECTED",
           "INFO_MSG_TO_IGNORE", "INFO_MSG_TO_LOG"}
    BY <1>1 DEF RemoteTab
  <2>3. QED BY <2>1, <2>2, SMTT(40) DEF Classes, Informative, Retried, NotRetried, Forgotten
<1>2. CASE tab = CtlibTab
  <2>1. DOMAIN tab = 1..8
    BY <1>2 DEF CtlibTab
  <2>2. \A i \in 1..8 : tab[i][2] \in
          {"NO_SUCH_SERVER", "CANNOT_FIND_HOST", "DISCONNECTED_BY_PEER",
           "LOGIN_REJECTED", "DEAD_CONNECTION", "TIMEOUT"}
    BY <1>2 DEF CtlibTab
  <2>3. QED BY <2>1, <2>2 DEF Classes, Retried, NotRetried
<1>3. CASE tab = CSlibTab
  BY <1>3 DEF CSlibTab
<1>4. CASE tab = SeverityTab
  <2>1. DOMAIN tab = 1..27
    BY <1>4 DEF SeverityTab
  <2>2. \A i \in 1..27 : tab[i][2] \in
          {"INFO_MSG_TO_LOG", "CTLIB_CONFIG_ERROR", "CTLIB_ERROR_RETRYABLE",
           "CTLIB_API_CALL_BAD", "CTLIB_INTERNAL_RES_FAIL", "CTLIB_FATAL",
           "CTLIB_COMM_ERROR_RETRYABLE", "SEV_OBJECT_NOT_FOUND", "SEV_WRONG_DATATYPE",
           "SEV_TRANSACTION_SCOPE_ERROR", "SEV_PERMISSION_DENIED", "SEV_SYNTAX_ERROR",
           "SEV_MISC_USER_ERROR", "SEV_INSUFFICIENT_SPACE_RES", "SEV_FATAL_THREAD_ERROR",
           "SEV_FATAL_RESOURCE_ERROR", "SEV_FATAL_DB_PROCESSES_ERROR",
           "SEV_FATAL_TABLE_ERROR", "SEV_FATAL_DATABASE_ERROR", "SEV_FATAL_SERVER_ERROR"}
    BY <1>4 DEF SeverityTab
  <2>3. QED BY <2>1, <2>2, SMTT(40)
            DEF Classes, Informative, Retried, NotRetried, Forgotten, CountedFatal
<1>5. QED BY <1>1, <1>2, <1>3, <1>4

\* A set of rows that is not empty has a first one.
LEMMA FirstRow ==
  ASSUME NEW S, S \subseteq Nat, S # {}
  PROVE  (CHOOSE i \in S : \A j \in S : i <= j) \in S
<1>1. OpToRel(<, Nat) = {ss \in Nat \X Nat : ss[1] < ss[2]}
  BY Zenon DEF OpToRel
<1>2. \E f \in S : \A g \in S : ~(<<g, f>> \in OpToRel(<, Nat))
  BY WFMin, NatLessThanWellFounded, Zenon
<1>3. \E f \in S : \A g \in S : ~(<<g, f>> \in {ss \in Nat \X Nat : ss[1] < ss[2]})
  BY <1>1, <1>2, Zenon
<1>4. \A f, g \in S : ~(<<g, f>> \in {ss \in Nat \X Nat : ss[1] < ss[2]}) => f <= g
  OBVIOUS
<1>5. \E f \in S : \A g \in S : f <= g
  BY <1>3, <1>4, Zenon
<1>6. QED BY <1>5

LEMMA FindClassType ==
  ASSUME NEW tab \in {RemoteTab, CtlibTab, CSlibTab, SeverityTab}, NEW key
  PROVE  FindClass(tab, key) \in AllClasses
<1> DEFINE rows == {i \in DOMAIN tab : tab[i][1] = key}
           first == CHOOSE i \in rows : \A j \in rows : i <= j
<1>1. rows \subseteq Nat
  BY TabsType
<1>2. CASE rows = {}
  BY <1>2 DEF FindClass, AllClasses
<1>3. CASE rows # {}
  <2>1. first \in rows
    BY <1>1, <1>3, FirstRow, Zenon
  <2>2. tab[first][2] \in Classes
    <3> HIDE DEF first
    <3>1. QED BY <2>1, TabsType
  <2>3. FindClass(tab, key) = tab[first][2]
    BY <1>3, Zenon DEF FindClass
  <2>4. QED BY <2>2, <2>3 DEF AllClasses
<1>4. QED BY <1>2, <1>3

\* Every message has a class.
LEMMA ErrorClassType ==
  ASSUME NEW msg \in Messages
  PROVE  ErrorClass(msg) \in AllClasses
<1>1. msg.layer \in {"server", "ctlib", "cslib"}
  BY Ct10Assumption
<1>2. TabOf(msg.layer) \in {RemoteTab, CtlibTab, CSlibTab, SeverityTab}
  BY <1>1 DEF TabOf
<1>3. FindClass(TabOf(msg.layer), msg.no) \in AllClasses
  BY <1>2, FindClassType
<1>4. FindClass(SeverityTab, msg.severity) \in AllClasses
  BY FindClassType
<1>5. QED BY <1>3, <1>4, Zenon DEF ErrorClass

LEMMA EntryOfType ==
  ASSUME NEW class
  PROVE  EntryOf(class) \in Entries
BY DEF EntryOf, Entries

\* The entries of the table: the overrides of the file that are taken are in
\* range, whatever the file says.
LEMMA EntryCodeType ==
  ASSUME NEW c \in Entries
  PROVE  EntryCode(c) \in {SUCCESS, FAILED, DO_NOT_RETRY_RC, FATAL_ERROR}
BY Zenon DEF EntryCode

LEMMA EntryActionsType ==
  ASSUME NEW c \in Entries
  PROVE  EntryActions(c) \subseteq ActionBits
<1>1. EntryActions(c) \in {{NO_LOG}, {RESET, FLUSH}, {RESET, FLUSH, CS_FAIL}, {RESET},
        {RESET, CS_FAIL}, FORGET_IT \cup {CS_FAIL}, FORGET_IT, {NO_RETRY}, {}}
  BY Zenon DEF EntryActions
<1>2. QED BY <1>1 DEF ActionBits, FORGET_IT

\* An attribute has its default value or one that is in range.
LEMMA OverriddenCases ==
  ASSUME NEW c, NEW attr, NEW default
  PROVE  \/ Overridden(c, attr, default) = default
         \/ \E o \in Config : o.attr = attr /\ InRange(o) /\ Overridden(c, attr, default) = o.val
<1> DEFINE os == {o \in Config : o.class = c /\ o.attr = attr}
           one == CHOOSE o \in os : TRUE
<1>1. CASE c = Fallback \/ os = {}
  BY <1>1, Zenon DEF Overridden
<1>2. CASE ~(c = Fallback \/ os = {})
  <2>1. one \in os
    BY <1>2, Zenon
  <2>2. Overridden(c, attr, default) = IF InRange(one) THEN one.val ELSE default
    BY <1>2, Zenon DEF Overridden
  <2>3. QED
    <3> HIDE DEF one
    <3>1. CASE InRange(one)
      BY <2>1, <2>2, <3>1, Zenon
    <3>2. CASE ~InRange(one)
      BY <2>2, <3>2, Zenon
    <3>3. QED BY <3>1, <3>2, Zenon
<1>3. QED BY <1>1, <1>2, Zenon

LEMMA TableType ==
  ASSUME NEW c \in Entries
  PROVE  /\ Table[c].actions \subseteq ActionBits
         /\ Table[c].code \in {SUCCESS, FAILED, DO_NOT_RETRY_RC, FATAL_ERROR}
         /\ Table[c].maxRetry \in 0..10
<1> DEFINE d == DefaultTable[c]
           actions == Overridden(c, "actions", d.actions)
           maxRetry == Overridden(c, "maxRetry", d.maxRetry)
           ProposedCodes == {SUCCESS, FAILED, DO_NOT_RETRY_RC, FATAL_ERROR}
<1>1. d.actions \in SUBSET ActionBits /\ d.code \in ProposedCodes /\ d.maxRetry \in {0, 2, 3}
  <2>1. d.actions = EntryActions(c) /\ d.code = EntryCode(c) /\ d.maxRetry \in {0, 2, 3}
    BY DEF DefaultTable, Entries
  <2>2. QED BY <2>1, EntryActionsType, EntryCodeType
<1>3. Table[c].actions = actions /\ Table[c].code = d.code /\ Table[c].maxRetry = maxRetry
  BY DEF Table, Entries
<1>4. actions \subseteq ActionBits
  <2>1. actions = d.actions \/ \E o \in Config : o.attr = "actions" /\ InRange(o) /\ actions = o.val
    BY OverriddenCases
  <2>2. \A o \in Config : o.attr = "actions" /\ InRange(o) => o.val \subseteq ActionBits
    <3>1. \A o \in Config : o.attr = "actions" /\ InRange(o) =>
            o.val \subseteq {RESET, FLUSH, NO_RETRY, CS_FAIL, NO_LOG}
      BY Zenon DEF InRange
    <3>2. QED BY <3>1 DEF ActionBits, FORGET_IT
  <2>3. d.actions \subseteq ActionBits
    BY <1>1
  <2>4. QED
    <3> HIDE DEF d, actions
    <3>1. QED BY <2>1, <2>2, <2>3, Zenon
<1>5. maxRetry \in 0..10
  <2>1. maxRetry = d.maxRetry \/ \E o \in Config : o.attr = "maxRetry" /\ InRange(o) /\ maxRetry = o.val
    BY OverriddenCases
  <2>2. \A o \in Config : o.attr = "maxRetry" /\ InRange(o) => o.val \in 0..10
    BY Zenon DEF InRange
  <2>3. d.maxRetry \in 0..10
    BY <1>1
  <2>4. QED
    <3> HIDE DEF d, maxRetry
    <3>1. QED BY <2>1, <2>2, <2>3, Zenon
<1>6. d.code \in ProposedCodes
  BY <1>1
<1>7. QED BY <1>3, <1>4, <1>5, <1>6, Zenon

\* The entries whose counter is bounded.
LEMMA TrackedType ==
  ASSUME NEW c \in Tracked
  PROVE  c \in Entries /\ Table[c].maxEsc \in 1..MaxCount
BY DEF Tracked, Entries, Table

-----------------------------------------------------------------------------
(* One message *)

LEMMA CountedType ==
  ASSUME count \in [Tracked -> 0..MaxCount], NEW e
  PROVE  Counted(count, e) \in [Tracked -> 0..MaxCount]
<1>1. SUFFICES ASSUME NEW c \in Tracked, c = e, count[c] < Table[c].maxEsc
               PROVE  count[c] + 1 \in 0..MaxCount
  BY DEF Counted
<1>2. Table[c].maxEsc \in 1..MaxCount /\ count[c] \in 0..MaxCount
  BY TrackedType
<1>3. QED BY <1>1, <1>2, MaxCountAssumption

\* A message never proposes more than SUCCESS, and SUCCESS only when it is
\* harmless: a counter at its limit escalates even an informative message.
LEMMA ProposedCodeType ==
  ASSUME NEW n, NEW class, NEW no
  PROVE  LET code == ProposedCode(n, EntryOf(class), class, no)
         IN code \in Codes /\ (code >= SUCCESS => Harmless(class))
<1> DEFINE e == EntryOf(class)
           raised == FirstRaiserror # 0 /\ no > FirstRaiserror /\ class = "SEV_MISC_USER_ERROR"
           base == IF raised THEN SUCCESS ELSE Table[e].code
           escalated == e \in Tracked /\ n[e] >= Table[e].maxEsc
           code == ProposedCode(n, e, class, no)
<1>1. Table[e].code \in {SUCCESS, FAILED, DO_NOT_RETRY_RC, FATAL_ERROR}
  BY EntryOfType, TableType
<1>2. base \in {SUCCESS, FAILED, DO_NOT_RETRY_RC, FATAL_ERROR}
  BY <1>1, Zenon
<1>3. base = SUCCESS => Harmless(class)
  BY Zenon DEF Harmless
<1>4. code = IF escalated THEN base + ERR_INTERVAL ELSE base
  BY Zenon DEF ProposedCode
<1>5. code \in Codes /\ (code >= SUCCESS => Harmless(class))
  <2> HIDE DEF base, escalated, code
  <2>1. escalated => code \in Codes /\ ~(code >= SUCCESS)
    BY <1>2, <1>4
       DEF Codes, SUCCESS, FAILED, DO_NOT_RETRY_RC, FATAL_ERROR, ERR_INTERVAL
  <2>2. ~escalated => code \in Codes /\ (code >= SUCCESS => base = SUCCESS)
    BY <1>2, <1>4
       DEF Codes, SUCCESS, FAILED, DO_NOT_RETRY_RC, FATAL_ERROR, ERR_INTERVAL
  <2>3. QED BY <1>3, <2>1, <2>2, Zenon
<1>6. QED BY <1>5, Zenon

\* What a message posts: the code is the least proposed, and only the masks
\* and the code change.
LEMMA PostedFacts ==
  ASSUME conn \in ConnType, NEW class \in AllClasses, NEW code \in Codes
  PROVE  LET entry == Table[EntryOf(class)]
             new == Posted(conn, entry, class, code)
         IN /\ new \in ConnType
            /\ new.retryCtr = conn.retryCtr /\ new.result = conn.result
            /\ new.status = conn.status /\ new.cmd = conn.cmd
            /\ conn.action \cup entry.actions \subseteq new.action
            /\ conn.retryCtr >= entry.maxRetry => NO_RETRY \in new.action
            /\ new.code \in {code, conn.code} /\ new.code <= code /\ new.code <= conn.code
<1> DEFINE entry == Table[EntryOf(class)]
           action == conn.action \cup entry.actions
                       \cup (IF conn.retryCtr >= entry.maxRetry THEN {NO_RETRY} ELSE {})
           least == IF code < conn.code THEN code ELSE conn.code
           new == Posted(conn, entry, class, code)
<1>1. new = [conn EXCEPT !.diag = conn.diag \cup {class}, !.action = action, !.code = least]
  BY DEF Posted
<1>2. entry.actions \subseteq ActionBits
  BY EntryOfType, TableType
<1>3. action \subseteq ActionBits
  BY <1>2 DEF ConnType, ActionBits, FORGET_IT
<1>4. least \in Codes /\ least \in {code, conn.code} /\ least <= code /\ least <= conn.code
  BY DEF ConnType, Codes, FATAL_ERROR, ERR_INTERVAL
<1>5. conn.diag \cup {class} \subseteq AllClasses
  BY DEF ConnType
<1>6. /\ new \in ConnType
      /\ new.retryCtr = conn.retryCtr /\ new.result = conn.result
      /\ new.status = conn.status /\ new.cmd = conn.cmd
      /\ new.action = action /\ new.code = least
  <2> HIDE DEF action, least, new
  <2>1. QED BY <1>1, <1>3, <1>4, <1>5 DEF ConnType
<1>7. conn.action \cup entry.actions \subseteq action
  OBVIOUS
<1>8. conn.retryCtr >= entry.maxRetry => NO_RETRY \in action
  OBVIOUS
<1>9. /\ new \in ConnType
      /\ new.retryCtr = conn.retryCtr /\ new.result = conn.result
      /\ new.status = conn.status /\ new.cmd = conn.cmd
      /\ conn.action \cup entry.actions \subseteq new.action
      /\ conn.retryCtr >= entry.maxRetry => NO_RETRY \in new.action
      /\ new.code \in {code, conn.code} /\ new.code <= code /\ new.code <= conn.code
  <2> HIDE DEF action, least, entry, new
  <2>1. QED BY <1>4, <1>6, <1>7, <1>8
<1>10. QED BY <1>9, Zenon

-----------------------------------------------------------------------------
(* The stack *)

LEMMA SetTopFacts ==
  ASSUME stack \in Seq(Frame), Len(stack) \in {1, 2}, NEW f \in Frame
  PROVE  /\ SetTop(f) \in Seq(Frame)
         /\ Len(SetTop(f)) = Len(stack)
         /\ Len(stack) = 1 => SetTop(f)[1] = f
         /\ Len(stack) = 2 => SetTop(f)[1] = stack[1] /\ SetTop(f)[2] = f
BY DEF SetTop

LEMMA PopFacts ==
  ASSUME stack \in Seq(Frame), Len(stack) \in {1, 2}
  PROVE  /\ Pop \in Seq(Frame)
         /\ Len(Pop) = Len(stack) - 1
         /\ Len(stack) = 2 => Pop[1] = stack[1]
BY DEF Pop

LEMMA PushFacts ==
  ASSUME stack \in Seq(Frame), NEW f \in Frame
  PROVE  /\ Append(stack, f) \in Seq(Frame)
         /\ Len(Append(stack, f)) = Len(stack) + 1
         /\ Len(stack) = 1 => Append(stack, f)[1] = stack[1] /\ Append(stack, f)[2] = f
OBVIOUS

LEMMA NewFrame ==
  ASSUME NEW fn \in Functions
  PROVE  /\ [fn |-> fn, saved |-> NoInfo, reset |-> FALSE] \in Frame
         /\ <<[fn |-> fn, saved |-> NoInfo, reset |-> FALSE]>> \in Seq(Frame)
<1>1. NoInfo \in InfoType
  BY DEF NoInfo, InfoType, Codes, FATAL_ERROR, ERR_INTERVAL
<1>2. [fn |-> fn, saved |-> NoInfo, reset |-> FALSE] \in Frame
  <2> HIDE DEF NoInfo
  <2>1. QED BY <1>1 DEF Frame
<1>3. QED BY <1>2

\* A call that has not returned has a function on top of its stack.
LEMMA TopFacts ==
  ASSUME TypeInv, StackInv, pc # "idle"
  PROVE  /\ Len(stack) \in {1, 2}
         /\ Top \in Frame
         /\ Len(stack) = 1 => Top = stack[1]
         /\ Len(stack) = 2 => Top = stack[2] /\ Top.fn = "init"
<1>1. stack \in Seq(Frame)
  BY DEF TypeInv
<1>2. Len(stack) \in Nat /\ Len(stack) # 0 /\ Len(stack) <= 2
  BY <1>1 DEF StackInv
<1>3. Len(stack) \in {1, 2}
  <2>1. \A n \in Nat : n # 0 /\ n <= 2 => n \in {1, 2}
    OBVIOUS
  <2>2. QED BY <1>2, <2>1, Zenon
<1>4. Len(stack) = 2 => stack[2].fn = "init"
  BY DEF StackInv
<1>5. QED BY <1>1, <1>3, <1>4 DEF Top

\* A function that replaces its own frame stays where it is.
LEMMA SetTopKeeps ==
  ASSUME TypeInv, StackInv, pc # "idle", NEW f \in Frame, f.fn = Top.fn
  PROVE  /\ SetTop(f) \in Seq(Frame)
         /\ Len(SetTop(f)) = Len(stack)
         /\ SetTop(f)[1].fn = stack[1].fn
         /\ Len(stack) = 1 => SetTop(f)[1] = f
         /\ Len(stack) = 2 => SetTop(f)[1] = stack[1] /\ SetTop(f)[2].fn = "init"
<1>1. stack \in Seq(Frame)
  BY DEF TypeInv
<1>2. Len(stack) \in {1, 2}
  BY TopFacts
<1>3. /\ SetTop(f) \in Seq(Frame)
      /\ Len(SetTop(f)) = Len(stack)
      /\ Len(stack) = 1 => SetTop(f)[1] = f
      /\ Len(stack) = 2 => SetTop(f)[1] = stack[1] /\ SetTop(f)[2] = f
  BY <1>1, <1>2, SetTopFacts
<1>4. CASE Len(stack) = 1
  BY <1>3, <1>4, TopFacts
<1>5. CASE Len(stack) = 2
  BY <1>3, <1>5, TopFacts
<1>6. QED BY <1>2, <1>3, <1>4, <1>5

LEMMA InfoFacts ==
  ASSUME TypeInv
  PROVE  /\ NoInfo \in InfoType
         /\ Info \in InfoType /\ Info.retryCtr = conn.retryCtr
<1>1. NoInfo \in InfoType
  BY DEF NoInfo, InfoType, Codes, FATAL_ERROR, ERR_INTERVAL
<1>2. Info \in InfoType /\ Info.retryCtr = conn.retryCtr
  BY DEF TypeInv, Info, InfoType, ConnType
<1>3. QED BY <1>1, <1>2

\* The check of the connection notes that it did not reset it...
LEMMA CheckUsableStack ==
  ASSUME TypeInv, StackInv, CheckUsable
  PROVE  /\ stack' \in Seq(Frame) /\ Len(stack') = Len(stack) /\ Len(stack) \in {1, 2}
         /\ stack'[1].fn = stack[1].fn
         /\ Len(stack) = 1 => stack'[1].saved = stack[1].saved /\ stack'[1].reset = FALSE
         /\ Len(stack) = 2 => stack'[1] = stack[1] /\ stack'[2].fn = "init"
<1> DEFINE f == [Top EXCEPT !.reset = FALSE]
<1>1. pc # "idle" /\ stack' = SetTop(f)
  BY DEF CheckUsable
<1>2. Top \in Frame /\ Info \in InfoType
  BY <1>1, TopFacts, InfoFacts
<1>3. /\ f \in Frame /\ f.fn = Top.fn
      /\ f.reset = FALSE /\ f.saved = Top.saved
  BY <1>2 DEF Frame
<1>4. Len(stack) \in {1, 2} /\ (Len(stack) = 1 => Top = stack[1])
  BY <1>1, TopFacts
<1> HIDE DEF f
<1>5. QED BY <1>1, <1>3, <1>4, SetTopKeeps

\* ... or saves what the reconnection is going to overwrite.
LEMMA CheckReconnectsStack ==
  ASSUME TypeInv, StackInv, CheckReconnects
  PROVE  /\ stack' \in Seq(Frame) /\ Len(stack') = Len(stack) /\ Len(stack) \in {1, 2}
         /\ stack'[1].fn = stack[1].fn
         /\ Len(stack) = 1 => stack'[1].saved = Info
         /\ Len(stack) = 2 => stack'[1] = stack[1] /\ stack'[2].fn = "init"
<1> DEFINE f == [Top EXCEPT !.saved = Info]
<1>1. pc # "idle" /\ stack' = SetTop(f)
  BY DEF CheckReconnects
<1>2. Top \in Frame /\ Info \in InfoType
  BY <1>1, TopFacts, InfoFacts
<1>3. /\ f \in Frame /\ f.fn = Top.fn
      /\ f.saved = Info /\ f.reset = Top.reset
  BY <1>2 DEF Frame
<1>4. Len(stack) \in {1, 2} /\ (Len(stack) = 1 => Top = stack[1])
  BY <1>1, TopFacts
<1> HIDE DEF f
<1>5. QED BY <1>1, <1>3, <1>4, SetTopKeeps

\* When the reconnection returns, its caller forgets what it saved.
LEMMA ConnectReturnsStack ==
  ASSUME TypeInv, StackInv, ConnectReturns
  PROVE  /\ stack' \in Seq(Frame) /\ Len(stack') = Len(stack) /\ Len(stack) = 1
         /\ stack'[1].fn = stack[1].fn
         /\ pc' = "ready" => stack'[1].reset = TRUE
<1> DEFINE f == [Top EXCEPT !.saved = NoInfo, !.reset = TRUE]
           g == [Top EXCEPT !.saved = NoInfo]
<1>1. pc = "connected" /\ Len(stack) \in {1, 2} /\ Top \in Frame /\ NoInfo \in InfoType
  BY TopFacts, InfoFacts DEF ConnectReturns
<1>2. Len(stack) = 1 /\ stack \in Seq(Frame)
  BY <1>1 DEF StackInv, TypeInv
<1>3. f \in Frame /\ f.fn = Top.fn /\ f.reset = TRUE /\ g \in Frame /\ g.fn = Top.fn
  BY <1>1 DEF Frame
<1>4. /\ stack' \in {stack, SetTop(f), SetTop(g)}
      /\ pc' = "ready" => stack' = SetTop(f)
  <2>1. "ready" # "return"
    OBVIOUS
  <2>2. QED BY <2>1, Zenon DEF ConnectReturns
<1> HIDE DEF f, g
<1>5. /\ SetTop(f) \in Seq(Frame) /\ Len(SetTop(f)) = 1 /\ SetTop(f)[1] = f
      /\ SetTop(f)[1].fn = stack[1].fn
  BY <1>1, <1>2, <1>3, SetTopKeeps
<1>6. SetTop(g) \in Seq(Frame) /\ Len(SetTop(g)) = 1 /\ SetTop(g)[1].fn = stack[1].fn
  BY <1>1, <1>2, <1>3, SetTopKeeps
<1>7. QED BY <1>2, <1>3, <1>4, <1>5, <1>6

LEMMA ConnFields ==
  ASSUME TypeInv
  PROVE  /\ conn.retryCtr \in Nat /\ conn.action \in SUBSET ActionBits
         /\ conn.code \in Codes /\ conn.diag \in SUBSET AllClasses
         /\ conn.result \in {"present", "not"} /\ conn.status \in BOOLEAN
         /\ conn.cmd \in {"none", "current", "stale", "dropped"}
BY DEF TypeInv, ConnType

LEMMA InitialisedFacts ==
  ASSUME TypeInv
  PROVE  /\ Initialised \in ConnType
         /\ Initialised.retryCtr = 0 /\ Initialised.action = {} /\ Initialised.code = 0
         /\ Initialised.result = "not" /\ Initialised.cmd = conn.cmd
<1>1. 0 \in Codes
  BY DEF Codes, FATAL_ERROR, ERR_INTERVAL
<1>2. QED BY <1>1 DEF TypeInv, Initialised, ConnType

\* What a reconnection restores when it returns to its function.
LEMMA RestoredFacts ==
  ASSUME TypeInv, NEW saved \in InfoType, saved.retryCtr \in Nat
  PROVE  /\ Restored(saved) \in ConnType
         /\ Restored(saved).retryCtr = saved.retryCtr
         /\ Restored(saved).result = saved.result
BY DEF TypeInv, Restored, ConnType, InfoType

\* Closing the connection only touches the command.
LEMMA CloseFacts ==
  ASSUME TypeInv, NEW dropped \in BOOLEAN, NEW next \in {"null", "alloc"},
         CloseAndDrop(dropped, next)
  PROVE  /\ conn' \in ConnType /\ lib' \in {"null", "alloc", "open", "dead"}
         /\ conn'.retryCtr = conn.retryCtr /\ conn'.action = conn.action
         /\ conn'.code = conn.code /\ conn'.result = conn.result
<1> DEFINE cmd == IF Gone(dropped) /\ conn.cmd = "current" THEN "stale" ELSE conn.cmd
<1>1. conn' = [conn EXCEPT !.cmd = cmd]
  BY DEF CloseAndDrop
<1>2. cmd \in {"none", "current", "stale", "dropped"}
  BY ConnFields
<1>3. /\ conn' \in ConnType
      /\ conn'.retryCtr = conn.retryCtr /\ conn'.action = conn.action
      /\ conn'.code = conn.code /\ conn'.result = conn.result
  <2> HIDE DEF cmd
  <2>1. QED BY <1>1, <1>2 DEF TypeInv, ConnType
<1>4. lib' \in {"null", "alloc", "open", "dead"}
  BY DEF TypeInv, CloseAndDrop
<1>5. QED BY <1>3, <1>4

-----------------------------------------------------------------------------
(* Types *)

\* A message changes the counters, the owner's connection and the history.
LEMMA MessageFacts ==
  ASSUME TypeInv, NEW msg \in Messages, Message(msg)
  PROVE  LET class == ErrorClass(msg)
             entry == Table[EntryOf(class)]
         IN /\ conn' \in ConnType
            /\ conn'.retryCtr = conn.retryCtr /\ conn'.result = conn.result
            /\ conn'.cmd = conn.cmd
            /\ call'.heard = call.heard \cup {class}
            /\ call'.shown = call.shown /\ call'.tries = call.tries
            /\ call' \in CallType
            /\ handle = "listed" =>
                 /\ conn.action \cup entry.actions \subseteq conn'.action
                 /\ conn.retryCtr >= entry.maxRetry => NO_RETRY \in conn'.action
                 /\ conn'.code <= conn.code
                 /\ conn'.code >= SUCCESS => Harmless(class)
<1> DEFINE class == ErrorClass(msg)
           e == EntryOf(class)
           entry == Table[e]
           code == ProposedCode(count', e, class, msg.no)
           new == Posted(conn, entry, class, code)
<1>1. class \in AllClasses
  BY ErrorClassType
<1>2. code \in Codes /\ (code >= SUCCESS => Harmless(class))
  BY ProposedCodeType, Zenon
<1>3. conn \in ConnType
  BY DEF TypeInv
<1>4. /\ new \in ConnType
      /\ new.retryCtr = conn.retryCtr /\ new.result = conn.result
      /\ new.cmd = conn.cmd
      /\ conn.action \cup entry.actions \subseteq new.action
      /\ conn.retryCtr >= entry.maxRetry => NO_RETRY \in new.action
      /\ new.code <= code /\ new.code <= conn.code
  BY <1>1, <1>2, <1>3, PostedFacts, Zenon
<1>5. new.code \in Int /\ code \in Int
  BY <1>2, <1>4 DEF ConnType, Codes, FATAL_ERROR, ERR_INTERVAL
<1>6. new.code >= SUCCESS => Harmless(class)
  <2> HIDE DEF new, code
  <2>1. new.code >= SUCCESS => code >= SUCCESS
    BY <1>4, <1>5 DEF SUCCESS
  <2>2. QED BY <1>2, <2>1, Zenon
<1>7. conn' = (IF ~Owned(msg) THEN conn ELSE new)
      /\ call' = [call EXCEPT !.heard = call.heard \cup {class}, !.msgs = call.msgs + 1]
  BY Zenon DEF Message
<1>8. handle = "listed" => conn' = new
  BY <1>7, Zenon DEF Owned
<1>9. conn' \in {conn, new}
  BY <1>7, Zenon
<1>10. /\ call'.heard = call.heard \cup {class}
       /\ call'.shown = call.shown /\ call'.tries = call.tries
       /\ call' \in CallType
  <2> HIDE DEF class
  <2>1. call' = [call EXCEPT !.heard = call.heard \cup {class}, !.msgs = call.msgs + 1]
    BY <1>7
  <2>2. call \in CallType
    BY DEF TypeInv
  <2>3. call.heard \cup {class} \in SUBSET AllClasses /\ call.msgs + 1 \in Nat
    BY <1>1, <2>2 DEF CallType
  <2>4. QED BY <2>1, <2>2, <2>3 DEF CallType
<1>11. /\ conn' \in ConnType
       /\ conn'.retryCtr = conn.retryCtr /\ conn'.result = conn.result
       /\ conn'.cmd = conn.cmd
  <2> HIDE DEF new
  <2>1. QED BY <1>3, <1>4, <1>9, Zenon
<1>12. handle = "listed" =>
         /\ conn.action \cup entry.actions \subseteq conn'.action
         /\ conn.retryCtr >= entry.maxRetry => NO_RETRY \in conn'.action
         /\ conn'.code <= conn.code
         /\ conn'.code >= SUCCESS => Harmless(class)
  <2> HIDE DEF new, entry, class
  <2>1. QED BY <1>4, <1>6, <1>8, Zenon
<1>13. QED BY <1>10, <1>11, <1>12, Zenon

LEMMA MessageKeeps ==
  ASSUME TypeInv, NEW msg \in Messages, Message(msg)
  PROVE  /\ pc \in Waiting
         /\ handle' = handle /\ stack' = stack /\ pc' = pc /\ res' = res /\ ret' = ret
         /\ lib' \in {lib, "dead"}
<1>1. /\ pc \in Waiting
      /\ handle' = handle /\ stack' = stack /\ pc' = pc /\ res' = res /\ ret' = ret
  BY Zenon DEF Message
<1>2. lib' \in {lib, "dead"}
  BY Zenon DEF Message
<1>3. QED BY <1>1, <1>2

\* What is shown is the try's.
LEMMA SeenFacts ==
  ASSUME TypeInv, NEW type
  PROVE  /\ Seen(type) \in CallType
         /\ Seen(type).tries = call.tries /\ Seen(type).heard = call.heard
         /\ Seen(type).shown \subseteq call.shown \cup {call.tries}
         /\ type = "status" \/ Top.fn = "init" => Seen(type) = call
<1>1. call \in CallType
  BY DEF TypeInv
<1>2. [call EXCEPT !.shown = call.shown \cup {call.tries}] \in CallType
  BY <1>1 DEF CallType
<1>3. CASE Visible(type) /\ Top.fn # "init"
  <2>1. Seen(type) = [call EXCEPT !.shown = call.shown \cup {call.tries}]
    BY <1>3 DEF Seen
  <2>2. QED BY <1>1, <1>2, <1>3, <2>1 DEF CallType, Visible
<1>4. CASE ~(Visible(type) /\ Top.fn # "init")
  <2>1. Seen(type) = call
    BY <1>4 DEF Seen
  <2>2. QED BY <1>1, <2>1
<1>5. QED BY <1>3, <1>4

LEMMA NewCallType == NewCall \in CallType
BY DEF NewCall, CallType

LEMMA InitTypes ==
  ASSUME Init
  PROVE  TypeInv
<1>1. conn \in ConnType
  BY DEF Init, ConnType, Codes, FATAL_ERROR, ERR_INTERVAL
<1>2. call \in CallType
  BY DEF Init, CallType
<1>3. count \in [Tracked -> 0..MaxCount]
  BY MaxCountAssumption DEF Init
<1>4. handle = "none" /\ lib = "null" /\ stack = << >> /\ pc = "idle" /\ res = "unset" /\ ret \in Int
  BY DEF Init, SUCCESS
<1>5. QED BY <1>1, <1>2, <1>3, <1>4 DEF TypeInv, Points

\* The steps of the application.
LEMMA TypeCalls ==
  ASSUME TypeInv, StackInv,
         \/ CreateConnection \/ Connect \/ ResetBatchCounters
         \/ \E fn \in {"rpc", "lang"} : Execute(fn)
         \/ \E dropped \in BOOLEAN : CloseConnection(dropped) \/ ChangeConnectionParams(dropped)
  PROVE  TypeInv'
<1>1. CASE CreateConnection
  BY <1>1 DEF CreateConnection, TypeInv
<1>2. CASE Connect
  <2>1. stack' \in Seq(Frame) /\ pc' \in Points /\ call' \in CallType
    BY <1>2, NewFrame, NewCallType DEF Connect, Functions, Points
  <2>2. QED BY <1>2, <2>1 DEF Connect, TypeInv
<1>3. CASE ResetBatchCounters
  <2>1. count' \in [Tracked -> 0..MaxCount]
    BY <1>3, MaxCountAssumption DEF ResetBatchCounters, BatchReset, TypeInv
  <2>2. QED BY <1>3, <2>1 DEF ResetBatchCounters, TypeInv
<1>4. ASSUME NEW fn \in {"rpc", "lang"}, Execute(fn)
      PROVE  TypeInv'
  <2>1. stack' \in Seq(Frame) /\ pc' \in Points /\ call' \in CallType
    BY <1>4, NewFrame, NewCallType DEF Execute, Functions, Points
  <2>2. conn' \in ConnType
    BY <1>4, InitialisedFacts DEF Execute
  <2>3. QED BY <1>4, <2>1, <2>2 DEF Execute, TypeInv
<1>5. ASSUME NEW dropped \in BOOLEAN, CloseConnection(dropped)
      PROVE  TypeInv'
  <2>1. conn' \in ConnType /\ lib' \in {"null", "alloc", "open", "dead"}
    BY <1>5, CloseFacts DEF CloseConnection
  <2>2. call' \in CallType
    BY <1>5, NewCallType DEF CloseConnection
  <2>3. handle' \in {"none", "listed", "closed"} /\ ret' \in Int
    BY <1>5 DEF CloseConnection, TypeInv, SUCCESS, FAILED
  <2>4. QED BY <1>5, <2>1, <2>2, <2>3 DEF CloseConnection, TypeInv
<1>6. ASSUME NEW dropped \in BOOLEAN, ChangeConnectionParams(dropped)
      PROVE  TypeInv'
  <2>1. conn' \in ConnType /\ lib' \in {"null", "alloc", "open", "dead"}
    BY <1>6, CloseFacts DEF ChangeConnectionParams
  <2>2. call' \in CallType
    BY <1>6, NewCallType DEF ChangeConnectionParams
  <2>3. ret' \in Int
    BY <1>6 DEF ChangeConnectionParams, SUCCESS, FATAL_ERROR
  <2>4. QED BY <1>6, <2>1, <2>2, <2>3 DEF ChangeConnectionParams, TypeInv
<1>7. QED BY <1>1, <1>2, <1>3, <1>4, <1>5, <1>6, Zenon

\* The check of the connection and its opening.
LEMMA TypeOpening ==
  ASSUME TypeInv, StackInv,
         \/ CheckUsable \/ CheckReconnects \/ ConnectSucceeds \/ ConnectFails \/ ConnectReturns
         \/ \E dropped, allocated \in BOOLEAN : PrepareConnect(dropped, allocated)
  PROVE  TypeInv'
<1>1. CASE CheckUsable
  <2>1. stack' \in Seq(Frame)
    BY <1>1, CheckUsableStack
  <2>2. QED BY <1>1, <2>1 DEF CheckUsable, TypeInv, Points
<1>2. CASE CheckReconnects
  <2>1. stack' \in Seq(Frame)
    BY <1>2, CheckReconnectsStack
  <2>2. QED BY <1>2, <2>1 DEF CheckReconnects, TypeInv, Points
<1>3. CASE ConnectSucceeds
  <2>1. stack' \in Seq(Frame)
    BY <1>3, NewFrame, PushFacts DEF ConnectSucceeds, TypeInv, Functions
  <2>2. conn' \in ConnType
    BY <1>3, InitialisedFacts DEF ConnectSucceeds, TypeInv
  <2>3. pc' \in Points /\ ret' \in Int
    BY <1>3 DEF ConnectSucceeds, Points, TypeInv, SUCCESS
  <2>4. QED BY <1>3, <2>1, <2>2, <2>3 DEF ConnectSucceeds, TypeInv
<1>4. CASE ConnectFails
  <2>1. ret' \in {FAILED, DO_NOT_RETRY_RC, FATAL_ERROR}
    BY <1>4, Zenon DEF ConnectFails
  <2>2. ret' \in Int
    BY <2>1 DEF FAILED, DO_NOT_RETRY_RC, FATAL_ERROR
  <2>3. QED BY <1>4, <2>2 DEF ConnectFails, TypeInv, Points
<1>5. CASE ConnectReturns
  <2>1. Top \in Frame /\ Len(stack) \in {1, 2}
    BY <1>5, TopFacts DEF ConnectReturns
  <2>2. stack' \in Seq(Frame)
    BY <1>5, ConnectReturnsStack
  <2>3. conn' \in ConnType
    <3>1. CASE conn' = conn
      BY <3>1 DEF TypeInv
    <3>2. CASE conn' # conn
      <4>1. Len(stack) = 1 /\ stack[1].fn # "connect" /\ Top = stack[1]
        BY <1>5, <2>1, <3>2, TopFacts DEF ConnectReturns, StackInv
      <4>2. Top.saved.retryCtr \in Nat /\ Top.saved \in InfoType
        BY <1>5, <2>1, <4>1 DEF StackInv, Reconnecting, Frame, ConnectReturns
      <4>3. conn' = Restored(Top.saved)
        BY <1>5, <3>2 DEF ConnectReturns
      <4>4. QED BY <4>2, <4>3, RestoredFacts
    <3>3. QED BY <3>1, <3>2
  <2>4. ret' \in Int /\ pc' \in Points
    BY <1>5 DEF ConnectReturns, TypeInv, Points, FATAL_ERROR
  <2>5. QED BY <1>5, <2>2, <2>3, <2>4 DEF ConnectReturns, TypeInv
<1>6. ASSUME NEW dropped \in BOOLEAN, NEW allocated \in BOOLEAN,
             PrepareConnect(dropped, allocated)
      PROVE  TypeInv'
  <2>1. conn' \in ConnType /\ lib' \in {"null", "alloc", "open", "dead"}
    BY <1>6, CloseFacts DEF PrepareConnect
  <2>2. ret' \in Int /\ pc' \in Points
    BY <1>6 DEF PrepareConnect, TypeInv, Points, FATAL_ERROR, Waiting
  <2>3. QED BY <1>6, <2>1, <2>2 DEF PrepareConnect, TypeInv
<1>7. QED BY <1>1, <1>2, <1>3, <1>4, <1>5, <1>6, Zenon

\* The fields that the steps of a try assign.
LEMMA PrepareFacts ==
  ASSUME TypeInv, Prepare
  PROVE  /\ conn' \in ConnType /\ call' \in CallType
         /\ conn'.retryCtr = conn.retryCtr /\ conn'.result = conn.result
         /\ conn'.cmd = IF NeedsCommand THEN "current" ELSE conn.cmd
         /\ Top.fn = "rpc" => conn'.action = {} /\ conn'.code = 0
         /\ call'.heard = {} /\ call'.shown = call.shown /\ call'.tries = call.tries
<1> DEFINE action == IF Top.fn = "rpc" THEN {} ELSE conn.action
           code == IF Top.fn = "rpc" THEN 0 ELSE conn.code
           cmd == IF NeedsCommand THEN "current" ELSE conn.cmd
<1>1. conn' = [conn EXCEPT !.action = action, !.code = code, !.cmd = cmd]
  BY DEF Prepare
<1>2. /\ action \in SUBSET ActionBits /\ code \in Codes
      /\ cmd \in {"none", "current", "stale", "dropped"}
  BY ConnFields DEF Codes, FATAL_ERROR, ERR_INTERVAL
<1>3. Top.fn = "rpc" => action = {} /\ code = 0
  OBVIOUS
<1>4. /\ conn' \in ConnType
      /\ conn'.retryCtr = conn.retryCtr /\ conn'.result = conn.result
      /\ conn'.cmd = cmd /\ conn'.action = action /\ conn'.code = code
  <2> HIDE DEF action, code, cmd
  <2>1. QED BY <1>1, <1>2 DEF TypeInv, ConnType
<1>5. /\ call' \in CallType
      /\ call'.heard = {} /\ call'.shown = call.shown /\ call'.tries = call.tries
  BY DEF Prepare, TypeInv, CallType
<1>6. QED BY <1>3, <1>4, <1>5

LEMMA PrepareFailsFacts ==
  ASSUME TypeInv, PrepareFails
  PROVE  /\ conn' \in ConnType
         /\ conn'.retryCtr = conn.retryCtr /\ conn'.result = conn.result
         /\ conn'.cmd = conn.cmd
<1> DEFINE action == IF Top.fn = "rpc" THEN {} ELSE conn.action
           code == IF Top.fn = "rpc" THEN 0 ELSE conn.code
<1>1. conn' = [conn EXCEPT !.action = action, !.code = code]
  BY DEF PrepareFails
<1>2. action \in SUBSET ActionBits /\ code \in Codes
  BY ConnFields DEF Codes, FATAL_ERROR, ERR_INTERVAL
<1> HIDE DEF action, code
<1>3. QED BY <1>1, <1>2 DEF TypeInv, ConnType

LEMMA SendFacts ==
  ASSUME TypeInv, SendSucceeds
  PROVE  /\ conn' \in ConnType /\ call' \in CallType
         /\ conn'.retryCtr = conn.retryCtr /\ conn'.action = conn.action
         /\ conn'.code = conn.code /\ conn'.cmd = conn.cmd /\ conn'.result = "not"
         /\ call'.tries = IF Top.fn = "rpc" THEN call.tries + 1 ELSE call.tries
         /\ call'.heard = call.heard /\ call'.shown = call.shown
<1>1. /\ conn' \in ConnType
      /\ conn'.retryCtr = conn.retryCtr /\ conn'.action = conn.action
      /\ conn'.code = conn.code /\ conn'.cmd = conn.cmd /\ conn'.result = "not"
  BY DEF TypeInv, SendSucceeds, ConnType
<1> DEFINE tries == IF Top.fn = "rpc" THEN call.tries + 1 ELSE call.tries
<1>2. call' = [call EXCEPT !.tries = tries]
  BY DEF SendSucceeds
<1>3. call \in CallType
  BY DEF TypeInv
<1>4. tries \in Nat
  BY <1>3 DEF CallType
<1>5. /\ call' \in CallType /\ call'.tries = tries
      /\ call'.heard = call.heard /\ call'.shown = call.shown
  <2> HIDE DEF tries
  <2>1. QED BY <1>2, <1>3, <1>4 DEF CallType
<1>6. QED BY <1>1, <1>5

LEMMA ResultSetFacts ==
  ASSUME TypeInv, NEW type \in {"row", "param", "status"}, ResultSet(type)
  PROVE  /\ conn' \in ConnType
         /\ conn'.retryCtr = conn.retryCtr /\ conn'.action = conn.action
         /\ conn'.code = conn.code /\ conn'.cmd = conn.cmd
         /\ conn'.result = IF type = "status" THEN conn.result ELSE "present"
<1> DEFINE result == IF type = "status" THEN conn.result ELSE "present"
<1>1. conn' = [conn EXCEPT !.result = result]
  BY DEF ResultSet
<1>2. result \in {"present", "not"}
  BY ConnFields
<1>3. QED
  <2> HIDE DEF result
  <2>1. /\ conn' \in ConnType
        /\ conn'.retryCtr = conn.retryCtr /\ conn'.action = conn.action
        /\ conn'.code = conn.code /\ conn'.cmd = conn.cmd /\ conn'.result = result
    BY <1>1, <1>2 DEF TypeInv, ConnType
  <2>2. QED BY <2>1 DEF result

LEMMA FetchFacts ==
  ASSUME TypeInv, FetchRow
  PROVE  /\ conn' \in ConnType
         /\ conn'.retryCtr = conn.retryCtr /\ conn'.action = conn.action
         /\ conn'.code = conn.code /\ conn'.cmd = conn.cmd /\ conn'.result = conn.result
<1> DEFINE status == conn.status \/ res = "status"
<1>1. conn' = [conn EXCEPT !.status = status]
  BY Zenon DEF FetchRow
<1>2. status \in BOOLEAN
  BY Zenon
<1>3. QED
  <2> HIDE DEF status
  <2>1. QED BY <1>1, <1>2 DEF TypeInv, ConnType

LEMMA ResultsReturnFacts ==
  ASSUME TypeInv, NEW rc, ResultsReturn(rc)
  PROVE  /\ conn' \in ConnType
         /\ conn'.retryCtr = conn.retryCtr /\ conn'.action = conn.action
         /\ conn'.code = conn.code /\ conn'.result = conn.result
         /\ Top.fn = "rpc" => pc' = "decide" /\ conn'.cmd = conn.cmd
         /\ Top.fn # "rpc" => pc' = "return"
         /\ ret' = rc
<1>1. CASE Top.fn = "rpc"
  BY <1>1 DEF ResultsReturn, TypeInv
<1>2. CASE Top.fn # "rpc"
  BY <1>2 DEF ResultsReturn, TypeInv, ConnType
<1>3. QED BY <1>1, <1>2

\* The results end in three ways, with the codes that they return.
LEMMA ResultsCases ==
  ASSUME ResultsEnd \/ ResultsFail \/ RowCountFails
  PROVE  /\ pc \in {"results", "fetch"}
         /\ \E rc \in {Smaller(SUCCESS, conn.code), Smaller(FAILED, conn.code), FATAL_ERROR} :
              ResultsReturn(rc)
<1>1. pc \in {"results", "fetch"}
  BY DEF ResultsEnd, ResultsFail, RowCountFails
<1>2. QED BY <1>1, Zenon DEF ResultsEnd, ResultsFail, RowCountFails

LEMMA DecideFacts ==
  ASSUME TypeInv, Decide
  PROVE  /\ conn' \in ConnType
         /\ conn'.retryCtr = IF TryAgain THEN conn.retryCtr + 1 ELSE conn.retryCtr
         /\ conn'.action = conn.action /\ conn'.code = conn.code
         /\ conn'.result = conn.result
         /\ TryAgain /\ RESET \notin conn.action => conn'.cmd = conn.cmd
         /\ pc' = IF TryAgain THEN "check" ELSE "return"
<1> DEFINE retryCtr == IF TryAgain THEN conn.retryCtr + 1 ELSE conn.retryCtr
           cmd == IF ~TryAgain \/ RESET \in conn.action THEN "dropped" ELSE conn.cmd
<1>1. conn' = [conn EXCEPT !.retryCtr = retryCtr, !.cmd = cmd]
  BY DEF Decide
<1>2. retryCtr \in Nat /\ cmd \in {"none", "current", "stale", "dropped"}
  BY ConnFields
<1>3. TryAgain /\ RESET \notin conn.action => cmd = conn.cmd
  OBVIOUS
<1>4. pc' = IF TryAgain THEN "check" ELSE "return"
  BY DEF Decide
<1>5. /\ conn' \in ConnType /\ conn'.retryCtr = retryCtr /\ conn'.cmd = cmd
      /\ conn'.action = conn.action /\ conn'.code = conn.code
      /\ conn'.result = conn.result
  <2> HIDE DEF retryCtr, cmd
  <2>1. QED BY <1>1, <1>2 DEF TypeInv, ConnType
<1>6. QED BY <1>3, <1>4, <1>5

\* The steps of a try.
LEMMA TypeTry ==
  ASSUME TypeInv, StackInv,
         \/ Prepare \/ PrepareFails \/ SendSucceeds \/ SendFails
         \/ \E type \in {"row", "param", "status"} : ResultSet(type)
         \/ FetchRow \/ FetchEnds \/ ResultsEnd \/ ResultsFail \/ RowCountFails
         \/ Decide \/ Return
         \/ \E msg \in Messages : Message(msg)
  PROVE  TypeInv'
<1>1. CASE Prepare
  BY <1>1, PrepareFacts DEF Prepare, TypeInv, Points, Waiting
<1>2. CASE PrepareFails
  BY <1>2, PrepareFailsFacts DEF PrepareFails, TypeInv, Points, FATAL_ERROR
<1>3. CASE SendSucceeds
  BY <1>3, SendFacts DEF SendSucceeds, TypeInv, Points, Waiting
<1>4. CASE SendFails
  <2>1. ret' \in Int
    BY <1>4, ConnFields DEF SendFails, FailValue, FAILED, Codes, FATAL_ERROR, ERR_INTERVAL
  <2>2. QED BY <1>4, <2>1 DEF SendFails, TypeInv, Points
<1>5. ASSUME NEW type \in {"row", "param", "status"}, ResultSet(type)
      PROVE  TypeInv'
  <2>1. call' \in CallType
    BY <1>5, SeenFacts DEF ResultSet
  <2>2. QED BY <1>5, <2>1, ResultSetFacts DEF ResultSet, TypeInv, Points, Waiting
<1>6. CASE FetchRow
  <2>1. call' \in CallType
    BY <1>6, SeenFacts DEF FetchRow
  <2>2. QED BY <1>6, <2>1, FetchFacts DEF FetchRow, TypeInv
<1>7. CASE FetchEnds
  BY <1>7 DEF FetchEnds, TypeInv, Points, Waiting
<1>8. ASSUME NEW rc \in Int, ResultsReturn(rc)
      PROVE  TypeInv'
  BY <1>8, ResultsReturnFacts DEF ResultsReturn, TypeInv, Points
<1>9. CASE ResultsEnd \/ ResultsFail \/ RowCountFails
  <2>1. /\ Smaller(SUCCESS, conn.code) \in Int
        /\ Smaller(FAILED, conn.code) \in Int
        /\ FATAL_ERROR \in Int
    BY ConnFields DEF Smaller, SUCCESS, FAILED, Codes, FATAL_ERROR, ERR_INTERVAL
  <2>2. PICK rc \in Int : ResultsReturn(rc)
    BY <1>9, <2>1, ResultsCases, Zenon
  <2>3. QED BY <1>8, <2>2
<1>10. CASE Decide
  BY <1>10, DecideFacts DEF Decide, TypeInv, Points
<1>11. CASE Return
  <2>1. stack' \in Seq(Frame)
    BY <1>11, TopFacts, PopFacts DEF Return, TypeInv
  <2>2. QED BY <1>11, <2>1 DEF Return, TypeInv, Points, SUCCESS, FATAL_ERROR
<1>12. ASSUME NEW msg \in Messages, Message(msg)
       PROVE  TypeInv'
  <2>1. conn' \in ConnType /\ call' \in CallType
    BY <1>12, MessageFacts, Zenon
  <2>2. count' \in [Tracked -> 0..MaxCount]
    <3>1. \E e : count' = Counted(count, e)
      BY <1>12, Zenon DEF Message
    <3>2. count \in [Tracked -> 0..MaxCount]
      BY DEF TypeInv
    <3>3. QED BY <3>1, <3>2, CountedType, Zenon
  <2>3. QED BY <1>12, <2>1, <2>2, MessageKeeps DEF TypeInv
<1>13. QED BY <1>1, <1>2, <1>3, <1>4, <1>5, <1>6, <1>7, <1>9, <1>10, <1>11, <1>12, Zenon

LEMMA TypeStep ==
  ASSUME TypeInv, StackInv, [Next]_vars
  PROVE  TypeInv'
<1>1. CASE UNCHANGED vars
  BY <1>1 DEF vars, TypeInv
<1>2. CASE Next
  BY <1>2, TypeCalls, TypeOpening, TypeTry, Zenon DEF Next
<1>3. QED BY <1>1, <1>2

-----------------------------------------------------------------------------
(* The stack and the point of the call *)

\* The initialisation string is not executed inside itself, and its connection
\* is usable: with a stack of two, nothing reconnects and nothing decides.
LEMMA OneFrame ==
  ASSUME TypeInv, StackInv,
         \/ pc \in {"setup", "connect", "connected", "decide"}
         \/ pc = "check" /\ ~Usable
         \/ pc # "idle" /\ Top.fn # "init"
  PROVE  Len(stack) = 1 /\ Top = stack[1]
<1>1. pc # "idle" => Len(stack) \in {1, 2} /\ (Len(stack) = 1 => Top = stack[1])
                     /\ (Len(stack) = 2 => Top.fn = "init")
  BY TopFacts
<1>2. pc # "idle"
  BY DEF Usable
<1>3. QED BY <1>1, <1>2 DEF StackInv

LEMMA StackCalls ==
  ASSUME TypeInv, StackInv,
         \/ CreateConnection \/ Connect \/ ResetBatchCounters
         \/ \E fn \in {"rpc", "lang"} : Execute(fn)
         \/ \E dropped \in BOOLEAN : CloseConnection(dropped) \/ ChangeConnectionParams(dropped)
  PROVE  StackInv'
<1>1. ASSUME NEW fn \in {"rpc", "lang", "connect"}, NEW s, NEW b,
             stack' = <<[fn |-> fn, saved |-> s, reset |-> b]>>,
             pc' = IF fn = "connect" THEN "setup" ELSE "check",
             call' = NewCall
      PROVE  StackInv'
  <2>1. Len(stack') = 1 /\ stack'[1].fn = fn
    BY <1>1
  <2>2. call'.tries = 0
    BY <1>1 DEF NewCall
  <2>3. QED BY <1>1, <2>1, <2>2 DEF StackInv, Reconnecting
<1>2. ASSUME UNCHANGED <<stack, pc>>, pc = "idle"
      PROVE  StackInv'
  BY <1>2 DEF StackInv
<1>3. CASE Connect
  BY <1>1, <1>3 DEF Connect
<1>4. ASSUME NEW fn \in {"rpc", "lang"}, Execute(fn)
      PROVE  StackInv'
  BY <1>1, <1>4 DEF Execute
<1>5. CASE CreateConnection \/ ResetBatchCounters
  BY <1>2, <1>5 DEF CreateConnection, ResetBatchCounters
<1>6. ASSUME NEW dropped \in BOOLEAN, CloseConnection(dropped) \/ ChangeConnectionParams(dropped)
      PROVE  StackInv'
  BY <1>2, <1>6 DEF CloseConnection, ChangeConnectionParams
<1>7. QED BY <1>3, <1>4, <1>5, <1>6, Zenon

LEMMA StackOpening ==
  ASSUME TypeInv, StackInv,
         \/ CheckUsable \/ CheckReconnects \/ ConnectSucceeds \/ ConnectFails \/ ConnectReturns
         \/ \E dropped, allocated \in BOOLEAN : PrepareConnect(dropped, allocated)
  PROVE  StackInv'
<1>1. CASE CheckUsable
  <2>1. pc = "check" /\ pc' = "ready" /\ call' = call
    BY <1>1 DEF CheckUsable
  <2>2. QED BY <1>1, <2>1, CheckUsableStack DEF StackInv, Reconnecting
<1>2. CASE CheckReconnects
  <2>1. pc = "check" /\ pc' = "setup" /\ call' = call /\ ~Usable
    BY <1>2 DEF CheckReconnects
  <2>2. Len(stack) = 1
    BY <2>1, OneFrame
  <2>3. Len(stack') = 1 /\ stack'[1].fn = stack[1].fn /\ stack'[1].saved.retryCtr \in Nat
    BY <1>2, <2>2, CheckReconnectsStack, InfoFacts, ConnFields
  <2>4. QED BY <2>1, <2>2, <2>3 DEF StackInv
<1>3. CASE ConnectSucceeds
  <2>1. pc = "connect" /\ call' = call
    BY <1>3 DEF ConnectSucceeds
  <2>2. Len(stack) = 1 /\ stack \in Seq(Frame)
    BY <2>1, OneFrame DEF TypeInv
  <2>3. CASE InitString
    <3>1. /\ stack' = Append(stack, [fn |-> "init", saved |-> NoInfo, reset |-> FALSE])
          /\ pc' = "check" /\ lib' = "open" /\ conn' = Initialised
      BY <1>3, <2>3 DEF ConnectSucceeds
    <3>2. [fn |-> "init", saved |-> NoInfo, reset |-> FALSE] \in Frame
      BY NewFrame DEF Functions
    <3>3. /\ Len(stack') = 2 /\ stack'[1] = stack[1]
          /\ stack'[2] = [fn |-> "init", saved |-> NoInfo, reset |-> FALSE]
      <4> DEFINE f == [fn |-> "init", saved |-> NoInfo, reset |-> FALSE]
      <4> HIDE DEF f
      <4>1. QED BY <2>2, <3>1, <3>2, PushFacts DEF f
    <3>4. stack'[2].fn = "init"
      BY <3>3
    <3>5. Usable'
      BY <3>1, InitialisedFacts DEF Usable
    <3>6. QED BY <2>1, <2>2, <3>1, <3>3, <3>4, <3>5 DEF StackInv, Reconnecting
  <2>4. CASE ~InitString
    <3>1. stack' = stack /\ pc' = "connected"
      BY <1>3, <2>4 DEF ConnectSucceeds
    <3>2. QED BY <2>1, <2>2, <3>1 DEF StackInv, Reconnecting
  <2>5. QED BY <2>3, <2>4
<1>4. CASE ConnectFails
  <2>1. pc = "connect" /\ pc' = "connected" /\ call' = call /\ stack' = stack
    BY <1>4, Zenon DEF ConnectFails
  <2>2. QED BY <2>1 DEF StackInv, Reconnecting
<1>5. CASE ConnectReturns
  <2>1. pc = "connected" /\ pc' \in {"ready", "return"} /\ call' = call
        /\ (stack[1].fn = "connect" => pc' = "return")
    BY <1>5, OneFrame DEF ConnectReturns
  <2>2. QED BY <1>5, <2>1, ConnectReturnsStack DEF StackInv, Reconnecting
<1>6. ASSUME NEW dropped \in BOOLEAN, NEW allocated \in BOOLEAN,
             PrepareConnect(dropped, allocated)
      PROVE  StackInv'
  <2>1. pc = "setup" /\ pc' \in {"connect", "connected"} /\ call' = call /\ stack' = stack
    BY <1>6 DEF PrepareConnect
  <2>2. Len(stack) = 1
    BY <2>1, OneFrame
  <2>3. QED BY <2>1, <2>2 DEF StackInv, Reconnecting
<1>7. QED BY <1>1, <1>2, <1>3, <1>4, <1>5, <1>6, Zenon

\* A step of a try that leaves the stack, and does not begin another try.
LEMMA StackKept ==
  ASSUME TypeInv, StackInv, pc \in {"ready", "send", "results", "fetch"}, stack' = stack,
         pc' \in {"send", "results", "fetch", "return"},
         call'.tries = call.tries \/ stack[1].fn = "rpc"
  PROVE  StackInv'
BY DEF StackInv, Reconnecting

LEMMA StackTry ==
  ASSUME TypeInv, StackInv,
         \/ Prepare \/ PrepareFails \/ SendSucceeds \/ SendFails
         \/ \E type \in {"row", "param", "status"} : ResultSet(type)
         \/ FetchRow \/ FetchEnds \/ ResultsEnd \/ ResultsFail \/ RowCountFails
         \/ Decide \/ Return
         \/ \E msg \in Messages : Message(msg)
  PROVE  StackInv'
<1>1. CASE Prepare
  BY <1>1, StackKept, PrepareFacts DEF Prepare
<1>2. CASE PrepareFails
  BY <1>2, StackKept DEF PrepareFails
<1>3. CASE SendSucceeds
  <2>1. call'.tries = call.tries \/ stack[1].fn = "rpc"
    BY <1>3, SendFacts, OneFrame DEF SendSucceeds
  <2>2. QED BY <1>3, <2>1, StackKept DEF SendSucceeds
<1>4. CASE SendFails
  BY <1>4, StackKept DEF SendFails
<1>5. ASSUME NEW type \in {"row", "param", "status"}, ResultSet(type)
      PROVE  StackInv'
  BY <1>5, StackKept, SeenFacts DEF ResultSet
<1>6. CASE FetchRow
  BY <1>6, StackKept, SeenFacts DEF FetchRow
<1>7. CASE FetchEnds
  BY <1>7, StackKept DEF FetchEnds
<1>8. ASSUME NEW rc, ResultsReturn(rc), pc \in {"results", "fetch"}
      PROVE  StackInv'
  <2>1. stack' = stack /\ call' = call
    BY <1>8 DEF ResultsReturn
  <2>2. CASE Top.fn = "rpc"
    <3>1. pc' = "decide" /\ Len(stack) = 1 /\ stack[1].fn = "rpc"
      BY <1>8, <2>2, ResultsReturnFacts, OneFrame
    <3>2. QED BY <1>8, <2>1, <3>1 DEF StackInv, Reconnecting
  <2>3. CASE Top.fn # "rpc"
    BY <1>8, <2>1, <2>3, ResultsReturnFacts, StackKept
  <2>4. QED BY <2>2, <2>3
<1>9. CASE ResultsEnd \/ ResultsFail \/ RowCountFails
  BY <1>8, <1>9, ResultsCases
<1>10. CASE Decide
  <2>1. pc = "decide" /\ pc' \in {"check", "return"} /\ stack' = stack /\ call' = call
    BY <1>10 DEF Decide
  <2>2. Len(stack) = 1
    BY <2>1, OneFrame
  <2>3. QED BY <2>1, <2>2 DEF StackInv, Reconnecting
<1>11. CASE Return
  <2>1. pc = "return" /\ stack' = Pop /\ call' = call
    BY <1>11 DEF Return
  <2>2. Len(stack) \in {1, 2} /\ Len(stack') = Len(stack) - 1
        /\ (Len(stack) = 2 => stack'[1] = stack[1])
    BY <2>1, TopFacts, PopFacts DEF TypeInv
  <2>3. CASE Len(stack) = 2
    <3>1. pc' = "connected"
      BY <1>11, <2>1, <2>3, TopFacts DEF Return
    <3>2. QED BY <2>1, <2>2, <2>3, <3>1 DEF StackInv, Reconnecting
  <2>4. CASE Len(stack) = 1
    <3>1. Top.fn # "init"
      BY <2>1, <2>4, TopFacts DEF StackInv
    <3>2. pc' = "idle"
      BY <1>11, <3>1 DEF Return
    <3>3. QED BY <2>1, <2>2, <2>4, <3>2 DEF StackInv, Reconnecting
  <2>5. QED BY <2>2, <2>3, <2>4
<1>12. ASSUME NEW msg \in Messages, Message(msg)
       PROVE  StackInv'
  <2>1. pc \in Waiting /\ pc' = pc /\ stack' = stack
    BY <1>12, MessageKeeps
  <2>2. call'.tries = call.tries
    BY <1>12, MessageFacts, Zenon
  <2>3. QED BY <2>1, <2>2 DEF StackInv, Reconnecting, Waiting
<1>13. QED BY <1>1, <1>2, <1>3, <1>4, <1>5, <1>6, <1>7, <1>9, <1>10, <1>11, <1>12, Zenon

LEMMA StackStep ==
  ASSUME TypeInv, StackInv, [Next]_vars
  PROVE  StackInv'
<1>1. CASE UNCHANGED vars
  BY <1>1 DEF vars, StackInv, Reconnecting, Usable
<1>2. CASE Next
  BY <1>2, StackCalls, StackOpening, StackTry, Zenon DEF Next
<1>3. QED BY <1>1, <1>2

-----------------------------------------------------------------------------
(* What a call shows *)

\* Outside the results nothing has been shown, and a step that shows nothing
\* does not end that.
LEMMA ShownKept ==
  ASSUME ShownInv, call.shown = {}, call'.shown = {}, pc' # "fetch"
  PROVE  ShownInv'
BY DEF ShownInv

LEMMA ShownStep ==
  ASSUME TypeInv, StackInv, ShownInv, [Next]_vars
  PROVE  ShownInv'
<1>1. CASE UNCHANGED vars
  BY <1>1 DEF vars, ShownInv, InRpc
<1>2. ASSUME call' = NewCall, pc' # "fetch"
      PROVE  ShownInv'
  BY <1>2 DEF NewCall, ShownInv
<1>3. CASE Connect
  BY <1>2, <1>3 DEF Connect
<1>4. CASE CreateConnection \/ ResetBatchCounters
  BY <1>4 DEF CreateConnection, ResetBatchCounters, ShownInv
<1>5. ASSUME NEW fn \in {"rpc", "lang"}, Execute(fn)
      PROVE  ShownInv'
  BY <1>2, <1>5 DEF Execute
<1>6. ASSUME NEW dropped \in BOOLEAN, CloseConnection(dropped) \/ ChangeConnectionParams(dropped)
      PROVE  ShownInv'
  <2>1. call' = NewCall /\ pc' = "idle"
    BY <1>6 DEF CloseConnection, ChangeConnectionParams
  <2>2. QED BY <1>2, <2>1
<1>7. CASE \/ CheckUsable \/ CheckReconnects \/ ConnectSucceeds \/ ConnectFails \/ ConnectReturns
           \/ \E dropped, allocated \in BOOLEAN : PrepareConnect(dropped, allocated)
  <2>1. pc \in {"check", "setup", "connect", "connected"} /\ call' = call /\ pc' # "fetch"
    <3>1. ConnectFails => pc = "connect" /\ pc' = "connected" /\ call' = call
      BY Zenon DEF ConnectFails
    <3>2. QED BY <1>7, <3>1 DEF CheckUsable, CheckReconnects, ConnectSucceeds,
                             ConnectReturns, PrepareConnect
  <2>2. call.shown = {}
    BY <2>1 DEF ShownInv
  <2>3. QED BY <2>1, <2>2, ShownKept
<1>8. CASE Prepare \/ PrepareFails \/ SendSucceeds \/ SendFails
  <2>1. pc \in {"ready", "send"} /\ pc' # "fetch" /\ call'.shown = call.shown
    BY <1>8, PrepareFacts, SendFacts DEF Prepare, PrepareFails, SendSucceeds, SendFails
  <2>2. call.shown = {}
    BY <2>1 DEF ShownInv
  <2>3. QED BY <2>1, <2>2, ShownKept
<1>9. ASSUME NEW type \in {"row", "param", "status"}, ResultSet(type)
      PROVE  ShownInv'
  <2>1. pc = "results" /\ pc' = "fetch" /\ call' = Seen(type) /\ res' = type /\ stack' = stack
    BY <1>9 DEF ResultSet
  <2>2. call'.shown \subseteq {call'.tries}
    BY <2>1, SeenFacts DEF ShownInv
  <2>3. type # "status" => conn'.result = "present"
    BY <1>9, ResultSetFacts
  <2>4. type = "status" => call' = call /\ conn'.result = conn.result
    BY <1>9, <2>1, SeenFacts, ResultSetFacts
  <2>5. call'.shown # {} => Len(stack) <= 1
    <3>1. CASE Top.fn = "init"
      BY <2>1, <3>1, SeenFacts DEF ShownInv
    <3>2. CASE Top.fn # "init"
      <4>1. pc # "idle"
        BY <2>1
      <4>2. Len(stack) = 1
        BY <3>2, <4>1, OneFrame, Zenon
      <4>3. QED BY <4>2
    <3>3. QED BY <3>1, <3>2
  <2>6. QED BY <2>1, <2>2, <2>3, <2>4, <2>5 DEF ShownInv, InRpc
<1>10. CASE FetchRow
  <2>1. pc = "fetch" /\ pc' = "fetch" /\ call' = Seen(res) /\ res' = res /\ stack' = stack
        /\ conn'.result = conn.result
    BY <1>10, FetchFacts DEF FetchRow
  <2>2. call'.shown \subseteq {call'.tries}
    BY <2>1, SeenFacts DEF ShownInv
  <2>3. res = "status" => call' = call
    BY <2>1, SeenFacts
  <2>4. call'.shown # {} => Len(stack) <= 1
    <3>1. CASE Top.fn = "init"
      BY <2>1, <3>1, SeenFacts DEF ShownInv
    <3>2. CASE Top.fn # "init"
      <4>1. pc # "idle"
        BY <2>1
      <4>2. Len(stack) = 1
        BY <3>2, <4>1, OneFrame, Zenon
      <4>3. QED BY <4>2
    <3>3. QED BY <3>1, <3>2
  <2>5. QED BY <2>1, <2>2, <2>3, <2>4 DEF ShownInv, InRpc
<1>11. CASE FetchEnds
  BY <1>11 DEF FetchEnds, ShownInv, InRpc
<1>12. ASSUME NEW rc, ResultsReturn(rc), pc \in {"results", "fetch"}
       PROVE  ShownInv'
  <2>1. pc' \in {"decide", "return"} /\ call' = call /\ stack' = stack /\ conn'.result = conn.result
    BY <1>12, ResultsReturnFacts DEF ResultsReturn
  <2>2. QED BY <1>12, <2>1 DEF ShownInv, InRpc
<1>13. CASE ResultsEnd \/ ResultsFail \/ RowCountFails
  BY <1>12, <1>13, ResultsCases
<1>14. CASE Decide
  <2>1. pc = "decide" /\ call' = call /\ stack' = stack
    BY <1>14 DEF Decide
  <2>2. InRpc
    BY <2>1, OneFrame DEF StackInv, InRpc
  <2>3. CASE TryAgain
    <3>1. pc' = "check"
      BY <1>14, <2>3, DecideFacts
    <3>2. call.shown = {}
      BY <2>1, <2>2, <2>3 DEF ShownInv, TryAgain
    <3>3. QED BY <2>1, <3>1, <3>2, ShownKept
  <2>4. CASE ~TryAgain
    <3>1. pc' = "return"
      BY <1>14, <2>4, DecideFacts
    <3>2. QED BY <2>1, <3>1 DEF ShownInv
  <2>5. QED BY <2>3, <2>4
<1>15. CASE Return
  <2>1. pc = "return" /\ pc' \in {"connected", "idle"} /\ call' = call
    BY <1>15 DEF Return
  <2>2. CASE call.shown = {}
    BY <2>1, <2>2, ShownKept
  <2>3. CASE call.shown # {}
    <3>1. Len(stack) = 1 /\ Top.fn # "init"
      BY <2>1, <2>3, TopFacts DEF ShownInv, StackInv
    <3>2. pc' = "idle" /\ Len(stack') = 0
      BY <1>15, <3>1, PopFacts DEF Return, TypeInv
    <3>3. QED BY <2>1, <3>2 DEF ShownInv
  <2>4. QED BY <2>2, <2>3
<1>16. ASSUME NEW msg \in Messages, Message(msg)
       PROVE  ShownInv'
  <2>1. pc' = pc /\ stack' = stack /\ res' = res /\ pc \in Waiting
    BY <1>16, MessageKeeps
  <2>2. conn'.result = conn.result /\ call'.shown = call.shown /\ call'.tries = call.tries
    BY <1>16, MessageFacts, Zenon
  <2>3. QED BY <2>1, <2>2 DEF ShownInv, InRpc
<1>17. CASE Next
  <2>1. CASE \/ CreateConnection \/ Connect \/ ResetBatchCounters
             \/ \E fn \in {"rpc", "lang"} : Execute(fn)
             \/ \E dropped \in BOOLEAN : CloseConnection(dropped) \/ ChangeConnectionParams(dropped)
    BY <1>3, <1>4, <1>5, <1>6, <2>1, Zenon
  <2>2. QED BY <1>7, <1>8, <1>9, <1>10, <1>11, <1>13, <1>14, <1>15, <1>16, <1>17, <2>1,
               Zenon DEF Next
<1>18. QED BY <1>1, <1>17

-----------------------------------------------------------------------------
(* The command of a call *)

LEMMA CommandStep ==
  ASSUME TypeInv, StackInv, CommandInv, [Next]_vars
  PROVE  CommandInv'
<1>1. CASE UNCHANGED vars
  BY <1>1 DEF vars, CommandInv, InRpc
<1>2. ASSUME pc' \notin {"check", "ready", "send", "results", "fetch", "decide"}
      PROVE  CommandInv'
  BY <1>2 DEF CommandInv
<1>3. CASE Connect
  BY <1>2, <1>3 DEF Connect
<1>4. CASE CreateConnection \/ ResetBatchCounters
  BY <1>2, <1>4 DEF CreateConnection, ResetBatchCounters
<1>5. ASSUME NEW fn \in {"rpc", "lang"}, Execute(fn)
      PROVE  CommandInv'
  <2>1. conn'.retryCtr = 0 /\ pc' = "check"
    BY <1>5, InitialisedFacts DEF Execute
  <2>2. QED BY <2>1 DEF CommandInv
<1>6. ASSUME NEW dropped \in BOOLEAN, CloseConnection(dropped) \/ ChangeConnectionParams(dropped)
      PROVE  CommandInv'
  BY <1>2, <1>6 DEF CloseConnection, ChangeConnectionParams
<1>7. CASE CheckUsable
  <2>1. pc = "check" /\ pc' = "ready" /\ conn' = conn /\ RESET \notin conn.action
    BY <1>7 DEF CheckUsable, Usable
  <2>2. InRpc' => InRpc
    BY <1>7, CheckUsableStack DEF InRpc
  <2>3. QED BY <2>1, <2>2 DEF CommandInv
<1>8. CASE CheckReconnects
  BY <1>2, <1>8 DEF CheckReconnects
<1>9. CASE ConnectSucceeds
  <2>1. CASE InitString
    <3>1. pc' = "check" /\ Len(stack') # 1
      <4> DEFINE f == [fn |-> "init", saved |-> NoInfo, reset |-> FALSE]
      <4>1. pc = "connect" /\ pc' = "check" /\ stack' = Append(stack, f)
        BY <1>9, <2>1 DEF ConnectSucceeds
      <4>2. f \in Frame
        BY NewFrame DEF Functions
      <4>3. Len(stack) = 1 /\ stack \in Seq(Frame)
        BY <4>1, OneFrame DEF TypeInv
      <4> HIDE DEF f
      <4>4. QED BY <4>1, <4>2, <4>3, PushFacts
    <3>2. QED BY <3>1 DEF CommandInv, InRpc
  <2>2. CASE ~InitString
    BY <1>2, <1>9, <2>2 DEF ConnectSucceeds
  <2>3. QED BY <2>1, <2>2
<1>10. CASE ConnectFails
  <2>1. pc' = "connected"
    BY <1>10, Zenon DEF ConnectFails
  <2>2. QED BY <1>2, <2>1
<1>11. CASE ConnectReturns
  <2>1. pc' \in {"ready", "return"}
    BY <1>11 DEF ConnectReturns
  <2>2. pc' = "ready" => stack'[1].reset = TRUE
    BY <1>11, ConnectReturnsStack
  <2>3. QED BY <2>1, <2>2 DEF CommandInv
<1>12. ASSUME NEW dropped \in BOOLEAN, NEW allocated \in BOOLEAN,
              PrepareConnect(dropped, allocated)
       PROVE  CommandInv'
  BY <1>2, <1>12 DEF PrepareConnect
<1>13. CASE Prepare
  <2>1. pc = "ready" /\ pc' = "send"
    BY <1>13 DEF Prepare
  <2>2. conn'.cmd = IF NeedsCommand THEN "current" ELSE conn.cmd
    BY <1>13, PrepareFacts
  <2>3. CASE NeedsCommand
    BY <2>1, <2>2, <2>3 DEF CommandInv
  <2>4. CASE ~NeedsCommand
    <3>1. Top.fn = "rpc" /\ conn.retryCtr # 0 /\ ~Top.reset
      BY <2>4, Zenon DEF NeedsCommand
    <3>2. InRpc /\ Top = stack[1]
      BY <2>1, <3>1, OneFrame DEF InRpc
    <3>3. conn.retryCtr > 0
      BY <3>1, ConnFields
    <3>4. conn.cmd = "current"
      BY <2>1, <3>1, <3>2, <3>3 DEF CommandInv
    <3>5. QED BY <2>1, <2>2, <3>4 DEF CommandInv
  <2>5. QED BY <2>3, <2>4
<1>14. CASE PrepareFails \/ SendFails
  BY <1>2, <1>14 DEF PrepareFails, SendFails
<1>15. ASSUME pc \in {"send", "results", "fetch"}, pc' \in {"results", "fetch", "decide"},
              conn'.cmd = conn.cmd
       PROVE  CommandInv'
  BY <1>15 DEF CommandInv
<1>16. CASE SendSucceeds
  BY <1>15, <1>16, SendFacts DEF SendSucceeds
<1>17. ASSUME NEW type \in {"row", "param", "status"}, ResultSet(type)
       PROVE  CommandInv'
  BY <1>15, <1>17, ResultSetFacts DEF ResultSet
<1>18. CASE FetchRow
  BY <1>15, <1>18, FetchFacts DEF FetchRow
<1>19. CASE FetchEnds
  BY <1>15, <1>19 DEF FetchEnds
<1>20. ASSUME NEW rc, ResultsReturn(rc), pc \in {"results", "fetch"}
       PROVE  CommandInv'
  <2>1. CASE Top.fn = "rpc"
    BY <1>15, <1>20, <2>1, ResultsReturnFacts
  <2>2. CASE Top.fn # "rpc"
    BY <1>2, <1>20, <2>2, ResultsReturnFacts
  <2>3. QED BY <2>1, <2>2
<1>21. CASE ResultsEnd \/ ResultsFail \/ RowCountFails
  BY <1>20, <1>21, ResultsCases
<1>22. CASE Decide
  <2>1. pc = "decide" /\ conn'.action = conn.action
    BY <1>22, DecideFacts DEF Decide
  <2>2. CASE TryAgain
    <3>1. pc' = "check" /\ (RESET \notin conn.action => conn'.cmd = conn.cmd)
      BY <1>22, <2>2, DecideFacts
    <3>2. QED BY <2>1, <3>1 DEF CommandInv
  <2>3. CASE ~TryAgain
    BY <1>2, <1>22, <2>3, DecideFacts
  <2>4. QED BY <2>2, <2>3
<1>23. CASE Return
  BY <1>2, <1>23 DEF Return
<1>24. ASSUME NEW msg \in Messages, Message(msg)
       PROVE  CommandInv'
  <2>1. pc' = pc /\ pc \in Waiting
    BY <1>24, MessageKeeps
  <2>2. conn'.cmd = conn.cmd
    BY <1>24, MessageFacts, Zenon
  <2>3. QED BY <2>1, <2>2 DEF CommandInv, Waiting
<1>25. CASE Next
  <2>1. CASE \/ CreateConnection \/ Connect \/ ResetBatchCounters
             \/ \E fn \in {"rpc", "lang"} : Execute(fn)
             \/ \E dropped \in BOOLEAN : CloseConnection(dropped) \/ ChangeConnectionParams(dropped)
    BY <1>3, <1>4, <1>5, <1>6, <2>1, Zenon
  <2>2. CASE \/ CheckUsable \/ CheckReconnects \/ ConnectSucceeds \/ ConnectFails \/ ConnectReturns
             \/ \E dropped, allocated \in BOOLEAN : PrepareConnect(dropped, allocated)
    BY <1>7, <1>8, <1>9, <1>10, <1>11, <1>12, <2>2, Zenon
  <2>3. QED BY <1>13, <1>14, <1>16, <1>17, <1>18, <1>19, <1>21, <1>22, <1>23, <1>24, <1>25,
               <2>1, <2>2, Zenon DEF Next
<1>26. QED BY <1>1, <1>25

-----------------------------------------------------------------------------
(* What the messages of a try allow *)

LEMMA ListedStep ==
  ASSUME UseAfterClose = FALSE, TypeInv, StackInv, ListedInv, [Next]_vars
  PROVE  ListedInv'
<1>0. SUFFICES (pc # "idle" => handle = "listed")'
  BY DEF ListedInv
<1>1. CASE UNCHANGED vars
  BY <1>1 DEF vars, ListedInv
<1>2. CASE \/ CreateConnection \/ Connect \/ ResetBatchCounters
           \/ \E fn \in {"rpc", "lang"} : Execute(fn)
           \/ \E dropped \in BOOLEAN : CloseConnection(dropped) \/ ChangeConnectionParams(dropped)
  BY <1>2 DEF CreateConnection, Connect, ResetBatchCounters, Execute,
              CloseConnection, ChangeConnectionParams, ListedInv
<1>3. CASE \/ CheckUsable \/ CheckReconnects \/ ConnectSucceeds \/ ConnectFails \/ ConnectReturns
           \/ \E dropped, allocated \in BOOLEAN : PrepareConnect(dropped, allocated)
  <2>1. ConnectFails => pc = "connect" /\ handle' = handle
    BY Zenon DEF ConnectFails
  <2>2. QED BY <1>3, <2>1 DEF CheckUsable, CheckReconnects, ConnectSucceeds, ConnectReturns,
                               PrepareConnect, ListedInv
<1>4. CASE \/ Prepare \/ PrepareFails \/ SendSucceeds \/ SendFails
           \/ \E type \in {"row", "param", "status"} : ResultSet(type)
           \/ FetchRow \/ FetchEnds \/ ResultsEnd \/ ResultsFail \/ RowCountFails
           \/ Decide \/ Return
  BY <1>4 DEF Prepare, PrepareFails, SendSucceeds, SendFails, ResultSet, FetchRow, FetchEnds,
              ResultsEnd, ResultsFail, RowCountFails, ResultsReturn, Decide, Return, ListedInv
<1>5. CASE \E msg \in Messages : Message(msg)
  BY <1>5, MessageKeeps DEF Waiting, ListedInv
<1>6. QED BY <1>1, <1>2, <1>3, <1>4, <1>5, Zenon DEF Next

\* A step of a try that posts nothing.
LEMMA HeardKept ==
  ASSUME HeardInv, pc \in {"send", "results", "fetch"}, pc' \in {"send", "results", "fetch"},
         stack' = stack, call'.heard = call.heard,
         conn'.retryCtr = conn.retryCtr, conn'.action = conn.action, conn'.code = conn.code
  PROVE  HeardInv'
BY DEF HeardInv, InTry, InRpc

\* A step to a point that HeardInv says nothing about, or to the end of a call
\* that executed no procedure or failed.
LEMMA HeardFree ==
  ASSUME \/ pc' \in {"check", "setup", "connect", "connected", "ready"}
         \/ pc' \in {"return", "idle"} /\ (call'.tries = 0 \/ ret' # SUCCESS)
         \/ pc' \in {"return", "idle"} /\ ~(Len(stack') <= 1)
         \/ pc' \in {"return", "idle"} /\ \A c \in call'.heard : Harmless(c)
  PROVE  HeardInv'
<1>1. pc' \notin {"send", "results", "fetch", "decide"}
  OBVIOUS
<1>2. CASE call'.tries = 0
  BY <1>1, <1>2 DEF HeardInv, InTry
<1>3. CASE call'.tries # 0
  BY <1>1, <1>3 DEF HeardInv, InTry
<1>4. QED BY <1>2, <1>3

\* The results end: the code tells whether a message was harmful.
LEMMA HeardResults ==
  ASSUME TypeInv, StackInv, HeardInv, ResultsEnd \/ ResultsFail \/ RowCountFails
  PROVE  HeardInv'
<1>1. /\ conn.code \in Int /\ conn.code <= 0
      /\ pc \in {"results", "fetch"} /\ call' = call /\ stack' = stack
  BY ConnFields, ResultsCases
     DEF ResultsEnd, ResultsFail, RowCountFails, ResultsReturn, Codes, FATAL_ERROR, ERR_INTERVAL
<1>2. PICK rc : ResultsReturn(rc) /\ rc \in Int
                /\ (rc = SUCCESS => conn.code >= SUCCESS)
                /\ (rc # SUCCESS => conn.code < SUCCESS \/ call.heard # {})
  <2>1. CASE ResultsEnd
    <3>1. ResultsReturn(Smaller(SUCCESS, conn.code)) /\ Smaller(SUCCESS, conn.code) = conn.code
      BY <1>1, <2>1 DEF ResultsEnd, Smaller, SUCCESS
    <3>2. QED BY <1>1, <3>1 DEF SUCCESS
  <2>2. CASE ResultsFail
    <3>1. /\ ResultsReturn(Smaller(FAILED, conn.code)) /\ call.heard # {}
          /\ Smaller(FAILED, conn.code) \in Int /\ Smaller(FAILED, conn.code) # SUCCESS
      BY <1>1, <2>2 DEF ResultsFail, Announced, Smaller, FAILED, SUCCESS
    <3>2. QED BY <3>1
  <2>3. CASE RowCountFails
    <3>1. ResultsReturn(FATAL_ERROR) /\ call.heard # {} /\ FATAL_ERROR \in Int /\ FATAL_ERROR # SUCCESS
      BY <2>3 DEF RowCountFails, Announced, FATAL_ERROR, SUCCESS
    <3>2. QED BY <3>1
  <2>4. QED BY <2>1, <2>2, <2>3
<1>3. ret' = rc
  BY <1>2, ResultsReturnFacts
<1>4. CASE Top.fn = "rpc"
  <2>1. InTry
    BY <1>1, <1>4, OneFrame DEF InTry, InRpc
  <2>2. pc' = "decide" /\ conn'.retryCtr = conn.retryCtr /\ conn'.action = conn.action
        /\ conn'.code = conn.code
    BY <1>2, <1>4, ResultsReturnFacts
  <2>3. /\ rc # SUCCESS => call.heard # {}
        /\ rc = SUCCESS => \A c \in call.heard : Harmless(c)
    BY <1>2, <2>1 DEF HeardInv
  <2>4. QED BY <1>1, <1>3, <2>1, <2>2, <2>3 DEF HeardInv, InTry, InRpc
<1>5. CASE Top.fn # "rpc"
  <2>1. pc' = "return"
    BY <1>2, <1>5, ResultsReturnFacts
  <2>2. call \in CallType
    BY DEF TypeInv
  <2>3. CASE Len(stack) = 1
    <3>1. Top = stack[1] /\ pc # "idle"
      BY <1>1, <2>3, TopFacts
    <3>2. ~(call.tries > 0)
      BY <1>5, <3>1 DEF StackInv
    <3>3. call'.tries = 0
      BY <1>1, <2>2, <3>2 DEF CallType
    <3>4. QED BY <2>1, <3>3, HeardFree
  <2>4. CASE Len(stack) # 1
    <3>1. Len(stack) = 2
      BY <1>1, <2>4, TopFacts
    <3>2. ~(Len(stack') <= 1)
      BY <1>1, <3>1
    <3>3. QED BY <2>1, <3>2, HeardFree
  <2>5. QED BY <2>3, <2>4
<1>6. QED BY <1>4, <1>5

\* A message posts what its entry says, on the connection that is listed.
LEMMA HeardMessage ==
  ASSUME TypeInv, StackInv, HeardInv, handle = "listed", NEW msg \in Messages, Message(msg)
  PROVE  HeardInv'
<1> DEFINE class == ErrorClass(msg)
           entry == Table[EntryOf(class)]
<1>1. pc \in Waiting /\ pc' = pc /\ stack' = stack
  BY MessageKeeps
<1>2. /\ call'.heard = call.heard \cup {class} /\ conn'.retryCtr = conn.retryCtr
      /\ conn' \in ConnType
  BY MessageFacts, Zenon
<1>3. /\ conn.action \cup entry.actions \subseteq conn'.action
      /\ conn.retryCtr >= entry.maxRetry => NO_RETRY \in conn'.action
      /\ conn'.code <= conn.code
      /\ conn'.code >= SUCCESS => Harmless(class)
  BY MessageFacts, Zenon
<1>4. conn.code \in Int /\ conn'.code \in Int
  BY <1>2 DEF TypeInv, ConnType, Codes, FATAL_ERROR, ERR_INTERVAL
<1>5. ASSUME InTry, NEW c \in call'.heard
      PROVE  /\ Table[EntryOf(c)].actions \subseteq conn'.action
             /\ conn'.retryCtr >= Table[EntryOf(c)].maxRetry => NO_RETRY \in conn'.action
             /\ conn'.code >= SUCCESS => Harmless(c)
  <2>1. CASE c = class
    BY <1>2, <1>3, <2>1
  <2>2. CASE c \in call.heard
    <3>1. /\ Table[EntryOf(c)].actions \subseteq conn.action
          /\ conn.retryCtr >= Table[EntryOf(c)].maxRetry => NO_RETRY \in conn.action
          /\ conn.code >= SUCCESS => Harmless(c)
      BY <1>5, <2>2 DEF HeardInv
    <3>2. conn'.code >= SUCCESS => conn.code >= SUCCESS
      BY <1>3, <1>4 DEF SUCCESS
    <3> HIDE DEF class, entry
    <3>3. QED BY <1>2, <1>3, <3>1, <3>2
  <2>3. QED BY <1>2, <1>5, <2>1, <2>2
<1>6. call'.heard # {}
  BY <1>2
<1>7. pc' \notin {"decide", "return", "idle"} /\ (InTry' => InTry)
  BY <1>1 DEF Waiting, InTry, InRpc
<1>8. QED BY <1>5, <1>6, <1>7 DEF HeardInv

LEMMA HeardStep ==
  ASSUME TypeInv, StackInv, HeardInv, ListedInv, [Next]_vars
  PROVE  HeardInv'
<1>1. CASE UNCHANGED vars
  BY <1>1 DEF vars, HeardInv, InTry, InRpc
<1>2. CASE CreateConnection \/ ResetBatchCounters
  BY <1>2 DEF CreateConnection, ResetBatchCounters, HeardInv, InTry
<1>3. CASE Connect \/ \E fn \in {"rpc", "lang"} : Execute(fn)
  BY <1>3, HeardFree DEF Connect, Execute
<1>4. ASSUME NEW dropped \in BOOLEAN, CloseConnection(dropped) \/ ChangeConnectionParams(dropped)
      PROVE  HeardInv'
  <2>1. pc' = "idle" /\ call' = NewCall
    BY <1>4 DEF CloseConnection, ChangeConnectionParams
  <2>2. call'.tries = 0
    BY <2>1 DEF NewCall
  <2>3. QED BY <2>1, <2>2, HeardFree
<1>5. CASE \/ CheckUsable \/ CheckReconnects \/ ConnectSucceeds \/ ConnectFails
           \/ \E dropped, allocated \in BOOLEAN : PrepareConnect(dropped, allocated)
  <2>1. ConnectFails => pc' = "connected"
    BY Zenon DEF ConnectFails
  <2>2. pc' \in {"ready", "setup", "check", "connected", "connect"}
    BY <1>5, <2>1 DEF CheckUsable, CheckReconnects, ConnectSucceeds, PrepareConnect
  <2>3. QED BY <2>2, HeardFree
<1>6. CASE ConnectReturns
  <2>1. CASE Top.fn = "connect"
    <3>1. pc # "idle" /\ Top = stack[1] /\ call' = call /\ pc' = "return"
      BY <1>6, <2>1, OneFrame DEF ConnectReturns
    <3>2. ~(call.tries > 0) /\ call \in CallType
      BY <2>1, <3>1 DEF StackInv, TypeInv
    <3>3. call'.tries = 0
      BY <3>1, <3>2 DEF CallType
    <3>4. QED BY <3>1, <3>3, HeardFree
  <2>2. CASE Top.fn # "connect"
    <3>1. pc' = "ready" \/ (pc' = "return" /\ ret' # SUCCESS)
      BY <1>6, <2>2 DEF ConnectReturns, FATAL_ERROR, SUCCESS
    <3>2. QED BY <3>1, HeardFree
  <2>3. QED BY <2>1, <2>2
<1>7. CASE Prepare
  <2>1. pc = "ready" /\ pc' = "send" /\ stack' = stack
    BY <1>7 DEF Prepare
  <2>2. call'.heard = {} /\ (Top.fn = "rpc" => conn'.code = 0)
    BY <1>7, PrepareFacts
  <2>3. InTry' => Top.fn = "rpc"
    BY <2>1, TopFacts DEF InTry, InRpc
  <2>4. InTry' => ~(conn'.code < SUCCESS)
    BY <2>2, <2>3 DEF SUCCESS
  <2>5. QED BY <2>1, <2>2, <2>4 DEF HeardInv
<1>8. CASE PrepareFails
  BY <1>8, HeardFree DEF PrepareFails, FATAL_ERROR, SUCCESS
<1>9. CASE SendSucceeds
  BY <1>9, SendFacts, HeardKept DEF SendSucceeds
<1>10. CASE SendFails
  <2>1. ret' # SUCCESS /\ pc' = "return"
    BY <1>10, ConnFields DEF SendFails, FailValue, FAILED, SUCCESS, Codes, FATAL_ERROR, ERR_INTERVAL
  <2>2. QED BY <2>1, HeardFree
<1>11. ASSUME NEW type \in {"row", "param", "status"}, ResultSet(type)
       PROVE  HeardInv'
  BY <1>11, SeenFacts, ResultSetFacts, HeardKept DEF ResultSet
<1>12. CASE FetchRow
  BY <1>12, SeenFacts, FetchFacts, HeardKept DEF FetchRow
<1>13. CASE FetchEnds
  BY <1>13, HeardKept DEF FetchEnds
<1>14. CASE ResultsEnd \/ ResultsFail \/ RowCountFails
  BY <1>14, HeardResults
<1>15. CASE Decide
  <2>1. pc = "decide" /\ call' = call /\ ret' = ret
    BY <1>15 DEF Decide
  <2>2. pc' \in {"check", "return"}
    BY <1>15 DEF Decide
  <2>3. ret = SUCCESS => \A c \in call.heard : Harmless(c)
    BY <2>1 DEF HeardInv
  <2>4. QED BY <2>1, <2>2, <2>3, HeardFree
<1>16. CASE Return
  <2>1. pc = "return" /\ call' = call /\ stack' = Pop
    BY <1>16 DEF Return
  <2>2. CASE Top.fn = "init"
    BY <1>16, <2>2, HeardFree DEF Return
  <2>3. CASE Top.fn # "init"
    <3>1. Len(stack) <= 1 /\ pc' = "idle" /\ ret' = ret
      <4>1. Len(stack) = 1
        BY <2>1, <2>3, OneFrame
      <4>2. QED BY <1>16, <2>3, <4>1 DEF Return
    <3>2. ret = SUCCESS /\ call.tries > 0 => \A c \in call.heard : Harmless(c)
      BY <2>1, <3>1 DEF HeardInv
    <3>3. CASE call.tries > 0
      BY <2>1, <3>1, <3>2, <3>3, HeardFree
    <3>4. CASE ~(call.tries > 0)
      <4>1. call'.tries = 0
        BY <2>1, <3>4 DEF TypeInv, CallType
      <4>2. QED BY <3>1, <4>1, HeardFree
    <3>5. QED BY <3>3, <3>4
  <2>4. QED BY <2>2, <2>3
<1>17. ASSUME NEW msg \in Messages, Message(msg)
       PROVE  HeardInv'
  <2>1. handle = "listed"
    BY <1>17, MessageKeeps DEF Waiting, ListedInv
  <2>2. QED BY <1>17, <2>1, HeardMessage
<1>18. CASE Next
  <2>1. CASE \/ CreateConnection \/ Connect \/ ResetBatchCounters
             \/ \E fn \in {"rpc", "lang"} : Execute(fn)
             \/ \E dropped \in BOOLEAN : CloseConnection(dropped) \/ ChangeConnectionParams(dropped)
    BY <1>2, <1>3, <1>4, <2>1, Zenon
  <2>2. CASE \/ CheckUsable \/ CheckReconnects \/ ConnectSucceeds \/ ConnectFails \/ ConnectReturns
             \/ \E dropped, allocated \in BOOLEAN : PrepareConnect(dropped, allocated)
    BY <1>5, <1>6, <2>2, Zenon
  <2>3. QED BY <1>7, <1>8, <1>9, <1>10, <1>11, <1>12, <1>13, <1>14, <1>15, <1>16, <1>17, <1>18,
               <2>1, <2>2, Zenon DEF Next
<1>19. QED BY <1>1, <1>18

-----------------------------------------------------------------------------
(* The number of retries *)

\* Another try means that every message of this one allows it, for the retries
\* already done, and that nothing was shown.
LEMMA RetryFacts ==
  ASSUME TypeInv, StackInv, ShownInv, HeardInv, pc = "decide", TryAgain
  PROVE  /\ call.heard # {} /\ call.shown = {}
         /\ \A c \in call.heard : /\ NO_RETRY \notin Table[EntryOf(c)].actions
                                  /\ conn.retryCtr < Table[EntryOf(c)].maxRetry
<1>1. InTry
  BY OneFrame DEF StackInv, InTry, InRpc
<1>2. NO_RETRY \notin conn.action /\ ret # SUCCESS /\ conn.result = "not"
  BY DEF TryAgain
<1>3. call.heard # {} /\ call.shown = {}
  BY <1>1, <1>2 DEF HeardInv, ShownInv, InTry
<1>4. ASSUME NEW c \in call.heard
      PROVE  /\ NO_RETRY \notin Table[EntryOf(c)].actions
             /\ conn.retryCtr < Table[EntryOf(c)].maxRetry
  <2>1. /\ Table[EntryOf(c)].actions \subseteq conn.action
        /\ conn.retryCtr >= Table[EntryOf(c)].maxRetry => NO_RETRY \in conn.action
    BY <1>1 DEF HeardInv
  <2>2. Table[EntryOf(c)].maxRetry \in 0..10
    BY EntryOfType, TableType
  <2>3. ~(conn.retryCtr >= Table[EntryOf(c)].maxRetry)
    BY <1>2, <2>1
  <2>4. \A m \in 0..10 : ~(conn.retryCtr >= m) => conn.retryCtr < m
    BY ConnFields
  <2>5. QED BY <1>2, <2>1, <2>2, <2>3, <2>4
<1>5. QED BY <1>3, <1>4

\* The steps that leave the number of retries and the saved one.
LEMMA RetryKept ==
  ASSUME RetryInv, conn'.retryCtr \in 0..10, Len(stack') >= 1 => stack'[1] = stack[1],
         Len(stack') >= 1 => Len(stack) >= 1, Reconnecting' => Reconnecting
  PROVE  RetryInv'
BY DEF RetryInv

LEMMA RetryCalls ==
  ASSUME TypeInv, StackInv, RetryInv,
         \/ CreateConnection \/ Connect \/ ResetBatchCounters
         \/ \E fn \in {"rpc", "lang"} : Execute(fn)
         \/ \E dropped \in BOOLEAN : CloseConnection(dropped) \/ ChangeConnectionParams(dropped)
  PROVE  RetryInv'
<1>1. CASE CreateConnection \/ ResetBatchCounters
  BY <1>1 DEF CreateConnection, ResetBatchCounters, RetryInv, Reconnecting
<1>2. CASE Connect
  BY <1>2 DEF Connect, RetryInv
<1>3. ASSUME NEW fn \in {"rpc", "lang"}, Execute(fn)
      PROVE  RetryInv'
  <2>1. conn'.retryCtr = 0
    BY <1>3, InitialisedFacts DEF Execute
  <2>2. pc' = "check" /\ Len(stack') = 1
    BY <1>3 DEF Execute
  <2>3. QED BY <2>1, <2>2 DEF RetryInv, Reconnecting
<1>4. ASSUME NEW dropped \in BOOLEAN, CloseConnection(dropped) \/ ChangeConnectionParams(dropped)
      PROVE  RetryInv'
  <2>1. conn'.retryCtr = conn.retryCtr
    BY <1>4, CloseFacts DEF CloseConnection, ChangeConnectionParams
  <2>2. stack' = stack /\ pc' = pc
    BY <1>4 DEF CloseConnection, ChangeConnectionParams
  <2>3. QED BY <2>1, <2>2 DEF RetryInv, Reconnecting
<1>5. QED BY <1>1, <1>2, <1>3, <1>4, Zenon

LEMMA RetryOpening ==
  ASSUME TypeInv, StackInv, RetryInv,
         \/ CheckUsable \/ CheckReconnects \/ ConnectSucceeds \/ ConnectFails \/ ConnectReturns
         \/ \E dropped, allocated \in BOOLEAN : PrepareConnect(dropped, allocated)
  PROVE  RetryInv'
<1>1. CASE CheckUsable
  <2>1. conn' = conn /\ pc' = "ready"
    BY <1>1 DEF CheckUsable
  <2>2. /\ Len(stack') = Len(stack) /\ Len(stack) \in {1, 2}
        /\ Len(stack) = 2 => stack'[1] = stack[1]
    BY <1>1, CheckUsableStack
  <2>3. QED BY <2>1, <2>2 DEF RetryInv, Reconnecting
<1>2. CASE CheckReconnects
  <2>1. conn' = conn /\ pc = "check" /\ ~Usable
    BY <1>2 DEF CheckReconnects
  <2>2. Len(stack) = 1
    BY <2>1, OneFrame
  <2>3. stack'[1].saved.retryCtr = conn.retryCtr
    BY <1>2, <2>2, CheckReconnectsStack, InfoFacts
  <2>4. QED BY <2>1, <2>3 DEF RetryInv
<1>3. CASE ConnectSucceeds
  <2>1. pc = "connect" /\ Len(stack) = 1 /\ stack \in Seq(Frame)
    BY <1>3, OneFrame DEF ConnectSucceeds, TypeInv
  <2>2. CASE InitString
    <3> DEFINE f == [fn |-> "init", saved |-> NoInfo, reset |-> FALSE]
    <3>1. stack' = Append(stack, f) /\ conn' = Initialised
      BY <1>3, <2>2 DEF ConnectSucceeds
    <3>2. f \in Frame
      BY NewFrame DEF Functions
    <3>3. stack'[1] = stack[1]
      <4> HIDE DEF f
      <4>1. QED BY <2>1, <3>1, <3>2, PushFacts
    <3>4. conn'.retryCtr \in 0..10
      BY <3>1, InitialisedFacts
    <3>5. Reconnecting
      BY <2>1 DEF Reconnecting
    <3>6. QED BY <2>1, <3>3, <3>4, <3>5, RetryKept
  <2>3. CASE ~InitString
    <3>1. stack' = stack /\ conn' = conn
      BY <1>3, <2>3 DEF ConnectSucceeds
    <3>2. QED BY <2>1, <3>1 DEF RetryInv, Reconnecting
  <2>4. QED BY <2>2, <2>3
<1>4. CASE ConnectFails
  <2>1. pc = "connect" /\ stack' = stack /\ conn' = conn
    BY <1>4, Zenon DEF ConnectFails
  <2>2. QED BY <2>1 DEF RetryInv, Reconnecting
<1>5. CASE ConnectReturns
  <2>1. pc = "connected" /\ Len(stack) = 1 /\ Top = stack[1] /\ Len(stack') = 1
    BY <1>5, OneFrame, ConnectReturnsStack DEF ConnectReturns
  <2>2. pc' \in {"ready", "return"}
    BY <1>5 DEF ConnectReturns
  <2>3. conn'.retryCtr \in 0..10
    <3>1. CASE conn' = conn
      BY <3>1 DEF RetryInv
    <3>2. CASE conn' # conn
      <4>1. stack[1].fn # "connect" /\ conn' = Restored(stack[1].saved)
        BY <1>5, <2>1, <3>2 DEF ConnectReturns
      <4>2. stack[1].saved.retryCtr \in 0..10
        BY <2>1, <4>1 DEF RetryInv, Reconnecting
      <4>3. stack[1].saved \in InfoType
        BY <2>1, TopFacts DEF Frame
      <4>4. QED BY <4>1, <4>2, <4>3, RestoredFacts
    <3>3. QED BY <3>1, <3>2
  <2>4. QED BY <2>1, <2>2, <2>3 DEF RetryInv, Reconnecting
<1>6. ASSUME NEW dropped \in BOOLEAN, NEW allocated \in BOOLEAN,
             PrepareConnect(dropped, allocated)
      PROVE  RetryInv'
  <2>1. conn'.retryCtr = conn.retryCtr
    BY <1>6, CloseFacts DEF PrepareConnect
  <2>2. pc = "setup" /\ stack' = stack
    BY <1>6 DEF PrepareConnect
  <2>3. QED BY <2>1, <2>2 DEF RetryInv, Reconnecting
<1>7. QED BY <1>1, <1>2, <1>3, <1>4, <1>5, <1>6, Zenon

LEMMA RetryTry ==
  ASSUME TypeInv, StackInv, ShownInv, HeardInv, RetryInv,
         \/ Prepare \/ PrepareFails \/ SendSucceeds \/ SendFails
         \/ \E type \in {"row", "param", "status"} : ResultSet(type)
         \/ FetchRow \/ FetchEnds \/ ResultsEnd \/ ResultsFail \/ RowCountFails
         \/ Decide \/ Return
         \/ \E msg \in Messages : Message(msg)
  PROVE  RetryInv'
<1>1. ASSUME conn'.retryCtr = conn.retryCtr, stack' = stack,
             pc' \notin {"setup", "connect", "connected"} \/ pc' = pc
      PROVE  RetryInv'
  BY <1>1 DEF RetryInv, Reconnecting
<1>2. CASE Prepare \/ PrepareFails \/ SendSucceeds \/ SendFails
  <2>1. conn'.retryCtr = conn.retryCtr
    BY <1>2, PrepareFacts, PrepareFailsFacts, SendFacts DEF SendFails
  <2>2. stack' = stack /\ pc' \in {"send", "return", "results"}
    BY <1>2 DEF Prepare, PrepareFails, SendSucceeds, SendFails
  <2>3. QED BY <1>1, <2>1, <2>2
<1>3. CASE (\E type \in {"row", "param", "status"} : ResultSet(type)) \/ FetchRow \/ FetchEnds
  <2>1. conn'.retryCtr = conn.retryCtr
    BY <1>3, ResultSetFacts, FetchFacts DEF FetchEnds
  <2>2. stack' = stack /\ pc' \in {"fetch", "results"}
    BY <1>3 DEF ResultSet, FetchRow, FetchEnds
  <2>3. QED BY <1>1, <2>1, <2>2
<1>4. CASE ResultsEnd \/ ResultsFail \/ RowCountFails
  <2>1. PICK rc : ResultsReturn(rc)
    BY <1>4, ResultsCases
  <2>2. conn'.retryCtr = conn.retryCtr /\ pc' \in {"decide", "return"}
    BY <2>1, ResultsReturnFacts
  <2>3. stack' = stack
    BY <2>1 DEF ResultsReturn
  <2>4. QED BY <1>1, <2>2, <2>3
<1>5. CASE Decide
  <2>1. pc = "decide" /\ stack' = stack /\ pc' \in {"check", "return"}
    BY <1>5 DEF Decide
  <2>2. Len(stack) = 1
    BY <2>1, OneFrame
  <2>3. conn'.retryCtr \in 0..10
    <3>1. CASE TryAgain
      <4>1. PICK c \in call.heard : conn.retryCtr < Table[EntryOf(c)].maxRetry
        BY <2>1, <3>1, RetryFacts
      <4>2. Table[EntryOf(c)].maxRetry \in 0..10
        BY EntryOfType, TableType
      <4>3. conn'.retryCtr = conn.retryCtr + 1
        BY <1>5, <3>1, DecideFacts
      <4>4. QED BY <4>1, <4>2, <4>3, ConnFields
    <3>2. CASE ~TryAgain
      BY <1>5, <3>2, DecideFacts DEF RetryInv
    <3>3. QED BY <3>1, <3>2
  <2>4. ~Reconnecting'
    BY <2>1, <2>2 DEF Reconnecting
  <2>5. QED BY <2>3, <2>4 DEF RetryInv
<1>6. CASE Return
  <2>1. conn' = conn /\ stack' = Pop /\ pc = "return"
    BY <1>6 DEF Return
  <2>2. Len(stack) \in {1, 2} /\ Len(stack') = Len(stack) - 1
        /\ (Len(stack) = 2 => stack'[1] = stack[1])
    BY <2>1, TopFacts, PopFacts DEF TypeInv
  <2>3. CASE Len(stack) = 2
    <3>1. Reconnecting
      BY <2>3 DEF Reconnecting
    <3>2. conn'.retryCtr \in 0..10
      BY <2>1 DEF RetryInv
    <3>3. QED BY <2>2, <2>3, <3>1, <3>2, RetryKept
  <2>4. CASE Len(stack) = 1
    BY <2>1, <2>2, <2>4 DEF RetryInv
  <2>5. QED BY <2>2, <2>3, <2>4
<1>7. ASSUME NEW msg \in Messages, Message(msg)
      PROVE  RetryInv'
  <2>1. pc' = pc /\ stack' = stack
    BY <1>7, MessageKeeps
  <2>2. conn'.retryCtr = conn.retryCtr
    BY <1>7, MessageFacts, Zenon
  <2>3. QED BY <1>1, <2>1, <2>2
<1>8. QED BY <1>2, <1>3, <1>4, <1>5, <1>6, <1>7, Zenon

LEMMA RetryStep ==
  ASSUME TypeInv, StackInv, ShownInv, HeardInv, RetryInv, [Next]_vars
  PROVE  RetryInv'
<1>1. CASE UNCHANGED vars
  BY <1>1 DEF vars, RetryInv, Reconnecting
<1>2. CASE Next
  BY <1>2, RetryCalls, RetryOpening, RetryTry, Zenon DEF Next
<1>3. QED BY <1>1, <1>2

-----------------------------------------------------------------------------
(* Theorems *)

LEMMA InitCall ==
  ASSUME Init
  PROVE  CallInv
<1>1. TypeInv
  BY InitTypes
<1>2. pc = "idle" /\ stack = << >> /\ call.shown = {} /\ call.tries = 0 /\ call.heard = {}
      /\ conn.retryCtr = 0
  BY DEF Init
<1>3. StackInv /\ ShownInv /\ CommandInv
  BY <1>2 DEF StackInv, ShownInv, CommandInv, InRpc
<1>4. QED BY <1>1, <1>3 DEF CallInv

LEMMA CallInvariant == Spec => []CallInv
<1>1. CallInv /\ [Next]_vars => CallInv'
  BY TypeStep, StackStep, ShownStep, CommandStep DEF CallInv
<1>2. QED BY InitCall, <1>1, PTL DEF Spec

\* A call presents the rows and the output parameters of one execution, in
\* every build and whatever the application does after closing the handle:
\* ct10api_exec_rpc tries again only when no result was presented.
THEOREM OneExecutionShownHolds == Spec => []OneExecutionShown
<1>1. CallInv => OneExecutionShown
  <2>1. SUFFICES ASSUME CallInv
                 PROVE  Cardinality(call.shown) <= 1
    BY DEF OneExecutionShown
  <2>2. call.shown = {} \/ call.shown = {call.tries}
    BY <2>1 DEF CallInv, ShownInv
  <2>3. CASE call.shown = {}
    BY <2>3, FS_EmptySet
  <2>4. CASE call.shown = {call.tries}
    <3>1. Cardinality(call.shown) = 1
      BY <2>4, FS_Singleton, Zenon
    <3>2. QED BY <3>1
  <2>5. QED BY <2>2, <2>3, <2>4
<1>2. QED BY CallInvariant, <1>1, PTL

\* The command that is sent, and whose results are read, belongs to the
\* connection that is open, after any number of retries and reconnections.
THEOREM CommandIsLiveHolds == Spec => []CommandIsLive
<1>1. CallInv => CommandIsLive
  BY DEF CallInv, CommandInv, CommandIsLive
<1>2. QED BY CallInvariant, <1>1, PTL

LEMMA PostedInvariant ==
  ASSUME UseAfterClose = FALSE
  PROVE  Spec => [](CallInv /\ PostedInv)
<1>1. Init => CallInv /\ PostedInv
  <2>1. SUFFICES ASSUME Init
                 PROVE  CallInv /\ PostedInv
    OBVIOUS
  <2>2. pc = "idle" /\ stack = << >> /\ call.heard = {} /\ conn.retryCtr = 0
    BY <2>1 DEF Init
  <2>3. HeardInv
    BY <2>2 DEF HeardInv, InTry
  <2>4. RetryInv
    BY <2>2 DEF RetryInv
  <2>5. QED BY <2>1, <2>2, <2>3, <2>4, InitCall DEF PostedInv, ListedInv
<1>2. CallInv /\ PostedInv /\ [Next]_vars => (CallInv /\ PostedInv)'
  <2>1. SUFFICES ASSUME CallInv, PostedInv, [Next]_vars
                 PROVE  (CallInv /\ PostedInv)'
    OBVIOUS
  <2>2. CallInv'
    BY <2>1, TypeStep, StackStep, ShownStep, CommandStep DEF CallInv
  <2>3. ListedInv'
    BY <2>1, ListedStep DEF CallInv, PostedInv
  <2>4. HeardInv'
    BY <2>1, HeardStep DEF CallInv, PostedInv
  <2>5. RetryInv'
    BY <2>1, RetryStep DEF CallInv, PostedInv
  <2>6. QED BY <2>2, <2>3, <2>4, <2>5 DEF PostedInv
<1>3. QED BY <1>1, <1>2, PTL DEF Spec

\* The fields of the connection, and the number of retries: no configuration
\* of the recovery lets a call be tried more than eleven times.
THEOREM TypeCorrect ==
  ASSUME UseAfterClose = FALSE
  PROVE  Spec => []TypeOK
<1>1. CallInv /\ PostedInv => TypeOK
  <2>1. SUFFICES ASSUME CallInv, PostedInv
                 PROVE  TypeOK
    OBVIOUS
  <2>2. \A i \in DOMAIN stack : stack[i].fn \in Functions
    <3>1. stack \in Seq(Frame)
      BY <2>1 DEF CallInv, TypeInv
    <3>2. \A i \in DOMAIN stack : stack[i] \in Frame
      BY <3>1
    <3>3. \A f \in Frame : f.fn \in Functions
      BY DEF Frame
    <3>4. QED BY <3>2, <3>3, Zenon
  <2>3. conn.retryCtr \in 0..10 /\ Len(stack) <= 2
    BY <2>1 DEF CallInv, PostedInv, RetryInv, StackInv
  <2>4. TypeInv
    BY <2>1 DEF CallInv
  <2>5. /\ conn.code \in FATAL_ERROR + ERR_INTERVAL .. 0
        /\ conn.action \subseteq {RESET, NO_LOG} \cup FORGET_IT \cup {CS_FAIL}
        /\ conn.diag \subseteq Classes \cup {Unknown}
        /\ conn.result \in {"present", "not"} /\ conn.status \in BOOLEAN
        /\ conn.cmd \in {"none", "current", "stale", "dropped"}
    <3>1. /\ conn.code \in Codes /\ conn.action \in SUBSET ActionBits
          /\ conn.diag \in SUBSET AllClasses
          /\ conn.result \in {"present", "not"} /\ conn.status \in BOOLEAN
          /\ conn.cmd \in {"none", "current", "stale", "dropped"}
      BY <2>4, ConnFields
    <3>2. QED BY <3>1, Zenon DEF Codes, ActionBits, AllClasses
  <2>6. QED BY <2>2, <2>3, <2>4, <2>5, Zenon DEF TypeOK, TypeInv, Points
<1>2. QED BY PostedInvariant, <1>1, PTL

\* A call that answers SUCCESS heard no error in its last try, whatever the
\* messages and the configuration: the code of a message that is harmful is
\* negative, and the least code wins.
THEOREM ErrorIsReportedHolds ==
  ASSUME UseAfterClose = FALSE
  PROVE  Spec => []ErrorIsReported
<1>1. CallInv /\ PostedInv => ErrorIsReported
  <2>1. SUFFICES ASSUME CallInv, PostedInv, pc = "idle", call.tries > 0, ret = SUCCESS
                 PROVE  \A c \in call.heard : Harmless(c)
    BY DEF ErrorIsReported
  <2>2. Len(stack) <= 1
    BY <2>1 DEF CallInv, StackInv
  <2>3. QED BY <2>1, <2>2 DEF PostedInv, HeardInv
<1>2. QED BY PostedInvariant, <1>1, PTL

\* The procedure is executed again only if every message of the failed try
\* allows it, for the number of retries already done, and nothing was shown.
THEOREM RetryIsAllowedHolds ==
  ASSUME UseAfterClose = FALSE
  PROVE  Spec => RetryIsAllowed
<1>1. CallInv /\ PostedInv /\ [Next]_vars =>
        [pc = "decide" /\ pc' = "check" =>
           /\ call.tries \notin call.shown
           /\ \A c \in call.heard : /\ NO_RETRY \notin Table[EntryOf(c)].actions
                                     /\ conn.retryCtr < Table[EntryOf(c)].maxRetry]_vars
  <2>1. SUFFICES ASSUME CallInv, PostedInv, Next, pc = "decide", pc' = "check"
                 PROVE  /\ call.tries \notin call.shown
                        /\ \A c \in call.heard : /\ NO_RETRY \notin Table[EntryOf(c)].actions
                                                  /\ conn.retryCtr < Table[EntryOf(c)].maxRetry
    OBVIOUS
  <2>2. Decide
    <3>1. ~(\E msg \in Messages : Message(msg))
      BY <2>1, MessageKeeps DEF CallInv, Waiting
    <3>2. ~ConnectFails
      BY <2>1, Zenon DEF ConnectFails
    <3>3. ~(\/ CreateConnection \/ Connect \/ ResetBatchCounters
            \/ \E fn \in {"rpc", "lang"} : Execute(fn)
            \/ \E dropped \in BOOLEAN : CloseConnection(dropped) \/ ChangeConnectionParams(dropped)
            \/ CheckUsable \/ CheckReconnects
            \/ \E dropped, allocated \in BOOLEAN : PrepareConnect(dropped, allocated)
            \/ ConnectSucceeds \/ ConnectReturns)
      BY <2>1 DEF CreateConnection, Connect, ResetBatchCounters, Execute, CloseConnection,
                  ChangeConnectionParams, CheckUsable, CheckReconnects, PrepareConnect,
                  ConnectSucceeds, ConnectReturns
    <3>4. ~(\/ Prepare \/ PrepareFails \/ SendSucceeds \/ SendFails
            \/ \E type \in {"row", "param", "status"} : ResultSet(type)
            \/ FetchRow \/ FetchEnds \/ ResultsEnd \/ ResultsFail \/ RowCountFails \/ Return)
      BY <2>1 DEF Prepare, PrepareFails, SendSucceeds, SendFails, ResultSet, FetchRow,
                  FetchEnds, ResultsEnd, ResultsFail, RowCountFails, Return
    <3>5. QED BY <2>1, <3>1, <3>2, <3>3, <3>4, Zenon DEF Next
  <2>3. TryAgain
    BY <2>1, <2>2, DecideFacts DEF CallInv
  <2>4. QED BY <2>1, <2>3, RetryFacts DEF CallInv, PostedInv
<1>2. QED BY PostedInvariant, <1>1, PTL DEF Spec, RetryIsAllowed

=============================================================================
