------------------------------- MODULE RpcText -------------------------------
(***************************************************************************)
(* The parser of a procedure call written as text, "proc @a = 1, "x" out", *)
(* of ct10api/ct10rpc_parse.c, with the check of numbers of                *)
(* dulib/check_num_string.c, as ct10api_exec_rpc_string and                *)
(* xmltp_api_exec_rpc_string call it.                                      *)
(*                                                                         *)
(* A text is read character by character; of a character only its column   *)
(* in the automaton matters.  The working buffers are static: they live    *)
(* longer than a parameter and than a call.  Of a buffer the model keeps   *)
(* where its contents came from: the call and the position in its text.    *)
(* Texts stay below the size of the buffers.                               *)
(***************************************************************************)
EXTENDS Integers, Sequences, FiniteSets, SequencesExt

CONSTANTS
    Alphabets,   \* sets of classes of characters; a text is made of one set
    MaxText,     \* the length of a text (bound)
    TableSize,   \* entries of the caller's table of parameters
    MaxTexts     \* texts parsed in a behaviour (bound)

ASSUME RpcTextAssumption ==
    /\ \A a \in Alphabets :
          a \subseteq {"letter", "digit", "sign", "dot", "at", "space", "equal",
                      "quote", "comma", "other", "open", "close"}
    /\ TableSize \in Nat \ {0}

VARIABLES
    text,     \* the text being parsed: its number and alphabet, the position, the level
    buffers,  \* the static buffers and counters of the parser
    params    \* the caller's table, the count it was given and the answer

rpcTextVars == <<text, buffers, params>>

-----------------------------------------------------------------------------
(* Numbers *)

Alnum == {"letter", "digit"}
Signed == {"digit", "sign", "dot"}

\* The two automata of check_num_string.c, on the classes of characters:
\* blanks, a sign, digits and, in the second one, a point; a point needs no
\* digit on either side.
NumberTurn(before, c, point) ==
    CASE c = "space" /\ before = "start" -> "start"
      [] c = "sign" /\ before = "start" -> "sign"
      [] c = "digit" /\ before \in {"start", "sign", "digits"} -> "digits"
      [] c = "dot" /\ before \in {"start", "sign", "digits"} /\ point -> "point"
      [] c = "digit" /\ before \in {"point", "decimals"} -> "decimals"
      [] c = "space" /\ before \in {"digits", "point", "decimals", "blanks"} -> "blanks"
      [] OTHER -> "bad"

NumberLevel(v, point) ==
    LET level[n \in 0..Len(v)] ==
            IF n = 0 THEN "start" ELSE NumberTurn(level[n - 1], v[n], point)
    IN level[Len(v)]

IsInt(v) == NumberLevel(v, FALSE) \in {"digits", "blanks"}
IsFloat(v) == NumberLevel(v, TRUE) \in {"digits", "point", "decimals", "blanks"}

-----------------------------------------------------------------------------
(* The automaton *)

To(level, do) == [level |-> level, do |-> do]
Error(c) == To(IF c \in {"open", "close"} THEN "ERROR_RPC" ELSE "ERROR_PARM", <<>>)

\* Where a character leads from a level, and what is done with it.
Turn(level, c) ==
    CASE level = "start" ->
            IF c \in Alnum THEN To("name", <<"name">>)
            ELSE IF c = "space" THEN To("start", <<>>) ELSE To("ERROR_RPC", <<>>)
      [] level = "name" ->
            IF c \in Alnum \cup {"dot"} THEN To("name", <<"name">>)
            ELSE IF c = "space" THEN To("next", <<>>)
            ELSE IF c = "end" THEN To("OK", <<>>) ELSE To("ERROR_RPC", <<>>)
      [] level = "next" ->
            IF c \in Alnum \cup Signed THEN To("value", <<"value begins">>)
            ELSE IF c = "at" THEN To("param name", <<"name begins">>)
            ELSE IF c = "space" THEN To("next", <<>>)
            ELSE IF c = "quote" THEN To("quoted", <<"quote begins">>)
            ELSE IF c = "open" THEN To("date", <<"date begins">>)
            ELSE IF c = "end" THEN To("OK", <<>>) ELSE Error(c)
      [] level = "param name" ->
            IF c \in Alnum THEN To("param name", <<>>)
            ELSE IF c = "space" THEN To("named", <<>>)
            ELSE IF c = "equal" THEN To("equal", <<>>) ELSE Error(c)
      [] level = "named" ->
            IF c = "space" THEN To("named", <<>>)
            ELSE IF c = "equal" THEN To("equal", <<>>) ELSE Error(c)
      [] level = "equal" ->
            IF c \in Alnum \cup Signed \cup {"other", "close"} THEN To("value", <<"value begins">>)
            ELSE IF c = "space" THEN To("equal", <<>>)
            ELSE IF c = "quote" THEN To("quoted", <<"quote begins">>)
            ELSE IF c = "open" THEN To("date", <<"date begins">>) ELSE To("ERROR_PARM", <<>>)
      [] level = "value" ->
            IF c = "space" THEN To("after value", <<>>)
            ELSE IF c = "comma" THEN To("next", <<"param", "more">>)
            ELSE IF c = "end" THEN To("OK", <<"param">>) ELSE To("value", <<"value">>)
      [] level \in {"quoted", "date"} ->
            IF c = (IF level = "quoted" THEN "quote" ELSE "close") THEN To("after value", <<>>)
            ELSE IF c = "end" THEN To("ERROR_PARM", <<>>) ELSE To(level, <<"value">>)
      [] level = "after value" ->
            IF c = "letter" THEN To("out", <<"out begins">>)
            ELSE IF c = "space" THEN To("after value", <<>>)
            ELSE IF c = "comma" THEN To("next", <<"param", "more">>)
            ELSE IF c = "end" THEN To("OK", <<"param">>) ELSE Error(c)
      [] level = "out" ->
            IF c = "letter" THEN To("out", <<>>)
            ELSE IF c = "space" THEN To("after out", <<"out">>)
            ELSE IF c = "comma" THEN To("next", <<"out", "param", "more">>)
            ELSE IF c = "end" THEN To("OK", <<"out", "param">>) ELSE Error(c)
      [] level = "after out" ->
            IF c = "space" THEN To("after out", <<>>)
            ELSE IF c = "comma" THEN To("next", <<"param", "more">>)
            ELSE IF c = "end" THEN To("OK", <<"param">>) ELSE Error(c)

-----------------------------------------------------------------------------
(* What is done with a character.  A function takes and gives the buffers   *)
(* and the table; "ok" becomes FALSE when it answers an error.              *)

Nowhere == <<0, 0>>
Here == <<text.number, text.at>>

\* The first letter of a name or of a value begins the first parameter.
FirstParm(b) == [b EXCEPT !.current = IF @ = 0 THEN 1 ELSE @]

ValueBegins(b, quote, chars) ==
    [FirstParm(b) EXCEPT !.value = Here, !.chars = chars, !.quote = quote]

\* The type of a parameter from its value and its quotes.
KindOf(b) ==
    IF b.quote = "quote" THEN "CHAR"
    ELSE IF b.quote = "date" THEN "DATETIME"
    ELSE IF IsInt(b.chars) THEN "INT" ELSE IF IsFloat(b.chars) THEN "FLOAT" ELSE "CHAR"

\* A parameter is made from the buffers, which are then empty again.
Made(b) == [name |-> b.name, value |-> b.value, out |-> b.out, chars |-> b.chars,
            quote |-> b.quote, kind |-> KindOf(b), from |-> b.from, to |-> text.at]

\* Mutant of Cleared: the name is kept.
MutCleared(b) == [b EXCEPT !.value = Nowhere, !.chars = <<>>, !.out = Nowhere]

Cleared(b) == [b EXCEPT !.name = Nowhere, !.value = Nowhere, !.chars = <<>>, !.out = Nowhere]

\* The effect of one function on the buffers.  The word after a value is OUT or
\* OUTPUT or it is not: "isOut".
Effect(f, c, b, isOut) ==
    CASE f = "name" -> b
      [] f = "name begins" -> [FirstParm(b) EXCEPT !.name = Here]
      [] f = "value begins" -> ValueBegins(b, "none", <<c>>)
      [] f = "quote begins" -> ValueBegins(b, "quote", <<>>)
      [] f = "date begins" -> ValueBegins(b, "date", <<>>)
      [] f = "value" -> [b EXCEPT !.chars = IF b.quote = "none" THEN Append(@, c) ELSE @]
      [] f = "out begins" -> [b EXCEPT !.word = Here]
      [] f = "out" -> [b EXCEPT !.out = IF isOut THEN b.word ELSE @, !.ok = isOut]
      [] f = "param" -> Cleared(b)
      [] f = "more" -> IF b.current >= TableSize THEN [b EXCEPT !.ok = FALSE]
                       ELSE [b EXCEPT !.current = @ + 1, !.from = text.at]

\* The effect of a list of functions, one after the other up to an error.
Done(do, c, b, isOut) ==
    LET after[n \in 0..Len(do)] ==
            IF n = 0 THEN b
            ELSE IF after[n - 1].ok THEN Effect(do[n], c, after[n - 1], isOut) ELSE after[n - 1]
    IN after[Len(do)]

NoBuffers == [name |-> Nowhere, value |-> Nowhere, out |-> Nowhere, word |-> Nowhere,
              chars |-> <<>>, quote |-> "none", current |-> 0, from |-> 0, ok |-> TRUE]

\* A call of the parser empties the buffers but for the kind of the quotes.
\* The caller's table is a local array that is not initialised.
ParseBegins ==
    /\ text.level = "idle"
    /\ text.number < MaxTexts
    /\ \E a \in Alphabets:
          text' = [number |-> text.number + 1, chars |-> a, at |-> 1, level |-> "start"]
    /\ buffers' = [NoBuffers EXCEPT !.quote = buffers.quote, !.word = buffers.word]
    /\ params' = [table |-> <<>>, count |-> 0, answer |-> "none", trailing |-> FALSE]

\* One turn of the automaton.  An error of a function is a failure whatever
\* the level says; a conversion of a value may fail; the number of parameters
\* is given on success only.
ParseChar(c) ==
    /\ text.level # "idle"
    /\ c # "end" => text.at <= MaxText
    /\ \E isOut, converts \in BOOLEAN:
         LET turn == Turn(text.level, c)
             makes == "param" \in ToSet(turn.do)
             out == "out" \in ToSet(turn.do)
             before == Done(IF out THEN <<"out">> ELSE <<>>, c, buffers, isOut)
             made == Made(before)
             after == Done(turn.do, c, buffers, isOut)
             fails == ~after.ok \/ (makes /\ made.kind # "CHAR" /\ ~converts)
             ends == fails \/ turn.level \in {"OK", "ERROR_RPC", "ERROR_PARM"} IN
         /\ isOut \/ out
         /\ converts \/ (makes /\ before.ok /\ made.kind # "CHAR")
         /\ text' = IF ends THEN [text EXCEPT !.level = "idle", !.chars = {}]
                    ELSE [text EXCEPT !.level = turn.level, !.at = @ + 1]
         /\ buffers' = after
         /\ params' = [table |-> IF makes /\ before.ok THEN Append(params.table, made)
                                 ELSE params.table,
                       count |-> IF ends /\ ~fails /\ turn.level = "OK" THEN after.current ELSE 0,
                       answer |-> IF ~ends THEN "none" ELSE IF fails THEN "FAIL" ELSE turn.level,
                       trailing |-> "more" \in ToSet(turn.do)
                                    \/ (params.trailing /\ c \in {"space", "end"})]

RpcTextInit ==
    /\ text = [number |-> 0, chars |-> {}, at |-> 0, level |-> "idle"]
    /\ buffers = NoBuffers
    /\ params = [table |-> <<>>, count |-> 0, answer |-> "none", trailing |-> FALSE]

RpcTextNext == ParseBegins \/ \E c \in text.chars \cup {"end"}: ParseChar(c)

-----------------------------------------------------------------------------
(* Properties *)

RpcTextTypeOK ==
    /\ text.number \in 0..MaxTexts /\ text.at \in 0..(MaxText + 1)
    /\ Len(params.table) <= TableSize
    /\ buffers.current \in 0..TableSize
    /\ params.answer \in {"none", "OK", "ERROR_RPC", "ERROR_PARM", "FAIL"}

\* Nothing of one parameter, or of an earlier text, shows in another one: its
\* name, its value and its OUT come from its own part of its own text, though
\* the buffers are static (ct10rpc_parse.c).
FieldsAreOwn ==
    \A i \in 1..Len(params.table):
        LET p == params.table[i] IN
        /\ p.value[1] = text.number /\ p.value[2] \in (p.from + 1)..p.to
        /\ \A f \in {p.name, p.out}:
              f # Nowhere => f[1] = text.number /\ f[2] \in (p.from + 1)..p.to
        /\ p.name # Nowhere => p.name[2] < p.value[2]

\* The caller is told as many parameters as were made, and they are no more than
\* its table has room for.  A text that ends with a comma is excluded: it counts
\* a parameter that was never made.
CountIsTold ==
    /\ Len(params.table) <= TableSize
    /\ params.answer = "OK" /\ ~params.trailing => params.count = Len(params.table)

\* The parameters of a call that is accepted are made from values that read as
\* their type: an integer or a decimal number only where every character fits.
\* (What stands unquoted has no blanks in it.)
ReadsAsNumber(v) ==
    /\ ToSet(v) \subseteq Signed
    /\ \A k \in 2..Len(v): v[k] # "sign"
    /\ \A j, k \in 1..Len(v): v[j] = "dot" /\ v[k] = "dot" => j = k

KindsAreTrue ==
    params.answer = "OK" /\ ~params.trailing =>
        \A i \in 1..Len(params.table):
            LET p == params.table[i] IN
            p.quote = "none" /\ "digit" \in ToSet(p.chars) =>
                (p.kind \in {"INT", "FLOAT"} <=> ReadsAsNumber(p.chars))

RpcTextIsTrue == FieldsAreOwn /\ CountIsTold /\ KindsAreTrue
=============================================================================
