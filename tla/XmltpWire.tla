----------------------------- MODULE XmltpWire -----------------------------
(***************************************************************************)
(* The XMLTP responses: the writer that composes them                      *)
(* (xmltp/xmltp_writer.c) and the grammar that a reader parses them with   *)
(* (xmltp/xmltp_gram.y).                                                   *)
(*                                                                         *)
(* A token is a pair of a tag and a number: a closing tag begins with a    *)
(* slash, a value and the tag behind it that says whether it is null are   *)
(* one token VAL, and a name, a type and a size belong to their COL or     *)
(* PARAM.  White space, datatypes and escapes are left out.  The number    *)
(* says which execution of a procedure a value comes from, or how many     *)
(* rows are counted.                                                       *)
(***************************************************************************)
EXTENDS Integers, Sequences

Tag(t) == <<t, 0>>

-----------------------------------------------------------------------------
(* The writer: its static variables, and what it has written               *)

\* xmltp_writer_reset; -999 is no result set yet.
FreshWriter == [header |-> FALSE, sets |-> FALSE, rows |-> FALSE, inRow |-> FALSE,
                params |-> FALSE, setNo |-> -999, out |-> << >>]

Emit(w, tokens) == [w EXCEPT !.out = @ \o tokens]

BeginResponseIfNotDone(w) ==
  IF w.header THEN w ELSE Emit([w EXCEPT !.header = TRUE], <<Tag("RESPONSE")>>)

\* sf_end_previous_result_set; without a row the number of rows is zero.
EndPreviousResultSet(w, nbRows) ==
  IF w.rows
  THEN Emit([w EXCEPT !.rows = FALSE], <<Tag("/ROWS"), <<"NBROWS", nbRows>>, Tag("/SET")>>)
  ELSE Emit(w, <<Tag("/COLNAMES"), Tag("ROWS"), Tag("/ROWS"), <<"NBROWS", 0>>, Tag("/SET")>>)

BeginSetsIfNotDone(w) ==
  IF w.sets THEN w ELSE Emit([w EXCEPT !.sets = TRUE], <<Tag("SETS")>>)

BeginResultSet(w, setNo, nbRows) ==
  LET w1 == BeginResponseIfNotDone(w)
      w2 == IF w1.sets /\ w1.setNo # setNo THEN EndPreviousResultSet(w1, nbRows) ELSE w1
  IN Emit([BeginSetsIfNotDone(w2) EXCEPT !.setNo = setNo], <<Tag("SET"), Tag("COLNAMES")>>)

ColumnName(w) == Emit(w, <<Tag("COL")>>)

ColumnValue(w, v) ==
  LET w1 == IF w.rows THEN w
            ELSE Emit([w EXCEPT !.rows = TRUE, !.inRow = FALSE],
                      <<Tag("/COLNAMES"), Tag("ROWS")>>)
      w2 == IF w1.inRow THEN w1 ELSE Emit([w1 EXCEPT !.inRow = TRUE], <<Tag("ROW")>>)
  IN Emit(w2, <<<<"VAL", v>>>>)

EndColumnValues(w) == Emit([w EXCEPT !.inRow = FALSE], <<Tag("/ROW")>>)

EndRowsIfStarted(w, nbRows) ==
  IF w.sets
  THEN Emit(EndPreviousResultSet([w EXCEPT !.sets = FALSE], nbRows), <<Tag("/SETS")>>)
  ELSE w

BeginOutputParams(w, nbRows) ==
  LET w1 == EndRowsIfStarted(BeginResponseIfNotDone(w), nbRows)
  IN IF w1.params THEN w1 ELSE Emit([w1 EXCEPT !.params = TRUE], <<Tag("OUTPARAMS")>>)

ParamValue(w, v) == Emit(w, <<<<"PARAM", v>>>>)

EndOutputParamsIfStarted(w) ==
  IF w.params THEN Emit([w EXCEPT !.params = FALSE], <<Tag("/OUTPARAMS")>>) ELSE w

BeginMsg(w, nbRows) ==
  Emit(EndOutputParamsIfStarted(EndRowsIfStarted(BeginResponseIfNotDone(w), nbRows)),
       <<Tag("MSGLIST")>>)

WriteMsg(w, v) == Emit(w, <<<<"MSG", v>>>>)

EndMsg(w) == Emit(w, <<Tag("/MSGLIST")>>)

\* The status and the end; the flush sends all that is written.
EndResponse(w, status, rc, nbRows) ==
  LET w1 == EndOutputParamsIfStarted(EndRowsIfStarted(BeginResponseIfNotDone(w), nbRows))
      sent == IF rc <= -1 /\ status >= 0 THEN -1500 + rc ELSE status
  IN Emit(w1, <<<<"STATUS", sent>>, Tag("/RESPONSE"), Tag("EOT")>>)

-----------------------------------------------------------------------------
(* The grammar of a response, as the automaton it is                       *)

Rules ==
  { <<"start", "RESPONSE", "response">>,
    <<"response", "SETS", "sets">>, <<"sets", "SET", "set">>,
    <<"set", "COLNAMES", "names">>, <<"names", "COL", "columns">>,
    <<"columns", "COL", "columns">>, <<"columns", "/COLNAMES", "named">>,
    <<"named", "ROWS", "rows">>, <<"rows", "ROW", "row">>, <<"row", "VAL", "values">>,
    <<"values", "VAL", "values">>, <<"values", "/ROW", "rows">>,
    <<"rows", "/ROWS", "counted">>, <<"counted", "NBROWS", "closing">>,
    <<"closing", "/SET", "more">>, <<"more", "SET", "set">>, <<"more", "/SETS", "results">>,
    <<"params", "PARAM", "values of params">>,
    <<"values of params", "PARAM", "values of params">>,
    <<"values of params", "/OUTPARAMS", "trailer">>,
    <<"msgs", "MSG", "more msgs">>, <<"more msgs", "MSG", "more msgs">>,
    <<"more msgs", "/MSGLIST", "totals">>, <<"total", "STATUS", "end">>,
    <<"end", "/RESPONSE", "eot">>, <<"eot", "EOT", "done">> }
  \cup { <<s, "OUTPARAMS", "params">> : s \in {"response", "results"} }
  \cup { <<s, "MSGLIST", "msgs">> : s \in {"response", "results", "trailer"} }
  \cup UNION { { <<s, "TOTALROWS", "total">>, <<s, "STATUS", "end">> } :
               s \in {"response", "results", "trailer", "totals"} }

\* The rules with the error token: the tokens behind an error are skipped, in a
\* row up to its end or to the next value, behind the rows up to the end of the
\* set, in a response up to its status; before it there is no token that ends.
Sync ==
  { <<"skip row", "VAL", "values">>, <<"skip row", "/ROW", "rows">>,
    <<"skip set", "/SET", "more">>, <<"skip", "STATUS", "end">> }

Skipping == {"skip all", "skip row", "skip set", "skip"}

SkipFrom(state) ==
  CASE state = "start" -> "skip all"
    [] state \in {"row", "values"} -> "skip row"
    [] state \in {"counted", "closing"} -> "skip set"
    [] state \in Skipping -> state
    [] OTHER -> "skip"

Parsing == {r[1] : r \in Rules} \cup Skipping \cup {"done", "error"}

\* One token.
Shift(state, tag) ==
  LET next == {r \in Rules \cup Sync : r[1] = state /\ r[2] = tag}
  IN IF next = {} THEN "error" ELSE (CHOOSE r \in next : TRUE)[3]

ParseFrom(state, tokens) ==
  LET f[i \in 0..Len(tokens)] == IF i = 0 THEN state ELSE Shift(f[i - 1], tokens[i][1])
  IN f[Len(tokens)]

IsSentence(tokens) == ParseFrom("start", tokens) = "done"
=============================================================================
