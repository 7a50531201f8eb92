------------------------------- MODULE Config -------------------------------
(***************************************************************************)
(* The configuration reader: cfg_read/ucfg.c and, over it, ucfg_clt.c,     *)
(* which looks for a parameter under the client's prefix first.            *)
(*                                                                         *)
(* A file is a sequence of lines.  A line is its words, whether it starts  *)
(* with a blank, and whether a continuation character ends it.  The line   *)
(* of a section starts at the margin and names one or several sections;    *)
(* the indented lines after it are parameters.  The length limits, quotes  *)
(* and the characters after a continuation character are left out.         *)
(***************************************************************************)
EXTENDS Integers, Sequences, FiniteSets, SequencesExt

CONSTANTS
    Lines,      \* the lines a file may have: records [indent, words, cont]
    MaxLines,   \* the length of a file (bound)
    Sections,   \* the sections that are asked for
    ParamNames,     \* the parameters that the program looks for
    Prefixed,   \* a parameter's name under the client's prefix
    NumberWords,    \* the words that are numbers
    MaxOpens    \* calls of open (bound)

NoName == "none"
Comment == "#"

\* No word is the empty one, which stands for no name; a continuation character
\* does not stand alone on a line.
ASSUME ConfigAssumption ==
    /\ Lines \subseteq [indent: BOOLEAN, words: Seq(STRING), cont: BOOLEAN]
    /\ \A l \in Lines: NoName \notin ToSet(l.words) /\ (l.cont => l.words # <<>>)
    /\ MaxLines \in Nat

VARIABLES
    file,     \* the lines of the file
    cfg,      \* s_param_loaded, the tree of parameters and the saved name
    reading,  \* the state of an open: the line it has come to
    asked,    \* the arguments of the last open, with the parameters before it
    values,   \* a program's loop over the values of a parameter
    checked   \* the answer of the last check of all parameters

configVars == <<file, cfg, reading, asked, values, checked>>

-----------------------------------------------------------------------------
(* Lines *)

IsSkipped(l) == IF l.words = <<>> THEN ~l.cont ELSE Head(l.words) = Comment

\* The first line from i that is neither blank nor a comment.
FirstFrom(i) ==
    LET kept == {k \in i..Len(file): ~IsSkipped(file[k])}
    IN IF kept = {} THEN Len(file) + 1 ELSE CHOOSE k \in kept: \A j \in kept: k <= j

\* A line with those that continue it: inside a continuation neither a blank
\* line nor a comment is skipped, and the end of the file ends it.
Joined ==
    LET join[k \in 1..(Len(file) + 1)] ==
            IF k > Len(file) THEN [words |-> <<>>, next |-> k]
            ELSE IF file[k].cont
            THEN [words |-> file[k].words \o join[k + 1].words, next |-> join[k + 1].next]
            ELSE [words |-> file[k].words, next |-> k + 1]
    IN join

AtEnd(i) == FirstFrom(i) > Len(file)

\* get_one_line_skip_comments from line i.
OneLine(i) ==
    LET first == FirstFrom(i) IN
    [indent |-> file[first].indent, words |-> Joined[first].words, next |-> Joined[first].next]

\* The line after the one that names the section, or 0.
SectionEnd(section) ==
    LET find[i \in 1..(Len(file) + 1)] ==
            IF AtEnd(i) THEN 0
            ELSE IF ~OneLine(i).indent /\ section \in ToSet(OneLine(i).words)
            THEN OneLine(i).next
            ELSE find[OneLine(i).next]
    IN find[1]

\* The values of a parameter are the words up to a comment.
ValuesOf(words) ==
    LET comments == {k \in 2..Len(words): words[k] = Comment}
    IN SubSeq(words, 2,
              IF comments = {} THEN Len(words)
              ELSE (CHOOSE k \in comments: \A j \in comments: k <= j) - 1)

-----------------------------------------------------------------------------
(* Opening a section *)

Idle == reading.line = 0

\* remember_bad_param_name keeps the first name until it is reset.
Remember(name, n) == IF name = NoName THEN n ELSE name

Define(tree, name, vals) == [n \in DOMAIN tree \cup {name} |-> IF n = name THEN vals ELSE tree[n]]

NoValues == [param |-> NoName, shown |-> <<>>, over |-> TRUE]

\* The opening resets the saved name and unloads the parameters, whose tree
\* stays when the file or the section is not found.
OpenConfig(section, allow, destroy) ==
    /\ Idle /\ values.over /\ asked.opens < MaxOpens
    /\ asked' = [opens |-> asked.opens + 1, section |-> section, allow |-> allow,
                 destroy |-> destroy, before |-> cfg.tree]
    /\ \/ /\ cfg' = [cfg EXCEPT !.loaded = FALSE, !.bad = "file", !.rc = "OPEN_FAILED"]
          /\ UNCHANGED reading
       \/ /\ SectionEnd(section) = 0
          /\ cfg' = [cfg EXCEPT !.loaded = FALSE, !.bad = section, !.rc = "NOTFND"]
          /\ UNCHANGED reading
       \/ /\ SectionEnd(section) # 0
          /\ cfg' = [cfg EXCEPT !.loaded = TRUE, !.bad = NoName, !.rc = "0",
                                !.tree = IF destroy THEN <<>> ELSE @,
                                !.at = IF destroy THEN <<>> ELSE @]
          /\ reading' = [line |-> SectionEnd(section)]
    /\ values' = NoValues
    /\ UNCHANGED <<file, checked>>

\* A second definition replaces the first one or is dropped with its name
\* kept; the error of a dropped definition does not end the reading.
Insert(name, vals) ==
    IF name \in DOMAIN cfg.tree /\ ~asked.allow
    THEN [cfg EXCEPT !.bad = Remember(@, name), !.rc = "DUPLICATED"]
    ELSE [cfg EXCEPT !.tree = Define(@, name, vals), !.at = Define(@, name, 0), !.rc = "0"]

IsParam(i) == ~AtEnd(i) /\ OneLine(i).indent

ReadParam ==
    /\ ~Idle /\ IsParam(reading.line)
    /\ cfg' = Insert(Head(OneLine(reading.line).words), ValuesOf(OneLine(reading.line).words))
    /\ reading' = [line |-> OneLine(reading.line).next]
    /\ UNCHANGED <<file, asked, values, checked>>

\* The end of the section answers 0, whatever the definitions answered.
SectionEnds ==
    /\ ~Idle /\ ~IsParam(reading.line)
    /\ cfg' = [cfg EXCEPT !.rc = "0"]
    /\ reading' = [line |-> 0]
    /\ UNCHANGED <<file, asked, values, checked>>

-----------------------------------------------------------------------------
(* Using the parameters *)

\* The list that a name finds: none when nothing is loaded.
Exists(name) == cfg.loaded /\ name \in DOMAIN cfg.tree

\* get_first falls back on the plain name when the prefixed list is missing
\* or is empty; get_next only when it is missing.
ListOfFirst(p) == IF Exists(Prefixed[p]) /\ cfg.tree[Prefixed[p]] # <<>> THEN Prefixed[p] ELSE p

ListOfNext(p) == IF Exists(Prefixed[p]) THEN Prefixed[p] ELSE p

GetFirstValue(p) ==
    /\ Idle /\ values.over /\ values.param = NoName
    /\ LET n == ListOfFirst(p) IN
       IF Exists(n) /\ cfg.tree[n] # <<>>
       THEN /\ cfg' = [cfg EXCEPT !.at[n] = 1]
            /\ values' = [param |-> p, shown |-> <<cfg.tree[n][1]>>, over |-> FALSE]
       ELSE /\ values' = [param |-> p, shown |-> <<>>, over |-> TRUE]
            /\ UNCHANGED cfg
    /\ UNCHANGED <<file, reading, asked, checked>>

\* The cursor that was never set starts the list (lkls_get_datum_in_list_next).
GetNextValue ==
    /\ ~values.over
    /\ LET n == ListOfNext(values.param) IN
       IF Exists(n) /\ cfg.at[n] < Len(cfg.tree[n])
       THEN /\ cfg' = [cfg EXCEPT !.at[n] = @ + 1]
            /\ values' = [values EXCEPT !.shown = Append(@, cfg.tree[n][cfg.at[n] + 1])]
       ELSE /\ values' = [values EXCEPT !.over = TRUE]
            /\ UNCHANGED cfg
    /\ UNCHANGED <<file, reading, asked, checked>>

\* ucfg_check_all_param_defs does not ask whether the parameters are loaded.
\* A list without values is bad as a number that is not one is.
BadValues(p) == cfg.tree[p] = <<>> \/ ~(ToSet(cfg.tree[p]) \subseteq NumberWords)

CheckAll(required) ==
    /\ Idle /\ values.over /\ checked = NoName /\ asked.opens > 0
    /\ LET missing == SelectSeq(required, LAMBDA p: p \notin DOMAIN cfg.tree)
           bad == SelectSeq(required, LAMBDA p: BadValues(p)) IN
       IF missing # <<>>
       THEN /\ checked' = "MISSING"
            /\ cfg' = [cfg EXCEPT !.bad = Head(missing)]
       ELSE IF bad # <<>>
       THEN /\ checked' = "HAS_BAD_VAL"
            /\ cfg' = [cfg EXCEPT !.bad = Remember(@, Head(bad))]
       ELSE /\ checked' = (IF Cardinality(DOMAIN cfg.tree) > Len(required)
                           THEN "SUPPL_PARAM_FOUND" ELSE "0")
            /\ UNCHANGED cfg
    /\ UNCHANGED <<file, reading, asked, values>>

ConfigInit ==
    /\ file \in UNION {[1..n -> Lines]: n \in 0..MaxLines}
    /\ cfg = [loaded |-> FALSE, tree |-> <<>>, at |-> <<>>, bad |-> NoName, rc |-> "0"]
    /\ reading = [line |-> 0]
    /\ asked = [opens |-> 0, section |-> NoName, allow |-> FALSE, destroy |-> TRUE,
                before |-> <<>>]
    /\ values = NoValues
    /\ checked = NoName

ConfigNext ==
    \/ \E s \in Sections, allow, destroy \in BOOLEAN: OpenConfig(s, allow, destroy)
    \/ ReadParam \/ SectionEnds
    \/ \E p \in ParamNames: GetFirstValue(p)
    \/ GetNextValue
    \/ CheckAll(SetToSeq(ParamNames))

-----------------------------------------------------------------------------
(* Properties *)

ConfigTypeOK ==
    /\ cfg.loaded \in BOOLEAN /\ DOMAIN cfg.tree = DOMAIN cfg.at
    /\ \A n \in DOMAIN cfg.at: cfg.at[n] \in 0..Len(cfg.tree[n])
    /\ reading.line \in 0..(Len(file) + 1)
    /\ asked.opens \in 0..MaxOpens

\* The definitions of the section, from the joined lines of the file alone.
LogicalLines ==
    LET rest[i \in 1..(Len(file) + 1)] ==
            IF AtEnd(i) THEN <<>> ELSE <<OneLine(i)>> \o rest[OneLine(i).next]
    IN rest[1]

Definitions(section) ==
    LET l == LogicalLines
        named == {i \in 1..Len(l): ~l[i].indent /\ section \in ToSet(l[i].words)}
        first == CHOOSE i \in named: \A j \in named: i <= j
        body == {i \in (first + 1)..Len(l): \A j \in (first + 1)..i: l[j].indent}
    IN [k \in 1..Cardinality(body) |-> l[first + k]]

\* The parameters are what definitions d make of an older tree: of each its first
\* definition, or its last one when duplicates are allowed; the name that is kept is
\* the first one defined again.
ReadAs(d, old) ==
    LET Defs(n) == {i \in 1..Len(d): d[i].words[1] = n}
        Anew(i) == \/ d[i].words[1] \in DOMAIN old
                   \/ \E j \in 1..(i - 1): d[j].words[1] = d[i].words[1]
    IN /\ DOMAIN cfg.tree = DOMAIN old \cup {d[i].words[1]: i \in 1..Len(d)}
       /\ \A n \in DOMAIN cfg.tree:
             LET new == {i \in Defs(n): IF asked.allow THEN \A j \in Defs(n): j <= i
                                        ELSE n \notin DOMAIN old /\ \A j \in Defs(n): i <= j}
             IN cfg.tree[n] = (IF new = {} THEN old[n]
                               ELSE ValuesOf(d[CHOOSE i \in new: TRUE].words))
       /\ cfg.bad = (IF asked.allow \/ \A i \in 1..Len(d): ~Anew(i) THEN NoName
                     ELSE d[CHOOSE i \in 1..Len(d):
                               Anew(i) /\ \A j \in 1..(i - 1): ~Anew(j)].words[1])

\* After an open a parameter has its first definition, or its last one when
\* duplicates are allowed; earlier parameters stay when they are not to be
\* destroyed; and the first name defined twice is kept (ucfg.c).
ConfigIsRead ==
    Idle /\ cfg.loaded /\ cfg.rc = "0" /\ checked = NoName =>
        ReadAs(Definitions(asked.section), IF asked.destroy THEN <<>> ELSE asked.before)

\* A loop over a parameter shows the values of one list, all of them, in
\* their order: the client's own when it has one (ucfg_clt.c).  A prefixed
\* parameter without values is excluded: get_next then ends the loop after
\* the first value of the plain parameter.
ValuesAreShown ==
    values.over /\ values.param # NoName /\ cfg.loaded =>
        LET p == values.param
            own == Prefixed[p] IN
        IF own \in DOMAIN cfg.tree
        THEN cfg.tree[own] = <<>> \/ values.shown = cfg.tree[own]
        ELSE values.shown = (IF p \in DOMAIN cfg.tree THEN cfg.tree[p] ELSE <<>>)

ConfigIsTrue == ConfigIsRead /\ ValuesAreShown
=============================================================================
