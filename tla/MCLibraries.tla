---------------------------- MODULE MCLibraries ----------------------------
EXTENDS Libraries

\* The recovery table of the client library: a failed call is repeated once, a
\* failed login never; only a return status keeps the connection.
MCReco == [c \in Classes |-> [reset |-> c # "STATUS", noRetry |-> c = "LOGIN", maxRetry |-> 1]]

\* Two sections on one line, a parameter with another value behind a comment, a
\* continued line, a comment and the prefixed parameter.
Line(indent, words, cont) == [indent |-> indent, words |-> words, cont |-> cont]
MCLines ==
  { Line(FALSE, <<"s">>, FALSE), Line(FALSE, <<"t", "s">>, FALSE),
    Line(TRUE, <<"a", "1">>, FALSE), Line(TRUE, <<"a", "x", "#", "2">>, FALSE),
    Line(TRUE, <<"p.a", "2">>, TRUE), Line(TRUE, <<"#">>, FALSE),
    Line(TRUE, <<"p.a", "2", "1">>, FALSE) }
MCPrefixed == [n \in {"a"} |-> "p.a"]

\* Numbers; names, dates and strings.
MCAlphabets ==
  { {"letter", "digit", "sign", "dot", "space", "comma"},
    {"letter", "digit", "at", "equal", "space", "comma", "quote"},
    {"letter", "other", "open", "close", "space", "comma"} }

\* A letter, and the characters that the encoding and the lexer treat.
MCLetters == {"l", ";", "&", "<", "\\"}
=============================================================================
