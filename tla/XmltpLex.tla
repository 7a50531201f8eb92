------------------------------ MODULE XmltpLex ------------------------------
(***************************************************************************)
(* The reading half of XMLTP: the parser context that receives a stream in *)
(* a buffer (xmltp/xmltp_ctx.c), the lexer that makes tokens of it         *)
(* (xmltp_lex.c), and the escapes of the values in it (xmltp_encoder.c).   *)
(*                                                                         *)
(* A stream is a sequence of characters, where the name of a tag is one    *)
(* character, and so is the name of an escape.  The sender composes a      *)
(* message only when it has the answer to the last one, and a receiver may *)
(* find it cut at any place.                                               *)
(***************************************************************************)
EXTENDS Integers, Sequences, SequencesExt

CONSTANTS
  Letters,    \* bound: the characters of the values
  MaxLength,  \* bound: how long a value is
  MaxString,  \* MAX_ONE_STRING - 1
  MaxChunk,   \* bound: how much recv() returns
  Timeout,    \* timeout_recv in ticks; 0 is none
  MaxMessages \* bound: messages of the sender

ASSUME XmltpLexAssumption ==
  /\ MaxLength \in Nat /\ MaxString \in Nat \ {0} /\ MaxChunk \in Nat \ {0}
  /\ Timeout \in Nat /\ MaxMessages \in Nat

VARIABLES
  net,    \* the characters that are not received yet
  peer,   \* "open", or "closed" behind what is in net
  ctx,    \* the parser context
  sender  \* [sent : how many messages, value : of the last one]

lexVars == <<net, peer, ctx, sender>>

Values == UNION {[1..n -> Letters] : n \in 0..MaxLength}

-----------------------------------------------------------------------------
(* Escapes                                                                 *)

Escapes == [c \in {"<", ">", "&"} |-> IF c = "<" THEN "l" ELSE IF c = ">" THEN "g" ELSE "m"]

\* xmltp_encode
Encode(value) ==
  FlattenSeq([i \in DOMAIN value |->
    IF value[i] \in DOMAIN Escapes THEN <<"&", Escapes[value[i]], ";">> ELSE <<value[i]>>])

\* xmltp_decode: an ampersand that begins no escape is copied.
Decode(text) ==
  LET escaped(i) == {c \in DOMAIN Escapes :
                       i + 2 <= Len(text) /\ SubSeq(text, i, i + 2) = <<"&", Escapes[c], ";">>}
      f[i \in 1..(Len(text) + 1)] ==
        IF i > Len(text) THEN << >>
        ELSE IF escaped(i) # {} THEN <<CHOOSE c \in escaped(i) : TRUE>> \o f[i + 3]
        ELSE <<text[i]>> \o f[i + 1]
  IN f[1]

-----------------------------------------------------------------------------
(* The sender                                                              *)

\* The table of the tags: those that are written without a value between them,
\* and the tag of a value.
Follows == [tag \in {"row", "col", "str", "/str", "EOT"} |-> IF tag = "str" THEN "value" ELSE "no"]

Between(tag) == <<"<", tag, ">">>

Written(value) ==
  Between("row") \o <<" ">> \o Between("col") \o Between("str") \o Encode(value)
    \o Between("/str") \o Between("EOT") \o <<" ">>

Expected(value) ==
  << <<"tag", "row">>, <<"tag", "col">>, <<"tag", "str">>, <<"value", value>>,
     <<"tag", "/str">>, <<"tag", "EOT">> >>

-----------------------------------------------------------------------------
(* The context                                                             *)

\* xmltp_ctx_reset_lexer_context: the buffer is dropped.
ResetContext ==
  [buf |-> << >>, at |-> "begin", text |-> << >>, prev |-> "", trunc |-> FALSE,
   follows |-> "no", tokens |-> << >>, errs |-> 0, eof |-> 0, waited |-> 0]

LexInit ==
  /\ net = << >> /\ peer = "open" /\ ctx = ResetContext
  /\ sender = [sent |-> 0, value |-> << >>]

Reading == ctx.at \in {"begin", "tag", "value"}

\* The sender's next message, while the reader waits for it.
SendMessage(value) ==
  /\ peer = "open" /\ net = << >> /\ ctx.at = "begin" /\ ctx.tokens = << >> /\ ctx.buf = << >>
  /\ sender.sent < MaxMessages
  /\ sender' = [sent |-> sender.sent + 1, value |-> value]
  /\ net' = Written(value)
  /\ UNCHANGED <<peer, ctx>>

\* A peer that writes a tag that the table does not have.
SendUnknown ==
  /\ peer = "open" /\ net = << >> /\ ctx.at = "begin" /\ ctx.tokens = << >> /\ ctx.buf = << >>
  /\ sender.sent < MaxMessages
  /\ sender' = [sender EXCEPT !.sent = @ + 1]
  /\ net' = Between("new")
  /\ UNCHANGED <<peer, ctx>>

PeerCloses ==
  /\ peer = "open"
  /\ peer' = "closed"
  /\ \E n \in 0..Len(net) : net' = SubSeq(net, 1, n)
  /\ UNCHANGED <<ctx, sender>>

\* sf_recv_from_socket: the buffer is filled when it is used up.
Recv ==
  /\ Reading /\ ctx.buf = << >> /\ net # << >>
  /\ \E n \in 1..MaxChunk :
       /\ n <= Len(net)
       /\ ctx' = [ctx EXCEPT !.buf = SubSeq(net, 1, n)]
       /\ net' = SubSeq(net, n + 1, Len(net))
  /\ UNCHANGED <<peer, sender>>

\* No character: the end of the stream between two tags is the token 0; within
\* a tag or a value it is an error.
NoChar(eof) ==
  ctx' = [ctx EXCEPT !.at = "failed", !.eof = eof,
                     !.errs = @ + (IF ctx.at = "begin" THEN 1 ELSE 2)]

RecvEnds ==
  /\ Reading /\ ctx.buf = << >> /\ net = << >> /\ peer = "closed"
  /\ NoChar(1)
  /\ UNCHANGED <<net, peer, sender>>

\* A second of waiting: recv() returns EAGAIN, and the time that is left is
\* computed again; without a timeout recv() is repeated for ever.
Wait ==
  /\ Timeout > 0
  /\ Reading /\ ctx.buf = << >> /\ net = << >> /\ peer = "open"
  /\ IF ctx.waited >= Timeout THEN NoChar(2) ELSE ctx' = [ctx EXCEPT !.waited = @ + 1]
  /\ UNCHANGED <<net, peer, sender>>

-----------------------------------------------------------------------------
(* The lexer                                                               *)

\* A string that is too long is cut, which counts as an error.
Kept(c) ==
  IF Len(ctx.text) >= MaxString
  THEN [ctx EXCEPT !.trunc = TRUE, !.errs = IF ctx.trunc THEN @ ELSE @ + 1]
  ELSE [ctx EXCEPT !.text = Append(@, c)]

\* yylex1 between two tokens: white space is skipped.
BeginChar(c) ==
  IF c = " " THEN ctx
  ELSE IF c = "<" THEN [ctx EXCEPT !.at = "tag", !.text = << >>, !.trunc = FALSE]
  ELSE [ctx EXCEPT !.tokens = Append(@, <<"char", c>>)]

\* sf_match_tag: the parser takes the negative token of a tag that the table
\* does not have for the end of the input, a syntax error.
TagChar(c) ==
  IF c # ">" THEN Kept(c)
  ELSE IF ctx.text = << >> \/ ctx.text[1] \notin DOMAIN Follows
  THEN [ctx EXCEPT !.at = "failed", !.errs = @ + 1]
  ELSE LET tag == ctx.text[1]
       IN [ctx EXCEPT !.follows = Follows[tag], !.tokens = Append(@, <<"tag", tag>>),
                      !.text = << >>, !.prev = "", !.trunc = FALSE,
                      !.at = IF tag = "EOT" THEN "done"
                             ELSE IF Follows[tag] = "value" THEN "value" ELSE "begin"]

\* The context keeps the value for the parser, whose callback decodes it.
Valued == [ctx EXCEPT !.text = << >>, !.trunc = FALSE,
                      !.tokens = Append(@, <<"value", Decode(ctx.text)>>)]

\* sf_get_value: the bracket that ends a value begins the next tag.
ValueChar(c) ==
  IF c = "<" /\ ctx.prev # "\\" THEN [Valued EXCEPT !.at = "tag", !.follows = "ended"]
  ELSE [Kept(c) EXCEPT !.prev = c]

LexChar ==
  /\ Reading /\ ctx.buf # << >>
  /\ LET c == Head(ctx.buf)
         next == CASE ctx.at = "begin" -> BeginChar(c)
                   [] ctx.at = "tag" -> TagChar(c)
                   [] ctx.at = "value" -> ValueChar(c)
     IN ctx' = [next EXCEPT !.buf = Tail(ctx.buf)]
  /\ UNCHANGED <<net, peer, sender>>

\* The message is answered, and the reader waits for the next one; if parsing
\* failed it gives up the connection.
NextMessage ==
  /\ ctx.at = "done"
  /\ ctx' = ResetContext
  /\ UNCHANGED <<net, peer, sender>>

-----------------------------------------------------------------------------
LexSteps == Recv \/ RecvEnds \/ Wait \/ LexChar

LexNext ==
  \/ \E value \in Values : SendMessage(value)
  \/ SendUnknown \/ PeerCloses \/ LexSteps \/ NextMessage

LexSpec == LexInit /\ [][LexNext]_lexVars

LexTypeOK ==
  /\ ctx.at \in {"begin", "tag", "value", "done", "failed"}
  /\ Len(ctx.buf) <= MaxChunk /\ Len(ctx.text) <= MaxString
  /\ ctx.follows \in {"no", "value", "ended"} /\ ctx.eof \in 0..2
  /\ ctx.waited \in 0..Timeout

-----------------------------------------------------------------------------
(* Properties                                                              *)

\* A message that is read without an error is the message that was written,
\* however the stream was cut.  (The value may not end with a backslash, which
\* hides the bracket behind it.)
Backslashed(value) == value # << >> /\ value[Len(value)] = "\\"

ReadsWhatWasWritten ==
  ctx.at = "done" /\ ctx.errs = 0 /\ ~Backslashed(sender.value) =>
    ctx.tokens = Expected(sender.value)
=============================================================================
