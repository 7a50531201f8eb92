--------------------------- MODULE LibrariesProofs ---------------------------
(***************************************************************************)
(* Proofs about the parts of Libraries: each property is proved of the     *)
(* part it is about, for any value of its constants, and then of the whole *)
(* specification, whose steps are steps of one part that leave the others  *)
(* alone.                                                                  *)
(***************************************************************************)
EXTENDS Libraries, FiniteSetTheorems, SequenceTheorems, WellFoundedInduction, TLAPS

-----------------------------------------------------------------------------
(* Sockets: who owns a descriptor, and which bytes are left                *)

SockAnswer == {"none", "OK", "RECONNECT_AFTER_RESET", "ALREADY_CONNECTED", "CONNECT_FAILED",
               "FAILED_AFTER_RETRY", "CREATE_FAILED", "DISCONNECT_BY_PEER", "SEND_FAILED",
               "RECEIVE_FAILED"}
SockCall == [op : {"none", "connect", "send", "recv"}, phase : {"idle", "connecting", "transfer"},
             left : Nat, retry : Nat, tries : Nat, flag : BOOLEAN, answer : SockAnswer]
SockTyped ==
  /\ sock \in [fd : Nat, max : Int]
  /\ sockCall \in SockCall
  /\ sent \in Seq(Nat)
  /\ opened \in SUBSET (Nat \ {0}) /\ IsFiniteSet(opened)
  /\ listening \in [fd : Nat, clients : SUBSET (Nat \ {0})]

\* A descriptor has one owner, and an object that is connecting has none.
OwnerInv ==
  /\ DescriptorsAreOwned
  /\ sock.fd # 0 => sock.fd # listening.fd /\ sock.fd \notin listening.clients
  /\ sock.max = NoObject \/ sockCall.phase = "connecting" => sock.fd = 0
  /\ sockCall.phase # "idle" => sock.max # NoObject

\* While a send runs, the bytes that are left are those behind the ones sent.
BytesInv ==
  /\ BytesAreSentOnce
  /\ sockCall.op = "send" /\ sockCall.phase # "idle" =>
       sockCall.left \in 1..MessageLength /\ Len(sent) = MessageLength - sockCall.left
  /\ sockCall.phase # "idle" => sockCall.answer = "none"

SockInv == SockTyped /\ OwnerInv /\ BytesInv

\* A set of numbers that is not empty has a least one.
LEMMA LeastNumber ==
  ASSUME NEW S, S \subseteq Nat, S # {}
  PROVE  \E f \in S : \A g \in S : f <= g
<1>1. OpToRel(<, Nat) = {ss \in Nat \X Nat : ss[1] < ss[2]}
  BY Zenon DEF OpToRel
<1>2. \E f \in S : \A g \in S : ~(<<g, f>> \in OpToRel(<, Nat))
  BY WFMin, NatLessThanWellFounded, Zenon
<1>3. \E f \in S : \A g \in S : ~(<<g, f>> \in {ss \in Nat \X Nat : ss[1] < ss[2]})
  BY <1>1, <1>2, Zenon
<1>4. \A f, g \in S : ~(<<g, f>> \in {ss \in Nat \X Nat : ss[1] < ss[2]}) => f <= g
  OBVIOUS
<1>5. QED BY <1>3, <1>4, Zenon

\* The system has a free descriptor to give.
LEMMA NewFdFacts ==
  ASSUME IsFiniteSet(opened)
  PROVE  NewFd \in Nat \ {0} /\ NewFd \notin opened
<1> DEFINE n == Cardinality(opened)
           free == (1..(n + 1)) \ opened
<1>1. n \in Nat
  BY FS_CardinalityType
<1>2. free # {}
  <2>1. SUFFICES ASSUME 1..(n + 1) \subseteq opened PROVE FALSE
    OBVIOUS
  <2>2. Cardinality(1..(n + 1)) <= n
    BY <2>1, FS_Subset
  <2>3. Cardinality(1..(n + 1)) = n + 1
    BY <1>1, FS_Interval
  <2>4. QED BY <1>1, <2>2, <2>3
<1>3. PICK fd1 \in free : \A g \in free : fd1 <= g
  <2>1. free \subseteq Nat
    BY <1>1
  <2>2. QED BY <1>2, <2>1, LeastNumber
<1>4. fd1 \in 1..(n + 1) /\ fd1 \notin opened /\ \A lower \in 1..(fd1 - 1) : lower \in opened
  BY <1>1, <1>3
<1>5. NewFd \in 1..(n + 1) /\ NewFd \notin opened
  BY <1>4 DEF NewFd
<1>6. QED BY <1>1, <1>5

LEMMA SockInitInv == SockInit => SockInv
<1> SUFFICES ASSUME SockInit PROVE SockInv
  OBVIOUS
<1> USE DEF SockInit, NoSockCall
<1>1. SockTyped
  BY FS_EmptySet DEF SockTyped, SockCall, SockAnswer, NoObject
<1>2. OwnerInv
  BY DEF OwnerInv, DescriptorsAreOwned
<1>3. BytesInv
  BY DEF BytesInv, BytesAreSentOnce
<1>4. QED BY <1>1, <1>2, <1>3 DEF SockInv

\* The bytes that one send takes are the next ones of the message.
LEMMA TakenFacts ==
  ASSUME SockInv, sockCall.op = "send", sockCall.phase = "transfer", NEW k \in 1..sockCall.left
  PROVE  /\ sent \o Taken(k) \in Seq(Nat)
         /\ Len(sent \o Taken(k)) = MessageLength - sockCall.left + k
         /\ \A i \in 1..Len(sent \o Taken(k)) : (sent \o Taken(k))[i] = i
<1>1. /\ sockCall.left \in 1..MessageLength /\ Len(sent) = MessageLength - sockCall.left
      /\ sent \in Seq(Nat) /\ \A i \in 1..Len(sent) : sent[i] = i
      /\ MessageLength \in Nat
  BY SockAssumption DEF SockInv, SockTyped, BytesInv, BytesAreSentOnce
<1>2. /\ Taken(k) \in Seq(Nat) /\ Len(Taken(k)) = k
      /\ \A i \in 1..k : Taken(k)[i] = MessageLength - sockCall.left + i
  BY <1>1 DEF Taken
<1>3. /\ sent \o Taken(k) \in Seq(Nat) /\ Len(sent \o Taken(k)) = Len(sent) + Len(Taken(k))
      /\ \A i \in 1..(Len(sent) + Len(Taken(k))) :
           (sent \o Taken(k))[i] = IF i <= Len(sent) THEN sent[i] ELSE Taken(k)[i - Len(sent)]
  BY <1>1, <1>2, ConcatProperties
<1>4. ASSUME NEW i \in 1..(Len(sent) + k) PROVE (sent \o Taken(k))[i] = i
  <2> DEFINE m == Len(sent)
  <2>1. m \in Nat /\ i \in 1..(m + k) /\ k \in Nat /\ m = MessageLength - sockCall.left
    BY <1>1
  <2>2. (sent \o Taken(k))[i] = IF i <= m THEN sent[i] ELSE Taken(k)[i - m]
    BY <1>2, <1>3
  <2>3. \A j \in 1..k : Taken(k)[j] = m + j
    BY <1>1, <1>2
  <2>4. \A j \in 1..m : sent[j] = j
    BY <1>1
  <2> HIDE DEF m
  <2>5. CASE i <= m
    BY <2>1, <2>2, <2>4, <2>5
  <2>6. CASE ~(i <= m)
    <3>1. i - m \in 1..k
      BY <2>1, <2>6
    <3>2. Taken(k)[i - m] = m + (i - m)
      BY <2>3, <3>1
    <3>3. QED BY <2>1, <2>2, <2>6, <3>2
  <2>7. QED BY <2>5, <2>6
<1>5. QED BY <1>1, <1>2, <1>3, <1>4


\* The steps of the socket, by what they do to the descriptors.
SockCalls == ConnectCall \/ (\E flag \in BOOLEAN : SendCall(flag) \/ RecvCall(flag))
Transfers == SendTry \/ SendRefused \/ TurnsEnd \/ RecvTry

\* The counters of a call go on, or stop where there is no limit.
LEMMA CountersFacts ==
  ASSUME sockCall \in SockCall
  PROVE  AnotherTurn \in Nat /\ AnotherAttempt \in Nat
  BY DEF SockCall, AnotherTurn, AnotherAttempt

\* The call is answered: it ends, and what it was about stays.
LEMMA SockAnswersFacts ==
  ASSUME sockCall \in SockCall, NEW a \in SockAnswer, SockAnswers(a)
  PROVE  /\ sockCall' \in SockCall
         /\ sockCall'.phase = "idle" /\ sockCall'.answer = a
         /\ sockCall'.op = sockCall.op /\ sockCall'.left = sockCall.left
<1>1. sockCall' = [sockCall EXCEPT !.phase = "idle", !.answer = a]
  BY Zenon DEF SockAnswers
<1>2. QED BY <1>1 DEF SockCall

\* A turn of the loop ends: the call waits for its next turn, or was the last.
LEMMA NextTurnFacts ==
  ASSUME sockCall \in SockCall, NEW left \in Nat, NextTurn(left)
  PROVE  /\ sockCall' \in SockCall
         /\ sockCall'.op = sockCall.op /\ sockCall'.left = left
         /\ \/ sockCall'.phase = "idle" /\ sockCall'.answer = "FAILED_AFTER_RETRY"
            \/ sockCall'.phase = sockCall.phase /\ sockCall'.answer = sockCall.answer
<1>1. CASE LastTurn
  <2>1. sockCall' = [sockCall EXCEPT !.phase = "idle", !.left = left,
                                     !.answer = "FAILED_AFTER_RETRY"]
    BY <1>1, Zenon DEF NextTurn
  <2>2. QED BY <2>1 DEF SockCall, SockAnswer
<1>2. CASE ~LastTurn
  <2>1. sockCall' = [sockCall EXCEPT !.retry = AnotherTurn, !.left = left]
    BY <1>2, Zenon DEF NextTurn
  <2>2. QED BY <2>1, CountersFacts DEF SockCall
<1>3. QED BY <1>1, <1>2

\* A call begins.
LEMMA BeginFacts ==
  ASSUME NEW op \in {"none", "connect", "send", "recv"}, NEW left \in Nat, NEW flag \in BOOLEAN,
         NEW phase \in {"idle", "connecting", "transfer"}, Begin(op, phase, left, flag)
  PROVE  /\ sockCall.phase = "idle"
         /\ sockCall' \in SockCall
         /\ sockCall'.op = op /\ sockCall'.phase = phase /\ sockCall'.left = left
         /\ sockCall'.answer = "none"
  BY DEF Begin, Running, NoSockCall, SockCall, SockAnswer

LEMMA AnswersAreAnswers ==
  /\ {"OK", "CONNECT_FAILED", "FAILED_AFTER_RETRY", "CREATE_FAILED", "DISCONNECT_BY_PEER",
      "SEND_FAILED", "RECEIVE_FAILED"} \subseteq SockAnswer
  /\ Completed \in {"OK", "RECONNECT_AFTER_RESET"} /\ Completed \in SockAnswer
  BY DEF SockAnswer, Completed

\* A descriptor the system gives is new; closing it again leaves what was open.
LEMMA OpenFacts ==
  ASSUME SockTyped
  PROVE  /\ NewFd \in Nat \ {0} /\ NewFd \notin opened
         /\ opened \cup {NewFd} \in SUBSET (Nat \ {0}) /\ IsFiniteSet(opened \cup {NewFd})
         /\ Closed(opened \cup {NewFd}, NewFd) = opened
         /\ \A f : Closed(opened, f) \in SUBSET (Nat \ {0}) /\ IsFiniteSet(Closed(opened, f))
<1>1. opened \in SUBSET (Nat \ {0}) /\ IsFiniteSet(opened)
  BY DEF SockTyped
<1>2. NewFd \in Nat \ {0} /\ NewFd \notin opened
  BY <1>1, NewFdFacts
<1>3. IsFiniteSet(opened \cup {NewFd})
  BY <1>1, FS_AddElement
<1>4. Closed(opened \cup {NewFd}, NewFd) = opened
  BY <1>2 DEF Closed
<1>5. ASSUME NEW f PROVE Closed(opened, f) \in SUBSET (Nat \ {0}) /\ IsFiniteSet(Closed(opened, f))
  BY <1>1, FS_RemoveElement DEF Closed
<1>6. QED BY <1>1, <1>2, <1>3, <1>4, <1>5

\* What connecting does: it succeeds, with a descriptor that is new, or fails,
\* with none; the call goes on or is answered.
LEMMA ConnectTryFacts ==
  ASSUME SockInv, ConnectTry
  PROVE  /\ sockCall.phase = "connecting" /\ sockCall' \in SockCall
         /\ sockCall'.op = sockCall.op /\ sockCall'.left = sockCall.left
         /\ \/ /\ opened' = opened \cup {NewFd} /\ sock' = [sock EXCEPT !.fd = NewFd]
               /\ sockCall'.phase # "connecting"
            \/ opened' = opened /\ sock' = sock
         /\ \/ sockCall'.phase # "idle" /\ sockCall'.answer = sockCall.answer
            \/ sockCall'.phase = "idle" /\ sockCall.op = "connect"
            \/ sockCall'.phase = "idle" /\ sockCall'.answer = "FAILED_AFTER_RETRY"
<1>1. sockCall \in SockCall /\ SockTyped
  BY DEF SockInv, SockTyped
<1>2. sockCall.phase = "connecting"
  BY DEF ConnectTry
<1> DEFINE Facts(fds, ob) ==
             /\ sockCall' \in SockCall
             /\ sockCall'.op = sockCall.op /\ sockCall'.left = sockCall.left
             /\ opened' = fds /\ sock' = ob
             /\ \/ sockCall'.phase # "idle" /\ sockCall'.answer = sockCall.answer
                \/ sockCall'.phase = "idle" /\ sockCall.op = "connect"
                \/ sockCall'.phase = "idle" /\ sockCall'.answer = "FAILED_AFTER_RETRY"
<1>3. CASE /\ opened' = opened \cup {NewFd}
           /\ sock' = [sock EXCEPT !.fd = NewFd]
           /\ IF sockCall.op = "connect" THEN SockAnswers("OK")
              ELSE sockCall' = Reconnected
  <2>1. CASE sockCall.op = "connect"
    <3>1. SockAnswers("OK") /\ "OK" \in SockAnswer
      BY <1>3, <2>1, AnswersAreAnswers
    <3>2. QED BY <1>1, <1>2, <1>3, <2>1, <3>1, SockAnswersFacts
  <2>2. CASE sockCall.op # "connect"
    <3>1. sockCall' = [sockCall EXCEPT !.phase = "transfer", !.retry = AnotherTurn]
      BY <1>3, <2>2 DEF Reconnected
    <3>2. AnotherTurn \in Nat
      BY <1>1, CountersFacts
    <3>3. /\ sockCall' \in SockCall /\ sockCall'.op = sockCall.op /\ sockCall'.left = sockCall.left
          /\ sockCall'.phase = "transfer" /\ sockCall'.answer = sockCall.answer
      BY <1>1, <3>1, <3>2 DEF SockCall
    <3>4. QED BY <1>2, <1>3, <3>3
  <2>3. QED BY <2>1, <2>2
<1>4. ASSUME NEW a \in {"CONNECT_FAILED", "FAILED_AFTER_RETRY", "CREATE_FAILED"}, SockAnswers(a),
             sockCall.op # "connect" => a = "FAILED_AFTER_RETRY", opened' = opened, sock' = sock
      PROVE  Facts(opened, sock)
  <2>1. a \in SockAnswer
    BY <1>4, AnswersAreAnswers
  <2>2. QED BY <1>1, <1>4, <2>1, SockAnswersFacts
<1>5. CASE \E error \in {"TIMEDOUT", "REFUSED", "OTHER"}:
            LET again == /\ \/ error = "TIMEDOUT"
                            \/ error = "REFUSED" /\ sockCall.op # "connect"
                         /\ Unlimited \/ sockCall.tries < sock.max IN
            /\ opened' = Closed(opened \cup {NewFd}, NewFd)
            /\ IF again THEN sockCall' = [sockCall EXCEPT !.tries = AnotherAttempt]
               ELSE SockAnswers(IF sockCall.op = "connect" THEN "CONNECT_FAILED"
                            ELSE "FAILED_AFTER_RETRY")
            /\ UNCHANGED sock
  <2>1. opened' = opened /\ sock' = sock
    BY <1>1, <1>5, OpenFacts
  <2>2. \/ sockCall' = [sockCall EXCEPT !.tries = AnotherAttempt]
        \/ SockAnswers(IF sockCall.op = "connect" THEN "CONNECT_FAILED" ELSE "FAILED_AFTER_RETRY")
    BY <1>5, Zenon
  <2>3. CASE sockCall' = [sockCall EXCEPT !.tries = AnotherAttempt]
    <3>1. /\ sockCall' \in SockCall /\ sockCall'.op = sockCall.op /\ sockCall'.left = sockCall.left
          /\ sockCall'.phase = "connecting" /\ sockCall'.answer = sockCall.answer
      BY <1>1, <1>2, <2>3, CountersFacts DEF SockCall
    <3>2. QED BY <1>2, <2>1, <3>1
  <2>4. CASE SockAnswers(IF sockCall.op = "connect" THEN "CONNECT_FAILED" ELSE "FAILED_AFTER_RETRY")
    <3>1. Facts(opened, sock)
      BY <1>4, <2>1, <2>4
    <3>2. QED BY <1>2, <3>1
  <2>5. QED BY <2>2, <2>3, <2>4
<1>6. CASE /\ SockAnswers(IF sockCall.op = "connect" THEN "CREATE_FAILED" ELSE "FAILED_AFTER_RETRY")
           /\ UNCHANGED <<sock, opened>>
  <2>1. Facts(opened, sock)
    BY <1>4, <1>6
  <2>2. QED BY <1>2, <2>1
<1>7. QED BY <1>3, <1>5, <1>6, Zenon DEF ConnectTry

\* What one turn of a send or of a receive does to the call.
LEMMA TransferFacts ==
  ASSUME SockInv, Transfers
  PROVE  /\ sockCall.phase = "transfer" /\ sockCall' \in SockCall /\ sockCall'.op = sockCall.op
         /\ sock' = sock /\ opened' = opened /\ listening' = listening
         /\ sockCall'.phase \in {"idle", "transfer"}
         /\ sockCall'.phase = "transfer" => sockCall'.answer = "none"
<1>1. sockCall \in SockCall
  BY DEF SockInv, SockTyped
<1>2. sockCall.phase = "transfer" /\ sockCall.op \in {"send", "recv"}
  BY DEF Transfers, SendTry, SendRefused, TurnsEnd, RecvTry, InTurn
<1>3. sock' = sock /\ opened' = opened /\ listening' = listening
  BY DEF Transfers, SendTry, SendRefused, TurnsEnd, RecvTry
<1>4. sockCall.answer = "none" /\ sockCall.left \in Nat
  BY <1>1, <1>2 DEF SockInv, BytesInv, SockCall
<1>5. \/ \E a \in SockAnswer : SockAnswers(a)
      \/ \E left \in Nat : NextTurn(left)
  <2>1. CASE SendTry
    <3>1. \/ SockAnswers(Completed) \/ NextTurn(sockCall.left)
          \/ \E k \in 1..(sockCall.left - 1) : NextTurn(sockCall.left - k)
      BY <2>1 DEF SendTry
    <3>2. \A k \in 1..(sockCall.left - 1) : sockCall.left - k \in Nat
      BY <1>4
    <3>3. QED BY <1>4, <3>1, <3>2, AnswersAreAnswers
  <2>2. CASE SendRefused \/ TurnsEnd
    BY <2>2, AnswersAreAnswers DEF SendRefused, TurnsEnd
  <2>3. CASE RecvTry
    <3>1. \/ SockAnswers(Completed) \/ SockAnswers("RECEIVE_FAILED")
          \/ \E k \in 1..sockCall.left : NextTurn(sockCall.left - k)
      BY <2>3 DEF RecvTry
    <3>2. \A k \in 1..sockCall.left : sockCall.left - k \in Nat
      BY <1>4
    <3>3. QED BY <3>1, <3>2, AnswersAreAnswers
  <2>4. QED BY <2>1, <2>2, <2>3 DEF Transfers
<1>6. CASE \E a \in SockAnswer : SockAnswers(a)
  BY <1>1, <1>2, <1>3, <1>6, SockAnswersFacts
<1>7. CASE \E left \in Nat : NextTurn(left)
  BY <1>1, <1>2, <1>3, <1>4, <1>7, NextTurnFacts
<1>8. QED BY <1>5, <1>6, <1>7

\* A send whose peer has gone is answered, or closes its descriptor and
\* connects again.
LEMMA SendBreaksFacts ==
  ASSUME SockInv, SendBreaks
  PROVE  /\ sockCall.phase = "transfer" /\ sockCall' \in SockCall
         /\ sockCall'.op = "send" /\ sockCall'.left = sockCall.left
         /\ \/ /\ sockCall'.phase = "idle" /\ sockCall'.answer = "DISCONNECT_BY_PEER"
               /\ sock' = sock /\ opened' = opened
            \/ /\ sockCall'.phase = "connecting" /\ sockCall'.answer = sockCall.answer
               /\ sock' = [sock EXCEPT !.fd = 0] /\ opened' = Closed(opened, sock.fd)
<1>1. sockCall \in SockCall
  BY DEF SockInv, SockTyped
<1>2. sockCall.phase = "transfer" /\ sockCall.op = "send"
  BY DEF SendBreaks, InTurn
<1>3. CASE sockCall.flag
  <2>1. SockAnswers("DISCONNECT_BY_PEER") /\ sock' = sock /\ opened' = opened
    BY <1>3 DEF SendBreaks
  <2>2. QED BY <1>1, <1>2, <2>1, SockAnswersFacts, AnswersAreAnswers
<1>4. CASE ~sockCall.flag
  <2>1. /\ sockCall' = [sockCall EXCEPT !.phase = "connecting", !.tries = 0]
        /\ sock' = [sock EXCEPT !.fd = 0] /\ opened' = Closed(opened, sock.fd)
    BY <1>4 DEF SendBreaks
  <2>2. /\ sockCall' \in SockCall /\ sockCall'.op = sockCall.op /\ sockCall'.left = sockCall.left
        /\ sockCall'.phase = "connecting" /\ sockCall'.answer = sockCall.answer
    BY <1>1, <2>1 DEF SockCall
  <2>3. QED BY <1>2, <2>1, <2>2
<1>5. QED BY <1>3, <1>4

\* What the calls begin.
LEMMA SockCallsFacts ==
  ASSUME SockInv, SockCalls
  PROVE  /\ sockCall.phase = "idle" /\ sockCall' \in SockCall /\ sock.max # NoObject
         /\ sock' = sock /\ opened' = opened /\ listening' = listening /\ sent' = <<>>
         /\ \/ sockCall'.phase = "idle" /\ sockCall'.op = "connect"
            \/ /\ sockCall'.phase = "connecting" /\ sockCall'.op = "connect" /\ sock.fd = 0
               /\ sockCall'.answer = "none"
            \/ /\ sockCall'.phase = "transfer" /\ sock.fd # 0 /\ sockCall'.left = MessageLength
               /\ sockCall'.answer = "none"
<1>1. sock.fd # 0 => sock.max # NoObject
  BY DEF SockInv, OwnerInv
<1>2. MessageLength \in Nat
  BY SockAssumption
<1>3. CASE ConnectCall
  <2>1. CASE sock.fd # 0
    <3>1. /\ sockCall.phase = "idle" /\ sock.max # NoObject
          /\ sockCall' = [NoSockCall EXCEPT !.op = "connect", !.answer = "ALREADY_CONNECTED"]
          /\ sock' = sock /\ opened' = opened /\ listening' = listening /\ sent' = <<>>
      BY <1>3, <2>1 DEF ConnectCall, Running
    <3>2. sockCall' = [op |-> "connect", phase |-> "idle", left |-> 0, retry |-> 0, tries |-> 0,
                       flag |-> FALSE, answer |-> "ALREADY_CONNECTED"]
      BY <3>1 DEF NoSockCall
    <3>3. sockCall' \in SockCall /\ sockCall'.phase = "idle" /\ sockCall'.op = "connect"
      BY <3>2 DEF SockCall, SockAnswer
    <3>4. QED BY <3>1, <3>3
  <2>2. CASE sock.fd = 0
    <3>1. Begin("connect", "connecting", 0, FALSE) /\ sock.max # NoObject
      BY <1>3, <2>2 DEF ConnectCall
    <3>2. /\ sockCall.phase = "idle" /\ sockCall' \in SockCall
          /\ sockCall'.op = "connect" /\ sockCall'.phase = "connecting"
          /\ sockCall'.answer = "none"
      BY <3>1, BeginFacts
    <3>3. QED BY <1>3, <2>2, <3>1, <3>2 DEF ConnectCall
  <2>3. QED BY <2>1, <2>2
<1>4. ASSUME NEW flag \in BOOLEAN, SendCall(flag)
      PROVE  /\ sockCall.phase = "idle" /\ sockCall' \in SockCall
             /\ sockCall'.phase = "transfer" /\ sock.fd # 0 /\ sockCall'.left = MessageLength
             /\ sockCall'.answer = "none"
  <2>1. Begin("send", "transfer", MessageLength, flag)
    BY <1>4 DEF SendCall
  <2>2. QED BY <1>2, <1>4, <2>1, BeginFacts DEF SendCall
<1>5. ASSUME NEW flag \in BOOLEAN, RecvCall(flag)
      PROVE  /\ sockCall.phase = "idle" /\ sockCall' \in SockCall
             /\ sockCall'.phase = "transfer" /\ sock.fd # 0 /\ sockCall'.left = MessageLength
             /\ sockCall'.answer = "none"
  <2>1. Begin("recv", "transfer", MessageLength, flag)
    BY <1>5 DEF RecvCall
  <2>2. QED BY <1>2, <1>5, <2>1, BeginFacts DEF RecvCall
<1>6. CASE \E flag \in BOOLEAN : SendCall(flag) \/ RecvCall(flag)
  BY <1>1, <1>4, <1>5, <1>6 DEF SendCall, RecvCall
<1>7. QED BY <1>3, <1>6 DEF SockCalls

LEMMA SockTypedStep ==
  ASSUME SockInv, SockNext
  PROVE  SockTyped'
<1> USE SockAssumption DEF NoObject
<1>1. SockTyped
  BY DEF SockInv
<1>2. /\ NewFd \in Nat \ {0}
      /\ opened \cup {NewFd} \in SUBSET (Nat \ {0}) /\ IsFiniteSet(opened \cup {NewFd})
      /\ Closed(opened \cup {NewFd}, NewFd) = opened
      /\ \A f : Closed(opened, f) \in SUBSET (Nat \ {0}) /\ IsFiniteSet(Closed(opened, f))
  BY <1>1, OpenFacts
<1>3. ASSUME NEW max \in RetryLimits, CreateObject(max)
      PROVE  SockTyped'
  <2>1. sock' \in [fd : Nat, max : Int]
    BY <1>3 DEF CreateObject
  <2>2. QED BY <1>1, <1>3, <2>1 DEF CreateObject, SockTyped
<1>4. ASSUME NEW max \in RetryLimits, CreateFromFd(max)
      PROVE  SockTyped'
  <2>1. sock' \in [fd : Nat, max : Int]
    BY <1>2, <1>4 DEF CreateFromFd
  <2>2. QED BY <1>1, <1>2, <1>4, <2>1 DEF CreateFromFd, SockTyped
<1>5. CASE SockCalls
  <2>1. <<>> \in Seq(Nat)
    OBVIOUS
  <2>2. /\ sockCall' \in SockCall /\ sock' = sock /\ opened' = opened /\ listening' = listening
        /\ sent' = <<>>
    BY <1>5, SockCallsFacts
  <2>3. QED BY <1>1, <2>1, <2>2 DEF SockTyped
<1>6. CASE ConnectTry
  <2>1. sock' \in [fd : Nat, max : Int]
    BY <1>1, <1>2, <1>6, ConnectTryFacts DEF SockTyped
  <2>2. opened' \in SUBSET (Nat \ {0}) /\ IsFiniteSet(opened')
    <3>1. opened' = opened \cup {NewFd} \/ opened' = opened
      BY <1>6, ConnectTryFacts
    <3>2. QED BY <1>1, <1>2, <3>1 DEF SockTyped
  <2>3. sent' = sent /\ listening' = listening
    BY <1>6 DEF ConnectTry
  <2>4. QED BY <1>1, <1>6, <2>1, <2>2, <2>3, ConnectTryFacts DEF SockTyped
<1>7. CASE Disconnect
  <2>1. sock' \in [fd : Nat, max : Int]
    BY <1>1, <1>7 DEF Disconnect, SockTyped
  <2>2. QED BY <1>1, <1>2, <1>7, <2>1 DEF Disconnect, SockTyped
<1>8. CASE Transfers
  <2>1. sent' \in Seq(Nat)
    <3>1. CASE SendTry
      <4>1. sockCall.op = "send" /\ sockCall.phase = "transfer" /\ sockCall.left \in 1..MessageLength
        BY <3>1 DEF SendTry, InTurn, SockInv, BytesInv
      <4>2. \A k \in 1..sockCall.left : sent \o Taken(k) \in Seq(Nat)
        BY <4>1, TakenFacts
      <4>3. \/ sent' = sent
            \/ sent' = sent \o Taken(sockCall.left)
            \/ \E k \in 1..(sockCall.left - 1) : sent' = sent \o Taken(k)
        BY <3>1 DEF SendTry
      <4>4. sockCall.left \in 1..sockCall.left
            /\ \A k \in 1..(sockCall.left - 1) : k \in 1..sockCall.left
        BY <4>1
      <4>5. QED BY <1>1, <4>2, <4>3, <4>4 DEF SockTyped
    <3>2. CASE SendRefused \/ TurnsEnd \/ RecvTry
      BY <1>1, <3>2 DEF SendRefused, TurnsEnd, RecvTry, SockTyped
    <3>3. QED BY <1>8, <3>1, <3>2 DEF Transfers
  <2>2. QED BY <1>1, <1>8, <2>1, TransferFacts DEF SockTyped
<1>9. CASE SendBreaks
  <2>1. sock' \in [fd : Nat, max : Int]
    BY <1>1, <1>9, SendBreaksFacts DEF SockTyped
  <2>2. opened' \in SUBSET (Nat \ {0}) /\ IsFiniteSet(opened')
    <3>1. opened' = opened \/ opened' = Closed(opened, sock.fd)
      BY <1>9, SendBreaksFacts
    <3>2. QED BY <1>1, <1>2, <3>1 DEF SockTyped
  <2>3. sent' = sent /\ listening' = listening
    BY <1>9 DEF SendBreaks
  <2>4. QED BY <1>1, <1>9, <2>1, <2>2, <2>3, SendBreaksFacts DEF SockTyped
<1>10. CASE BindAndListen
  <2>1. listening' \in [fd : Nat, clients : SUBSET (Nat \ {0})]
    BY <1>1, <1>2, <1>10 DEF BindAndListen, SockTyped
  <2>2. QED BY <1>1, <1>2, <1>10, <2>1 DEF BindAndListen, SockTyped
<1>11. CASE AcceptConnection
  <2>1. listening' \in [fd : Nat, clients : SUBSET (Nat \ {0})]
    BY <1>1, <1>2, <1>11 DEF AcceptConnection, SockTyped
  <2>2. QED BY <1>1, <1>2, <1>11, <2>1 DEF AcceptConnection, SockTyped
<1>12. QED
  BY <1>3, <1>4, <1>5, <1>6, <1>7, <1>8, <1>9, <1>10, <1>11
     DEF SockNext, SockSteps, SockCalls, Transfers

\* A descriptor that is opened is given to one owner; one that is closed, or
\* whose connect failed, is taken from its owner in the same step.
LEMMA OwnerStep ==
  ASSUME SockInv, SockNext
  PROVE  OwnerInv'
<1> USE SockAssumption DEF NoObject
<1>1. /\ SockTyped /\ OwnerInv
      /\ sock \in [fd : Nat, max : Int] /\ listening \in [fd : Nat, clients : SUBSET (Nat \ {0})]
  BY DEF SockInv, SockTyped
<1>2. /\ NewFd \in Nat \ {0} /\ NewFd \notin opened
      /\ Closed(opened \cup {NewFd}, NewFd) = opened
  BY <1>1, OpenFacts
<1>3. ASSUME NEW max \in RetryLimits, CreateObject(max)
      PROVE  OwnerInv'
  BY <1>1, <1>2, <1>3 DEF CreateObject, OwnerInv, DescriptorsAreOwned
<1>4. ASSUME NEW max \in RetryLimits, CreateFromFd(max)
      PROVE  OwnerInv'
  BY <1>1, <1>2, <1>4 DEF CreateFromFd, OwnerInv, DescriptorsAreOwned
<1>5. CASE SockCalls
  BY <1>1, <1>5, SockCallsFacts DEF OwnerInv, DescriptorsAreOwned
<1>6. CASE ConnectTry
  <2>1. listening' = listening /\ sock.max # NoObject /\ sock.fd = 0
    BY <1>1, <1>6 DEF ConnectTry, OwnerInv
  <2>2. CASE opened' = opened /\ sock' = sock
    BY <1>1, <2>1, <2>2 DEF OwnerInv, DescriptorsAreOwned
  <2>3. CASE /\ opened' = opened \cup {NewFd} /\ sock' = [sock EXCEPT !.fd = NewFd]
             /\ sockCall'.phase # "connecting"
    <3>1. sock'.fd = NewFd /\ sock'.max = sock.max
      BY <1>1, <2>3
    <3>2. QED BY <1>1, <1>2, <2>1, <2>3, <3>1 DEF OwnerInv, DescriptorsAreOwned
  <2>4. QED BY <1>6, <2>2, <2>3, ConnectTryFacts
<1>7. CASE Disconnect
  <2>1. /\ sock'.fd = 0 /\ sock'.max = sock.max /\ listening' = listening
        /\ sockCall' = sockCall /\ opened' = Closed(opened, sock.fd) /\ sock.fd # 0
    BY <1>1, <1>7 DEF Disconnect
  <2>2. QED BY <1>1, <2>1 DEF OwnerInv, DescriptorsAreOwned, Closed
<1>8. CASE Transfers
  BY <1>1, <1>8, TransferFacts DEF OwnerInv, DescriptorsAreOwned
<1>9. CASE SendBreaks
  <2>1. listening' = listening
    BY <1>9 DEF SendBreaks
  <2>2. sockCall.phase = "transfer"
    BY <1>9, SendBreaksFacts
  <2>3. CASE sockCall'.phase = "idle" /\ sock' = sock /\ opened' = opened
    BY <1>1, <2>1, <2>2, <2>3 DEF OwnerInv, DescriptorsAreOwned
  <2>4. CASE sock' = [sock EXCEPT !.fd = 0] /\ opened' = Closed(opened, sock.fd)
    <3>1. sock'.fd = 0 /\ sock'.max = sock.max
      BY <1>1, <2>4
    <3>2. QED BY <1>1, <2>1, <2>2, <2>4, <3>1 DEF OwnerInv, DescriptorsAreOwned, Closed
  <2>5. QED BY <1>9, <2>3, <2>4, SendBreaksFacts
<1>10. CASE BindAndListen
  BY <1>1, <1>2, <1>10 DEF BindAndListen, OwnerInv, DescriptorsAreOwned
<1>11. CASE AcceptConnection
  BY <1>1, <1>2, <1>11 DEF AcceptConnection, OwnerInv, DescriptorsAreOwned
<1>12. QED
  BY <1>3, <1>4, <1>5, <1>6, <1>7, <1>8, <1>9, <1>10, <1>11
     DEF SockNext, SockSteps, SockCalls, Transfers

\* What one turn of the loop sends is added behind what was sent, and what is
\* left decreases by it; reconnecting changes neither.
LEMMA BytesStep ==
  ASSUME SockInv, SockNext
  PROVE  BytesInv'
<1> USE SockAssumption DEF NoObject
<1>1. SockTyped /\ BytesInv /\ sockCall \in SockCall
  BY DEF SockInv, SockTyped
<1>2. CASE \/ \E max \in RetryLimits : CreateObject(max) \/ CreateFromFd(max)
           \/ Disconnect \/ BindAndListen \/ AcceptConnection
  BY <1>1, <1>2 DEF BytesInv, BytesAreSentOnce, CreateObject, CreateFromFd, Disconnect,
     BindAndListen, AcceptConnection
<1>3. CASE SockCalls
  <2>1. sent' = <<>> /\ Len(<<>>) = 0 /\ MessageLength \in 1..MessageLength
    BY <1>3, SockCallsFacts
  <2>2. \/ sockCall'.phase = "idle" /\ sockCall'.op = "connect"
        \/ sockCall'.phase # "idle" /\ sockCall'.answer = "none" /\ sockCall'.op = "connect"
        \/ /\ sockCall'.phase # "idle" /\ sockCall'.answer = "none"
           /\ sockCall'.left = MessageLength
    BY <1>3, SockCallsFacts
  <2>3. QED BY <2>1, <2>2 DEF BytesInv, BytesAreSentOnce
<1>4. CASE ConnectTry
  <2>1. sent' = sent
    BY <1>4 DEF ConnectTry
  <2>2. QED BY <1>1, <1>4, <2>1, ConnectTryFacts DEF BytesInv, BytesAreSentOnce
<1>5. CASE SendTry
  <2>1. /\ sockCall.op = "send" /\ sockCall.phase = "transfer"
        /\ sockCall.left \in 1..MessageLength /\ Len(sent) = MessageLength - sockCall.left
        /\ sockCall.answer = "none"
    BY <1>1, <1>5 DEF SendTry, InTurn, BytesInv
  <2>2. \A k \in 1..sockCall.left :
          /\ Len(sent \o Taken(k)) = MessageLength - sockCall.left + k
          /\ \A i \in 1..Len(sent \o Taken(k)) : (sent \o Taken(k))[i] = i
    BY <2>1, TakenFacts
  <2>3. CASE sent' = sent \o Taken(sockCall.left) /\ SockAnswers(Completed)
    <3>1. sockCall.left \in 1..sockCall.left
          /\ MessageLength - sockCall.left + sockCall.left = MessageLength
      BY <2>1
    <3>2. Len(sent') = MessageLength /\ \A i \in 1..Len(sent') : sent'[i] = i
      BY <2>2, <2>3, <3>1
    <3>3. sockCall'.phase = "idle"
      BY <1>1, <2>3, SockAnswersFacts, AnswersAreAnswers
    <3>4. QED BY <3>2, <3>3 DEF BytesInv, BytesAreSentOnce
  <2>4. ASSUME NEW k \in 1..(sockCall.left - 1), sent' = sent \o Taken(k),
               NextTurn(sockCall.left - k)
        PROVE  BytesInv'
    <3>1. k \in 1..sockCall.left /\ sockCall.left - k \in 1..MessageLength
          /\ sockCall.left - k \in Nat
          /\ MessageLength - sockCall.left + k = MessageLength - (sockCall.left - k)
      BY <2>1
    <3>2. /\ Len(sent') = MessageLength - (sockCall.left - k)
          /\ \A i \in 1..Len(sent') : sent'[i] = i
      BY <2>2, <2>4, <3>1
    <3>3. /\ sockCall'.op = "send" /\ sockCall'.left = sockCall.left - k
          /\ \/ sockCall'.phase = "idle" /\ sockCall'.answer = "FAILED_AFTER_RETRY"
             \/ sockCall'.phase = "transfer" /\ sockCall'.answer = "none"
      BY <1>1, <2>1, <2>4, <3>1, NextTurnFacts
    <3>4. QED BY <3>1, <3>2, <3>3 DEF BytesInv, BytesAreSentOnce
  <2>5. CASE NextTurn(sockCall.left) /\ UNCHANGED sent
    <3>1. /\ sockCall'.op = "send" /\ sockCall'.left = sockCall.left
          /\ \/ sockCall'.phase = "idle" /\ sockCall'.answer = "FAILED_AFTER_RETRY"
             \/ sockCall'.phase = "transfer" /\ sockCall'.answer = "none"
      BY <1>1, <2>1, <2>5, NextTurnFacts
    <3>2. QED BY <1>1, <2>1, <2>5, <3>1 DEF BytesInv, BytesAreSentOnce
  <2>6. QED BY <1>5, <2>3, <2>4, <2>5 DEF SendTry
<1>6. CASE SendBreaks
  <2>1. sent' = sent
    BY <1>6 DEF SendBreaks
  <2>2. sockCall.op = "send"
    BY <1>6 DEF SendBreaks, InTurn
  <2>3. QED BY <1>1, <1>6, <2>1, <2>2, SendBreaksFacts DEF BytesInv, BytesAreSentOnce
<1>7. ASSUME SendRefused \/ TurnsEnd, NEW a \in {"SEND_FAILED", "FAILED_AFTER_RETRY"}, SockAnswers(a)
      PROVE  BytesInv'
  <2>1. sent' = sent
    BY <1>7 DEF SendRefused, TurnsEnd
  <2>2. sockCall'.phase = "idle" /\ sockCall'.answer = a
    BY <1>1, <1>7, SockAnswersFacts, AnswersAreAnswers
  <2>3. QED BY <1>1, <2>1, <2>2 DEF BytesInv, BytesAreSentOnce
<1>8. CASE RecvTry
  <2>1. sent' = sent /\ sockCall.op = "recv"
    BY <1>8 DEF RecvTry
  <2>2. sockCall'.op = "recv" /\ (sockCall'.phase = "idle" \/ sockCall'.answer = "none")
    BY <1>8, <2>1, TransferFacts DEF Transfers
  <2>3. QED BY <1>1, <2>1, <2>2 DEF BytesInv, BytesAreSentOnce
<1>9. SendRefused \/ TurnsEnd => BytesInv'
  BY <1>7 DEF SendRefused, TurnsEnd
<1>10. QED
  BY <1>2, <1>3, <1>4, <1>5, <1>6, <1>8, <1>9 DEF SockNext, SockSteps, SockCalls

LEMMA SockStep == SockInv /\ [SockNext]_sockVars => SockInv'
<1>1. CASE SockNext
  BY <1>1, SockTypedStep, OwnerStep, BytesStep DEF SockInv
<1>2. CASE UNCHANGED sockVars
  BY <1>2 DEF sockVars, SockInv, SockTyped, OwnerInv, DescriptorsAreOwned, BytesInv,
     BytesAreSentOnce
<1>3. QED BY <1>1, <1>2

\* A step of the libraries is a step of the socket or leaves it alone.
LEMMA SocketOfLib == [LibNext]_libVars => [SockNext]_sockVars
  BY DEF libVars, responseVars, dataVars, LibNext, SybPart, ClientPart, GatewayPart, ReaderPart,
     ListPart, ArrayPart, ConfigPart, SocketPart, TextPart, QueuePart, ForwardPart

\* No descriptor is lost or used after it was closed, and no byte of a message
\* is left out or sent twice, for any limits of the retries and without one, any length of a
\* message, and any number of calls, short sends, signals and reconnections.
THEOREM SocketsTrue == LibSpec => []SocketsAreTrue
<1>1. LibInit => SockInv
  BY SockInitInv DEF LibInit
<1>2. SockInv /\ [LibNext]_libVars => SockInv'
  BY SockStep, SocketOfLib
<1>3. SockInv => SocketsAreTrue
  BY DEF SockInv, OwnerInv, BytesInv, SocketsAreTrue
<1>4. QED BY <1>1, <1>2, <1>3, PTL DEF LibSpec

-----------------------------------------------------------------------------
(* Token sequences: what a parse and the other readings of a sequence make *)
(* of one more token                                                       *)

\* The tags, and those whose numbers the properties are about.
Plain == {"RESPONSE", "/ROWS", "NBROWS", "/SET", "/COLNAMES", "ROWS", "SETS", "SET", "COLNAMES",
          "COL", "ROW", "/ROW", "/SETS", "OUTPARAMS", "/OUTPARAMS", "MSGLIST", "/MSGLIST",
          "STATUS", "/RESPONSE"}

ValueTags == {"VAL", "PARAM", "MSG", "EOT"}

Token(V) == (Plain \cup ValueTags) \X V
Tokens(V) == Seq(Token(V))

\* An induction over numbers, for a set of them.
LEMMA AllNumbers ==
  ASSUME NEW S, 0 \in S, \A n \in Nat : n \in S => n + 1 \in S
  PROVE  Nat \subseteq S
<1> DEFINE bad == Nat \ S
<1>1. SUFFICES ASSUME bad # {} PROVE FALSE
  OBVIOUS
<1>2. PICK f \in bad : \A g \in bad : f <= g
  <2>1. bad \subseteq Nat
    OBVIOUS
  <2> HIDE DEF bad
  <2>2. QED BY <1>1, <2>1, LeastNumber
<1>3. f \in Nat /\ f \notin S /\ f # 0
  BY <1>2
<1>4. f - 1 \in Nat /\ ~(f <= f - 1) /\ f = (f - 1) + 1
  BY <1>3
<1>5. f - 1 \in S
  BY <1>2, <1>4
<1>6. QED BY <1>3, <1>4, <1>5

\* The states of a parse, one for each token that was read.
Run(f, state, tokens) ==
  f = [i \in 0..Len(tokens) |-> IF i = 0 THEN state ELSE Shift(f[i - 1], tokens[i][1])]

LEMMA RunExists ==
  ASSUME NEW state, NEW tokens, Len(tokens) \in Nat
  PROVE  \E f : Run(f, state, tokens)
<1> DEFINE P(f, n) == f = [i \in 0..n |-> IF i = 0 THEN state ELSE Shift(f[i - 1], tokens[i][1])]
           S == {n \in Nat : \E f : P(f, n)}
<1>1. 0 \in S
  <2> DEFINE f0 == [i \in 0..0 |-> state]
  <2>1. f0 = [i \in 0..0 |-> IF i = 0 THEN state ELSE Shift(f0[i - 1], tokens[i][1])]
    OBVIOUS
  <2>2. P(f0, 0)
    BY <2>1
  <2>3. QED BY <2>2
<1>2. ASSUME NEW n \in Nat, n \in S PROVE n + 1 \in S
  <2>1. PICK f : P(f, n)
    BY <1>2
  <2> DEFINE g == [i \in 0..(n + 1) |-> IF i = n + 1 THEN Shift(f[n], tokens[n + 1][1]) ELSE f[i]]
  <2>2. ASSUME NEW i \in 0..(n + 1)
        PROVE  g[i] = IF i = 0 THEN state ELSE Shift(g[i - 1], tokens[i][1])
    <3>1. CASE i = n + 1
      <4>1. i # 0 /\ n \in 0..(n + 1) /\ n # n + 1 /\ i - 1 = n
        BY <3>1
      <4>2. g[i] = Shift(f[n], tokens[n + 1][1]) /\ g[n] = f[n]
        BY <3>1, <4>1
      <4>3. QED BY <3>1, <4>1, <4>2
    <3>2. CASE i # n + 1
      <4>1. i \in 0..n
        BY <3>2
      <4>2. g[i] = f[i]
        BY <3>2
      <4>3. i # 0 => i - 1 \in 0..(n + 1) /\ i - 1 # n + 1
        BY <4>1
      <4>4. i # 0 => g[i - 1] = f[i - 1]
        BY <4>3
      <4>5. f[i] = IF i = 0 THEN state ELSE Shift(f[i - 1], tokens[i][1])
        BY <2>1, <4>1
      <4>6. QED BY <4>2, <4>4, <4>5
    <3>3. QED BY <3>1, <3>2
  <2>3. g = [i \in 0..(n + 1) |-> g[i]]
    OBVIOUS
  <2> HIDE DEF g
  <2>4. P(g, n + 1)
    BY <2>2, <2>3
  <2>5. QED BY <2>4
<1> HIDE DEF S
<1>3. Nat \subseteq S
  BY <1>1, <1>2, AllNumbers
<1> USE DEF S
<1>4. Len(tokens) \in S
  BY <1>3
<1>5. QED BY <1>4 DEF Run

LEMMA RunIsOne ==
  ASSUME NEW state, NEW s, NEW t, Len(s) \in Nat, Len(t) \in Nat, Len(s) <= Len(t),
         \A i \in 1..Len(s) : s[i] = t[i],
         NEW f, NEW g, Run(f, state, s), Run(g, state, t)
  PROVE  \A i \in 0..Len(s) : f[i] = g[i]
<1> DEFINE S == {n \in Nat : n \in 0..Len(s) => f[n] = g[n]}
<1>1. /\ \A i \in 0..Len(s) : f[i] = IF i = 0 THEN state ELSE Shift(f[i - 1], s[i][1])
      /\ \A i \in 0..Len(t) : g[i] = IF i = 0 THEN state ELSE Shift(g[i - 1], t[i][1])
  BY DEF Run
<1>2. 0 \in S
  BY <1>1
<1>3. ASSUME NEW n \in Nat, n \in S PROVE n + 1 \in S
  <2>1. SUFFICES ASSUME n + 1 \in 0..Len(s) PROVE f[n + 1] = g[n + 1]
    OBVIOUS
  <2>2. n \in 0..Len(s) /\ n + 1 \in 1..Len(s) /\ n + 1 \in 0..Len(t) /\ n + 1 # 0
        /\ (n + 1) - 1 = n
    BY <2>1
  <2>3. f[n] = g[n]
    BY <1>3, <2>2
  <2>4. f[n + 1] = Shift(f[n], s[n + 1][1]) /\ g[n + 1] = Shift(g[n], t[n + 1][1])
    BY <1>1, <2>1, <2>2
  <2>5. QED BY <2>2, <2>3, <2>4
<1> HIDE DEF S
<1>4. Nat \subseteq S
  BY <1>2, <1>3, AllNumbers
<1> USE DEF S
<1>5. QED BY <1>4

LEMMA ParseIsRun ==
  ASSUME NEW state, NEW tokens, Len(tokens) \in Nat
  PROVE  \E f : Run(f, state, tokens) /\ ParseFrom(state, tokens) = f[Len(tokens)]
<1> DEFINE c == CHOOSE f : f = [i \in 0..Len(tokens) |->
                                  IF i = 0 THEN state ELSE Shift(f[i - 1], tokens[i][1])]
<1>1. c = [i \in 0..Len(tokens) |-> IF i = 0 THEN state ELSE Shift(c[i - 1], tokens[i][1])]
  <2>1. \E f : f = [i \in 0..Len(tokens) |->
                      IF i = 0 THEN state ELSE Shift(f[i - 1], tokens[i][1])]
    <3>1. \E f : Run(f, state, tokens)
      BY RunExists
    <3>2. QED BY <3>1, Zenon DEF Run
  <2>2. QED BY <2>1, Zenon
<1>2. Run(c, state, tokens)
  BY <1>1, Zenon DEF Run
<1>3. ParseFrom(state, tokens) = c[Len(tokens)]
  BY Zenon DEF ParseFrom
<1> HIDE DEF c
<1>4. QED BY <1>2, <1>3

\* A parse of no token stays where it is; one more token is one step more.
LEMMA ParseEmpty == ASSUME NEW state PROVE ParseFrom(state, <<>>) = state
<1>1. Len(<<>>) = 0
  OBVIOUS
<1>2. PICK f : Run(f, state, <<>>) /\ ParseFrom(state, <<>>) = f[Len(<<>>)]
  BY <1>1, ParseIsRun
<1>3. f[0] = state
  BY <1>1, <1>2 DEF Run
<1>4. QED BY <1>1, <1>2, <1>3

LEMMA ParseAppend ==
  ASSUME NEW V, NEW s \in Tokens(V), NEW t \in Token(V), NEW state
  PROVE  ParseFrom(state, Append(s, t)) = Shift(ParseFrom(state, s), t[1])
<1> DEFINE u == Append(s, t)
           n == Len(s)
<1>1. n \in Nat /\ Len(u) = n + 1 /\ (\A i \in 1..n : s[i] = u[i]) /\ u[n + 1] = t
  BY AppendProperties DEF Tokens
<1> HIDE DEF u
<1>2. PICK f : Run(f, state, s) /\ ParseFrom(state, s) = f[n]
  BY <1>1, ParseIsRun
<1> HIDE DEF n
<1>3. PICK g : Run(g, state, u) /\ ParseFrom(state, u) = g[n + 1]
  BY <1>1, ParseIsRun
<1>4. Len(s) = n /\ n <= n + 1 /\ n \in 0..n
  BY <1>1 DEF n
<1>5. f[n] = g[n]
  <2>1. \A i \in 0..Len(s) : f[i] = g[i]
    <3>1. Len(s) \in Nat /\ Len(u) \in Nat /\ Len(s) <= Len(u) /\ \A i \in 1..Len(s) : s[i] = u[i]
      BY <1>1, <1>4
    <3>2. Run(f, state, s) /\ Run(g, state, u)
      BY <1>2, <1>3
    <3>3. QED BY <3>1, <3>2, RunIsOne
  <2>2. QED BY <1>4, <2>1
<1>6. g[n + 1] = Shift(g[n], u[n + 1][1])
  <2>1. n + 1 \in 0..Len(u) /\ n + 1 # 0 /\ (n + 1) - 1 = n
    BY <1>1
  <2>2. g[n + 1] = Shift(g[(n + 1) - 1], u[n + 1][1])
    BY <1>3, <2>1 DEF Run
  <2>3. QED BY <2>1, <2>2
<1>7. QED BY <1>1, <1>2, <1>3, <1>5, <1>6 DEF u

\* The rules, those that are written out and those that are alike.
FixedRules ==
  { <<"start", "RESPONSE", "response">>,
    <<"response", "SETS", "sets">>, <<"sets", "SET", "set">>,
    <<"set", "COLNAMES", "names">>, <<"names", "COL", "columns">>,
    <<"columns", "COL", "columns">>, <<"columns", "/COLNAMES", "named">>,
    <<"named", "ROWS", "rows">>, <<"rows", "ROW", "row">>, <<"row", "VAL", "values">>,
    <<"values", "VAL", "values">>, <<"values", "/ROW", "rows">>,
    <<"rows", "/ROWS", "counted">>, <<"counted", "NBROWS", "closing">>,
    <<"closing", "/SET", "more">>, <<"more", "SET", "set">>, <<"more", "/SETS", "results">>,
    <<"params", "PARAM", "values of params">>,
    <<"values of params", "PARAM", "values of params">>,
    <<"values of params", "/OUTPARAMS", "trailer">>,
    <<"msgs", "MSG", "more msgs">>, <<"more msgs", "MSG", "more msgs">>,
    <<"more msgs", "/MSGLIST", "totals">>, <<"total", "STATUS", "end">>,
    <<"end", "/RESPONSE", "eot">>, <<"eot", "EOT", "done">> }
OpenRules ==
  { <<s, "OUTPARAMS", "params">> : s \in {"response", "results"} }
  \cup { <<s, "MSGLIST", "msgs">> : s \in {"response", "results", "trailer"} }
  \cup UNION { { <<s, "TOTALROWS", "total">>, <<s, "STATUS", "end">> } :
               s \in {"response", "results", "trailer", "totals"} }

LEMMA RulesAre == Rules = FixedRules \cup OpenRules
  BY Zenon DEF Rules, FixedRules, OpenRules

\* Behind an error no token is accepted; a row that has values and the list of the
\* output parameters that has none are not ended.
LEMMA RulesExclude ==
  ASSUME NEW r \in Rules \cup Sync
  PROVE  /\ r[1] # "error"
         /\ ~(r[1] = "values" /\ r[2] = "/ROWS") /\ ~(r[1] = "params" /\ r[2] = "/OUTPARAMS")
<1>1. PICK a, b, c : r = <<a, b, c>>
  <2>1. CASE r \in FixedRules
    BY <2>1, Zenon DEF FixedRules
  <2>2. CASE r \in OpenRules
    BY <2>2, Zenon DEF OpenRules
  <2>3. CASE r \in Sync
    BY <2>3, Zenon DEF Sync
  <2>4. QED BY <2>1, <2>2, <2>3, RulesAre
<1>2. a # "error" /\ ~(a = "values" /\ b = "/ROWS") /\ ~(a = "params" /\ b = "/OUTPARAMS")
  <2>1. CASE <<a, b, c>> \in FixedRules
    BY <2>1 DEF FixedRules
  <2>2. CASE <<a, b, c>> \in OpenRules
    <3>1. a \in {"response", "results", "trailer", "totals"}
      BY <2>2 DEF OpenRules
    <3>2. QED BY <3>1
  <2>3. CASE <<a, b, c>> \in Sync
    BY <2>3 DEF Sync
  <2>4. QED BY <1>1, <2>1, <2>2, <2>3, RulesAre
<1>3. r[1] = a /\ r[2] = b
  BY <1>1
<1>4. QED BY <1>2, <1>3

LEMMA NotAccepted ==
  ASSUME NEW state, NEW tag,
         \/ state = "error"
         \/ state = "values" /\ tag = "/ROWS"
         \/ state = "params" /\ tag = "/OUTPARAMS"
  PROVE  Shift(state, tag) = "error"
<1> DEFINE N == {r \in Rules \cup Sync : r[1] = state /\ r[2] = tag}
           c == CHOOSE r \in N : TRUE
<1>1. Shift(state, tag) = IF N = {} THEN "error" ELSE c[3]
  BY Zenon DEF Shift
<1>2. N = {}
  BY RulesExclude
<1> HIDE DEF N, c
<1>3. QED BY <1>1, <1>2

LEMMA StaysAtError ==
  ASSUME NEW V, NEW s \in Tokens(V), NEW t \in Token(V), ParseFrom("start", s) = "error"
  PROVE  ParseFrom("start", Append(s, t)) = "error"
  BY ParseAppend, NotAccepted

\* The numbers of the tokens with certain tags.
LEMMA OfAppend ==
  ASSUME NEW V, NEW s \in Tokens(V), NEW t \in Token(V), NEW T
  PROVE  Of(Append(s, t), T) = Of(s, T) \cup (IF t[1] \in T THEN {t[2]} ELSE {})
<1> DEFINE u == Append(s, t)
           n == Len(s)
<1>1. n \in Nat /\ Len(u) = n + 1 /\ (\A i \in 1..n : s[i] = u[i]) /\ u[n + 1] = t
      /\ DOMAIN s = 1..n /\ DOMAIN u = 1..(n + 1)
  BY AppendProperties DEF Tokens
<1> HIDE DEF u, n
<1>2. Of(u, T) = {u[i][2] : i \in {j \in 1..(n + 1) : u[j][1] \in T}}
  BY <1>1 DEF Of
<1>3. Of(s, T) = {s[i][2] : i \in {j \in 1..n : s[j][1] \in T}}
  BY <1>1 DEF Of
<1>4. ASSUME NEW v PROVE v \in Of(u, T) <=> v \in Of(s, T) \/ (t[1] \in T /\ v = t[2])
  <2>1. v \in Of(u, T) <=> \E j \in 1..(n + 1) : u[j][1] \in T /\ v = u[j][2]
    BY <1>2
  <2>2. v \in Of(s, T) <=> \E j \in 1..n : s[j][1] \in T /\ v = s[j][2]
    BY <1>3
  <2>3. \A j \in 1..(n + 1) : j \in 1..n \/ j = n + 1
    BY <1>1
  <2>4. n + 1 \in 1..(n + 1) /\ \A j \in 1..n : j \in 1..(n + 1)
    BY <1>1
  <2>5. QED BY <1>1, <2>1, <2>2, <2>3, <2>4
<1>5. QED BY <1>4, Zenon DEF u

LEMMA OfEmpty == ASSUME NEW T PROVE Of(<<>>, T) = {}
  BY DEF Of

\* What the messages of a list count.
Weight(t) == CASE t[1] # "MSG" -> 0 [] t = <<"MSG", 0>> -> 1 [] OTHER -> t[2]
Counts(f, tokens) ==
  f = [i \in 0..Len(tokens) |-> IF i = 0 THEN 0 ELSE f[i - 1] + Weight(tokens[i])]

LEMMA WeightIsInt == ASSUME NEW t \in Token(Int) PROVE Weight(t) \in Int
<1>1. t[2] \in Int
  BY DEF Token
<1>2. t[1] # "MSG" => Weight(t) = 0
  BY DEF Weight
<1>3. t[1] = "MSG" /\ t = <<"MSG", 0>> => Weight(t) = 1
  BY DEF Weight
<1>4. t[1] = "MSG" /\ t # <<"MSG", 0>> => Weight(t) = t[2]
  BY DEF Weight
<1>5. QED BY <1>1, <1>2, <1>3, <1>4

LEMMA CountsExists ==
  ASSUME NEW tokens, Len(tokens) \in Nat
  PROVE  \E f : Counts(f, tokens)
<1> DEFINE P(f, n) == f = [i \in 0..n |-> IF i = 0 THEN 0 ELSE f[i - 1] + Weight(tokens[i])]
           S == {n \in Nat : \E f : P(f, n)}
<1>1. 0 \in S
  <2> DEFINE f0 == [i \in 0..0 |-> 0]
  <2>1. f0 = [i \in 0..0 |-> IF i = 0 THEN 0 ELSE f0[i - 1] + Weight(tokens[i])]
    OBVIOUS
  <2>2. P(f0, 0)
    BY <2>1
  <2>3. QED BY <2>2
<1>2. ASSUME NEW n \in Nat, n \in S PROVE n + 1 \in S
  <2>1. PICK f : P(f, n)
    BY <1>2
  <2> DEFINE g == [i \in 0..(n + 1) |-> IF i = n + 1 THEN f[n] + Weight(tokens[n + 1]) ELSE f[i]]
  <2>2. ASSUME NEW i \in 0..(n + 1)
        PROVE  g[i] = IF i = 0 THEN 0 ELSE g[i - 1] + Weight(tokens[i])
    <3>1. CASE i = n + 1
      <4>1. i # 0 /\ n \in 0..(n + 1) /\ n # n + 1 /\ i - 1 = n
        BY <3>1
      <4>2. g[i] = f[n] + Weight(tokens[n + 1]) /\ g[n] = f[n]
        BY <3>1, <4>1
      <4>3. QED BY <3>1, <4>1, <4>2
    <3>2. CASE i # n + 1
      <4>1. i \in 0..n
        BY <3>2
      <4>2. g[i] = f[i]
        BY <3>2
      <4>3. i # 0 => i - 1 \in 0..(n + 1) /\ i - 1 # n + 1
        BY <4>1
      <4>4. i # 0 => g[i - 1] = f[i - 1]
        BY <4>3
      <4>5. f[i] = IF i = 0 THEN 0 ELSE f[i - 1] + Weight(tokens[i])
        BY <2>1, <4>1
      <4>6. QED BY <4>2, <4>4, <4>5
    <3>3. QED BY <3>1, <3>2
  <2>3. g = [i \in 0..(n + 1) |-> g[i]]
    OBVIOUS
  <2> HIDE DEF g
  <2>4. P(g, n + 1)
    BY <2>2, <2>3
  <2>5. QED BY <2>4
<1> HIDE DEF S
<1>3. Nat \subseteq S
  BY <1>1, <1>2, AllNumbers
<1> USE DEF S
<1>4. Len(tokens) \in S
  BY <1>3
<1>5. QED BY <1>4 DEF Counts

LEMMA CountsIsOne ==
  ASSUME NEW s, NEW t, Len(s) \in Nat, Len(t) \in Nat, Len(s) <= Len(t),
         \A i \in 1..Len(s) : s[i] = t[i],
         NEW f, NEW g, Counts(f, s), Counts(g, t)
  PROVE  \A i \in 0..Len(s) : f[i] = g[i]
<1> DEFINE S == {n \in Nat : n \in 0..Len(s) => f[n] = g[n]}
<1>1. /\ \A i \in 0..Len(s) : f[i] = IF i = 0 THEN 0 ELSE f[i - 1] + Weight(s[i])
      /\ \A i \in 0..Len(t) : g[i] = IF i = 0 THEN 0 ELSE g[i - 1] + Weight(t[i])
  BY DEF Counts
<1>2. 0 \in S
  BY <1>1
<1>3. ASSUME NEW n \in Nat, n \in S PROVE n + 1 \in S
  <2>1. SUFFICES ASSUME n + 1 \in 0..Len(s) PROVE f[n + 1] = g[n + 1]
    OBVIOUS
  <2>2. n \in 0..Len(s) /\ n + 1 \in 1..Len(s) /\ n + 1 \in 0..Len(t) /\ n + 1 # 0
        /\ (n + 1) - 1 = n
    BY <2>1
  <2>3. f[n] = g[n]
    BY <1>3, <2>2
  <2>4. f[n + 1] = f[n] + Weight(s[n + 1]) /\ g[n + 1] = g[n] + Weight(t[n + 1])
    BY <1>1, <2>1, <2>2
  <2>5. QED BY <2>2, <2>3, <2>4
<1> HIDE DEF S
<1>4. Nat \subseteq S
  BY <1>2, <1>3, AllNumbers
<1> USE DEF S
<1>5. QED BY <1>4

LEMMA ListedIsCounts ==
  ASSUME NEW tokens, Len(tokens) \in Nat
  PROVE  \E f : Counts(f, tokens) /\ ListedMessages(tokens) = f[Len(tokens)]
<1> DEFINE c == CHOOSE f : f = [i \in 0..Len(tokens) |->
                                  IF i = 0 THEN 0
                                  ELSE f[i - 1] + CASE tokens[i][1] # "MSG" -> 0
                                                    [] tokens[i] = <<"MSG", 0>> -> 1
                                                    [] OTHER -> tokens[i][2]]
<1>1. c = [i \in 0..Len(tokens) |->
             IF i = 0 THEN 0
             ELSE c[i - 1] + CASE tokens[i][1] # "MSG" -> 0
                               [] tokens[i] = <<"MSG", 0>> -> 1
                               [] OTHER -> tokens[i][2]]
  <2>1. \E f : f = [i \in 0..Len(tokens) |->
                      IF i = 0 THEN 0
                      ELSE f[i - 1] + CASE tokens[i][1] # "MSG" -> 0
                                        [] tokens[i] = <<"MSG", 0>> -> 1
                                        [] OTHER -> tokens[i][2]]
    <3>1. \E f : Counts(f, tokens)
      BY CountsExists
    <3>2. QED BY <3>1, Zenon DEF Counts, Weight
  <2>2. QED BY <2>1, Zenon
<1>2. Counts(c, tokens)
  BY <1>1, Zenon DEF Counts, Weight
<1>3. ListedMessages(tokens) = c[Len(tokens)]
  BY Zenon DEF ListedMessages
<1> HIDE DEF c
<1>4. QED BY <1>2, <1>3

\* No token lists no message; one more token adds its weight.
LEMMA ListedEmpty == ListedMessages(<<>>) = 0
<1>1. Len(<<>>) = 0
  OBVIOUS
<1>2. PICK f : Counts(f, <<>>) /\ ListedMessages(<<>>) = f[Len(<<>>)]
  BY <1>1, ListedIsCounts
<1>3. f[0] = 0
  BY <1>1, <1>2 DEF Counts
<1>4. QED BY <1>1, <1>2, <1>3

LEMMA ListedAppend ==
  ASSUME NEW V, NEW s \in Tokens(V), NEW t \in Token(V)
  PROVE  ListedMessages(Append(s, t)) = ListedMessages(s) + Weight(t)
<1> DEFINE u == Append(s, t)
           n == Len(s)
<1>1. n \in Nat /\ Len(u) = n + 1 /\ (\A i \in 1..n : s[i] = u[i]) /\ u[n + 1] = t
  BY AppendProperties DEF Tokens
<1> HIDE DEF u
<1>2. PICK f : Counts(f, s) /\ ListedMessages(s) = f[n]
  BY <1>1, ListedIsCounts
<1> HIDE DEF n
<1>3. PICK g : Counts(g, u) /\ ListedMessages(u) = g[n + 1]
  BY <1>1, ListedIsCounts
<1>4. Len(s) = n /\ n <= n + 1 /\ n \in 0..n
  BY <1>1 DEF n
<1>5. f[n] = g[n]
  <2>1. \A i \in 0..Len(s) : f[i] = g[i]
    <3>1. Len(s) \in Nat /\ Len(u) \in Nat /\ Len(s) <= Len(u) /\ \A i \in 1..Len(s) : s[i] = u[i]
      BY <1>1, <1>4
    <3>2. Counts(f, s) /\ Counts(g, u)
      BY <1>2, <1>3
    <3>3. QED BY <3>1, <3>2, CountsIsOne
  <2>2. QED BY <1>4, <2>1
<1>6. g[n + 1] = g[n] + Weight(u[n + 1])
  <2>1. n + 1 \in 0..Len(u) /\ n + 1 # 0 /\ (n + 1) - 1 = n
    BY <1>1
  <2>2. g[n + 1] = g[(n + 1) - 1] + Weight(u[n + 1])
    BY <1>3, <2>1 DEF Counts
  <2>3. QED BY <2>1, <2>2
<1>7. QED BY <1>1, <1>2, <1>3, <1>5, <1>6 DEF u

-----------------------------------------------------------------------------
(* The writer                                                              *)

Writers(V) ==
  [header : BOOLEAN, sets : BOOLEAN, rows : BOOLEAN, inRow : BOOLEAN, params : BOOLEAN,
   setNo : Int, out : Tokens(V)]

\* Where a parse of what is written stands; at an error it stays.
At(a) == ParseFrom("start", a.out)
Refused(a) == At(a) = "error"

\* What was written between two states of a writer has no such tag.
Neutral(V, a, b) ==
  /\ b \in Writers(V) /\ (Refused(a) => Refused(b))
  /\ \A T \in SUBSET ValueTags : Of(b.out, T) = Of(a.out, T)
  /\ ListedMessages(a.out) \in Int => ListedMessages(b.out) = ListedMessages(a.out)

LEMMA EmitFacts ==
  ASSUME NEW V, NEW a \in Writers(V), NEW s \in Tokens(V)
  PROVE  /\ Emit(a, s) \in Writers(V) /\ Emit(a, s).out = a.out \o s
         /\ Emit(a, s).header = a.header /\ Emit(a, s).sets = a.sets /\ Emit(a, s).rows = a.rows
         /\ Emit(a, s).inRow = a.inRow /\ Emit(a, s).params = a.params
         /\ Emit(a, s).setNo = a.setNo
<1>1. a.out \o s \in Tokens(V)
  BY ConcatProperties DEF Tokens, Writers
<1>2. Emit(a, s) = [a EXCEPT !.out = a.out \o s]
  BY Zenon DEF Emit
<1>3. QED BY <1>1, <1>2 DEF Writers

\* A sequence that is written out, and one more element.
LEMMA AppendIs ==
  ASSUME NEW S, NEW s \in Seq(S), NEW u \in Seq(S), NEW t \in S, Len(u) = Len(s) + 1,
         \A i \in 1..Len(s) : u[i] = s[i], u[Len(u)] = t
  PROVE  Append(s, t) = u
<1>1. /\ Append(s, t) \in Seq(S) /\ Len(Append(s, t)) = Len(u)
  BY AppendProperties
<1>2. ASSUME NEW i \in 1..Len(u) PROVE Append(s, t)[i] = u[i]
  <2>1. Len(s) \in Nat
    OBVIOUS
  <2>2. CASE i \in 1..Len(s)
    BY <2>2, AppendProperties
  <2>3. CASE i \notin 1..Len(s)
    <3>1. i = Len(s) + 1
      BY <2>1, <2>3
    <3>2. QED BY <3>1, AppendProperties
  <2>4. QED BY <2>2, <2>3
<1>3. QED BY <1>1, <1>2, SeqEqual

LEMMA TupleAppend ==
  ASSUME NEW S, NEW t1 \in S, NEW t2 \in S, NEW t3 \in S, NEW t4 \in S, NEW t5 \in S
  PROVE  /\ Append(<<t1>>, t2) = <<t1, t2>>
         /\ Append(<<t1, t2>>, t3) = <<t1, t2, t3>>
         /\ Append(<<t1, t2, t3>>, t4) = <<t1, t2, t3, t4>>
         /\ Append(<<t1, t2, t3, t4>>, t5) = <<t1, t2, t3, t4, t5>>
<1>1. Append(<<t1>>, t2) = <<t1, t2>>
  <2> DEFINE s == <<t1>>
             u == <<t1, t2>>
  <2>1. s \in Seq(S) /\ Len(s) = 1 /\ s[1] = t1
    OBVIOUS
  <2>2. u \in Seq(S) /\ Len(u) = 2 /\ u[1] = t1 /\ u[2] = t2
    OBVIOUS
  <2> HIDE DEF s, u
  <2>3. Len(u) = Len(s) + 1 /\ u[Len(u)] = t2 /\ \A i \in 1..Len(s) : i = 1
    BY <2>1, <2>2
  <2>4. \A i \in 1..Len(s) : u[i] = s[i]
    BY <2>1, <2>2, <2>3
  <2>5. Append(s, t2) = u
    BY <2>1, <2>2, <2>3, <2>4, AppendIs
  <2>6. QED BY <2>5 DEF s, u
<1>2. Append(<<t1, t2>>, t3) = <<t1, t2, t3>>
  <2> DEFINE s == <<t1, t2>>
             u == <<t1, t2, t3>>
  <2>1. s \in Seq(S) /\ Len(s) = 2 /\ s[1] = t1 /\ s[2] = t2
    OBVIOUS
  <2>2. u \in Seq(S) /\ Len(u) = 3 /\ u[1] = t1 /\ u[2] = t2 /\ u[3] = t3
    OBVIOUS
  <2> HIDE DEF s, u
  <2>3. Len(u) = Len(s) + 1 /\ u[Len(u)] = t3 /\ \A i \in 1..Len(s) : i = 1 \/ i = 2
    BY <2>1, <2>2
  <2>4. \A i \in 1..Len(s) : u[i] = s[i]
    BY <2>1, <2>2, <2>3
  <2>5. Append(s, t3) = u
    BY <2>1, <2>2, <2>3, <2>4, AppendIs
  <2>6. QED BY <2>5 DEF s, u
<1>3. Append(<<t1, t2, t3>>, t4) = <<t1, t2, t3, t4>>
  <2> DEFINE s == <<t1, t2, t3>>
             u == <<t1, t2, t3, t4>>
  <2>1. s \in Seq(S) /\ Len(s) = 3 /\ s[1] = t1 /\ s[2] = t2 /\ s[3] = t3
    OBVIOUS
  <2>2. u \in Seq(S) /\ Len(u) = 4 /\ u[1] = t1 /\ u[2] = t2 /\ u[3] = t3 /\ u[4] = t4
    OBVIOUS
  <2> HIDE DEF s, u
  <2>3. Len(u) = Len(s) + 1 /\ u[Len(u)] = t4 /\ \A i \in 1..Len(s) : i = 1 \/ i = 2 \/ i = 3
    BY <2>1, <2>2
  <2>4. \A i \in 1..Len(s) : u[i] = s[i]
    BY <2>1, <2>2, <2>3
  <2>5. Append(s, t4) = u
    BY <2>1, <2>2, <2>3, <2>4, AppendIs
  <2>6. QED BY <2>5 DEF s, u
<1>4. Append(<<t1, t2, t3, t4>>, t5) = <<t1, t2, t3, t4, t5>>
  <2> DEFINE s == <<t1, t2, t3, t4>>
             u == <<t1, t2, t3, t4, t5>>
  <2>1. s \in Seq(S) /\ Len(s) = 4 /\ s[1] = t1 /\ s[2] = t2 /\ s[3] = t3 /\ s[4] = t4
    OBVIOUS
  <2>2. u \in Seq(S) /\ Len(u) = 5 /\ u[1] = t1 /\ u[2] = t2 /\ u[3] = t3 /\ u[4] = t4 /\ u[5] = t5
    OBVIOUS
  <2> HIDE DEF s, u
  <2>3. Len(u) = Len(s) + 1 /\ u[Len(u)] = t5 /\ \A i \in 1..Len(s) : i = 1 \/ i = 2 \/ i = 3 \/ i = 4
    BY <2>1, <2>2
  <2>4. \A i \in 1..Len(s) : u[i] = s[i]
    BY <2>1, <2>2, <2>3
  <2>5. Append(s, t5) = u
    BY <2>1, <2>2, <2>3, <2>4, AppendIs
  <2>6. QED BY <2>5 DEF s, u
<1>5. QED BY <1>1, <1>2, <1>3, <1>4

LEMMA ConcatAppend ==
  ASSUME NEW S, NEW a \in Seq(S), NEW s \in Seq(S), NEW t \in S
  PROVE  a \o Append(s, t) = (a \o s) \o <<t>>
<1>1. <<t>> \in Seq(S)
  OBVIOUS
<1>2. Append(s, t) = s \o <<t>>
  BY AppendIsConcat
<1>3. QED BY <1>1, <1>2, ConcatAssociative

\* One token after the other.
LEMMA EmitSplit ==
  ASSUME NEW V, NEW a \in Writers(V), NEW s \in Tokens(V), NEW t \in Token(V)
  PROVE  Emit(a, Append(s, t)) = Emit(Emit(a, s), <<t>>)
<1> DEFINE S == Token(V)
           o == a.out
<1>1. o \in Seq(S) /\ s \in Seq(S) /\ t \in S
  BY DEF Tokens, Writers
<1> HIDE DEF S, o
<1>2. o \o Append(s, t) = (o \o s) \o <<t>>
  BY <1>1, ConcatAppend
<1>3. Emit(a, s).out = o \o s
  BY EmitFacts DEF o
<1>4. Emit(Emit(a, s), <<t>>) = [[a EXCEPT !.out = o \o s] EXCEPT !.out = (o \o s) \o <<t>>]
  BY <1>3, Zenon DEF Emit, o
<1>5. Emit(a, Append(s, t)) = [a EXCEPT !.out = o \o Append(s, t)]
  BY Zenon DEF Emit, o
<1>6. QED BY <1>2, <1>4, <1>5 DEF Writers

One(a, t) == Emit(a, <<t>>)
Two(a, t1, t2) == Emit(a, <<t1, t2>>)
Three(a, t1, t2, t3) == Emit(a, <<t1, t2, t3>>)
Five(a, t1, t2, t3, t4, t5) == Emit(a, <<t1, t2, t3, t4, t5>>)

LEMMA OneFacts ==
  ASSUME NEW V, NEW a \in Writers(V), NEW t \in Token(V)
  PROVE  /\ One(a, t) \in Writers(V) /\ One(a, t).out = Append(a.out, t)
         /\ One(a, t).header = a.header /\ One(a, t).sets = a.sets /\ One(a, t).rows = a.rows
         /\ One(a, t).inRow = a.inRow /\ One(a, t).params = a.params
         /\ One(a, t).setNo = a.setNo
<1> DEFINE S == Token(V)
           o == a.out
<1>1. o \in Seq(S) /\ t \in S
  BY DEF Tokens, Writers
<1> HIDE DEF S, o
<1>2. <<t>> \in Seq(S) /\ o \o <<t>> = Append(o, t)
  BY <1>1, AppendIsConcat
<1>3. <<t>> \in Tokens(V)
  BY <1>2 DEF Tokens, S
<1>4. QED BY <1>2, <1>3, EmitFacts DEF One, o

LEMMA Steps ==
  ASSUME NEW V, NEW a \in Writers(V), NEW t1 \in Token(V), NEW t2 \in Token(V),
         NEW t3 \in Token(V), NEW t4 \in Token(V), NEW t5 \in Token(V)
  PROVE  /\ Two(a, t1, t2) = One(One(a, t1), t2)
         /\ Three(a, t1, t2, t3) = One(One(One(a, t1), t2), t3)
         /\ Five(a, t1, t2, t3, t4, t5) = One(One(One(One(One(a, t1), t2), t3), t4), t5)
<1>1. /\ <<t1>> \in Tokens(V) /\ <<t1, t2>> \in Tokens(V) /\ <<t1, t2, t3>> \in Tokens(V)
      /\ <<t1, t2, t3, t4>> \in Tokens(V)
  BY DEF Tokens
<1>2. /\ <<t1, t2>> = Append(<<t1>>, t2) /\ <<t1, t2, t3>> = Append(<<t1, t2>>, t3)
      /\ <<t1, t2, t3, t4>> = Append(<<t1, t2, t3>>, t4)
      /\ <<t1, t2, t3, t4, t5>> = Append(<<t1, t2, t3, t4>>, t5)
  <2> DEFINE S == Token(V)
  <2>1. t1 \in S /\ t2 \in S /\ t3 \in S /\ t4 \in S /\ t5 \in S
    OBVIOUS
  <2> HIDE DEF S
  <2>2. QED BY <2>1, TupleAppend
<1>3. Emit(a, <<t1, t2>>) = Emit(Emit(a, <<t1>>), <<t2>>)
  <2>1. Emit(a, Append(<<t1>>, t2)) = Emit(Emit(a, <<t1>>), <<t2>>)
    BY <1>1, EmitSplit
  <2>2. QED BY <1>2, <2>1
<1>4. Emit(a, <<t1, t2, t3>>) = Emit(Emit(a, <<t1, t2>>), <<t3>>)
  <2>1. Emit(a, Append(<<t1, t2>>, t3)) = Emit(Emit(a, <<t1, t2>>), <<t3>>)
    BY <1>1, EmitSplit
  <2>2. QED BY <1>2, <2>1
<1>5. Emit(a, <<t1, t2, t3, t4>>) = Emit(Emit(a, <<t1, t2, t3>>), <<t4>>)
  <2>1. Emit(a, Append(<<t1, t2, t3>>, t4)) = Emit(Emit(a, <<t1, t2, t3>>), <<t4>>)
    BY <1>1, EmitSplit
  <2>2. QED BY <1>2, <2>1
<1>6. Emit(a, <<t1, t2, t3, t4, t5>>) = Emit(Emit(a, <<t1, t2, t3, t4>>), <<t5>>)
  <2>1. Emit(a, Append(<<t1, t2, t3, t4>>, t5)) = Emit(Emit(a, <<t1, t2, t3, t4>>), <<t5>>)
    BY <1>1, EmitSplit
  <2>2. QED BY <1>2, <2>1
<1>7. Two(a, t1, t2) = One(One(a, t1), t2)
  BY <1>3, Zenon DEF One, Two
<1>8. Three(a, t1, t2, t3) = One(One(One(a, t1), t2), t3)
  BY <1>3, <1>4, Zenon DEF One, Three
<1>9. Five(a, t1, t2, t3, t4, t5) = One(One(One(One(One(a, t1), t2), t3), t4), t5)
  BY <1>3, <1>4, <1>5, <1>6, Zenon DEF One, Five
<1>10. QED BY <1>7, <1>8, <1>9

LEMMA NeutralTrans ==
  ASSUME NEW V, NEW a, NEW b, NEW c, Neutral(V, a, b), Neutral(V, b, c)
  PROVE  Neutral(V, a, c)
  BY DEF Neutral

LEMMA NeutralSame ==
  ASSUME NEW V, NEW a, NEW b \in Writers(V), b.out = a.out
  PROVE  Neutral(V, a, b)
  BY DEF Neutral, Refused, At

LEMMA RefusedOne ==
  ASSUME NEW V, NEW a \in Writers(V), NEW t \in Token(V), Refused(a)
  PROVE  Refused(One(a, t))
<1>1. a.out \in Tokens(V) /\ ParseFrom("start", a.out) = "error"
  BY DEF Writers, Refused, At
<1>2. One(a, t).out = Append(a.out, t)
  BY OneFacts
<1>3. ParseFrom("start", Append(a.out, t)) = "error"
  BY <1>1, StaysAtError
<1>4. QED BY <1>2, <1>3 DEF Refused, At

LEMMA NeutralOne ==
  ASSUME NEW V, NEW a \in Writers(V), NEW t \in Token(V), t[1] \notin ValueTags
  PROVE  Neutral(V, a, One(a, t))
<1>1. a.out \in Tokens(V)
  BY DEF Writers
<1>2. One(a, t) \in Writers(V) /\ One(a, t).out = Append(a.out, t)
  BY OneFacts
<1>3. ASSUME NEW T \in SUBSET ValueTags PROVE Of(Append(a.out, t), T) = Of(a.out, T)
  <2>1. t[1] \notin T
    OBVIOUS
  <2>2. Of(Append(a.out, t), T) = Of(a.out, T) \cup (IF t[1] \in T THEN {t[2]} ELSE {})
    BY <1>1, OfAppend
  <2>3. QED BY <2>1, <2>2
<1>4. ListedMessages(Append(a.out, t)) = ListedMessages(a.out) + 0
  <2>1. Weight(t) = 0
    BY DEF Weight, ValueTags
  <2>2. QED BY <1>1, <2>1, ListedAppend
<1> DEFINE e == One(a, t)
<1> HIDE DEF e
<1>5. /\ e \in Writers(V) /\ \A T \in SUBSET ValueTags : Of(e.out, T) = Of(a.out, T)
      /\ ListedMessages(e.out) = ListedMessages(a.out) + 0
      /\ Refused(a) => Refused(e)
  BY <1>2, <1>3, <1>4, RefusedOne DEF e
<1>6. Neutral(V, a, e)
  BY <1>5 DEF Neutral
<1>7. QED BY <1>6 DEF e

LEMMA NeutralSeveral ==
  ASSUME NEW V, NEW a \in Writers(V), NEW t1 \in Token(V), NEW t2 \in Token(V),
         NEW t3 \in Token(V), NEW t4 \in Token(V), NEW t5 \in Token(V),
         t1[1] \notin ValueTags, t2[1] \notin ValueTags, t3[1] \notin ValueTags,
         t4[1] \notin ValueTags, t5[1] \notin ValueTags
  PROVE  /\ Neutral(V, a, Two(a, t1, t2))
         /\ Neutral(V, a, Three(a, t1, t2, t3))
         /\ Neutral(V, a, Five(a, t1, t2, t3, t4, t5))
<1> DEFINE e1 == One(a, t1)
           e2 == One(e1, t2)
           e3 == One(e2, t3)
           e4 == One(e3, t4)
           e5 == One(e4, t5)
<1>1. Two(a, t1, t2) = e2 /\ Three(a, t1, t2, t3) = e3 /\ Five(a, t1, t2, t3, t4, t5) = e5
  BY Steps
<1>2. Neutral(V, a, e1)
  BY NeutralOne
<1> HIDE DEF e1
<1>3. Neutral(V, e1, e2)
  BY <1>2, NeutralOne DEF Neutral
<1> HIDE DEF e2
<1>4. Neutral(V, e2, e3)
  BY <1>3, NeutralOne DEF Neutral
<1> HIDE DEF e3
<1>5. Neutral(V, e3, e4)
  BY <1>4, NeutralOne DEF Neutral
<1> HIDE DEF e4
<1>6. Neutral(V, e4, e5)
  BY <1>5, NeutralOne DEF Neutral
<1> HIDE DEF e5
<1>7. Neutral(V, a, e2)
  BY <1>2, <1>3, NeutralTrans
<1>8. Neutral(V, a, e3)
  BY <1>4, <1>7, NeutralTrans
<1>9. Neutral(V, a, e4)
  BY <1>5, <1>8, NeutralTrans
<1>10. Neutral(V, a, e5)
  BY <1>6, <1>9, NeutralTrans
<1>11. QED BY <1>1, <1>7, <1>8, <1>10

-----------------------------------------------------------------------------
(* The operations of the writer                                            *)

LEMMA PlainTag ==
  ASSUME NEW V, Int \subseteq V, NEW t \in Plain
  PROVE  Tag(t) \in Token(V) /\ Tag(t)[1] \notin ValueTags
<1>1. 0 \in V
  OBVIOUS
<1>2. Tag(t) \in Token(V)
  BY <1>1 DEF Tag, Token
<1>3. Tag(t)[1] = t
  BY DEF Tag
<1>4. t \notin ValueTags
  BY DEF Plain, ValueTags
<1>5. QED BY <1>2, <1>3, <1>4

LEMMA CountTag ==
  ASSUME NEW V, NEW n \in V, NEW t \in Plain
  PROVE  <<t, n>> \in Token(V) /\ <<t, n>>[1] \notin ValueTags
<1>1. <<t, n>> \in Token(V) /\ <<t, n>>[1] = t
  BY DEF Token
<1>2. t \notin ValueTags
  BY DEF Plain, ValueTags
<1>3. QED BY <1>1, <1>2

LEMMA NeutralTag ==
  ASSUME NEW V, Int \subseteq V, NEW a, NEW b \in Writers(V), b.out = a.out,
         NEW t \in Plain
  PROVE  Neutral(V, a, One(b, Tag(t)))
<1>1. Tag(t) \in Token(V) /\ Tag(t)[1] \notin ValueTags
  BY PlainTag
<1>2. Neutral(V, b, One(b, Tag(t)))
  BY <1>1, NeutralOne
<1>3. Neutral(V, a, b)
  BY NeutralSame
<1>4. QED BY <1>2, <1>3, NeutralTrans

LEMMA NeutralTwo ==
  ASSUME NEW V, Int \subseteq V, NEW a, NEW b \in Writers(V), b.out = a.out,
         NEW t1 \in Plain, NEW t2 \in Plain
  PROVE  Neutral(V, a, Two(b, Tag(t1), Tag(t2)))
<1> DEFINE g1 == Tag(t1)
           g2 == Tag(t2)
<1>1. /\ g1 \in Token(V) /\ g2 \in Token(V) /\ g1[1] \notin ValueTags /\ g2[1] \notin ValueTags
  BY PlainTag
<1> HIDE DEF g1, g2
<1>2. Neutral(V, b, Two(b, g1, g2))
  BY <1>1, NeutralSeveral
<1>3. Neutral(V, a, b)
  BY NeutralSame
<1>4. Neutral(V, a, Two(b, g1, g2))
  BY <1>2, <1>3, NeutralTrans
<1>5. QED BY <1>4, Zenon DEF g1, g2

LEMMA BeginResponseNeutral ==
  ASSUME NEW V, Int \subseteq V, NEW a \in Writers(V)
  PROVE  Neutral(V, a, BeginResponseIfNotDone(a))
<1> DEFINE b == [a EXCEPT !.header = TRUE]
<1>1. b \in Writers(V) /\ b.out = a.out
  BY DEF Writers
<1>2. BeginResponseIfNotDone(a) = IF a.header THEN a ELSE One(b, Tag("RESPONSE"))
  BY Zenon DEF BeginResponseIfNotDone, One
<1> HIDE DEF b
<1>3. Neutral(V, a, One(b, Tag("RESPONSE")))
  <2>1. "RESPONSE" \in Plain
    BY DEF Plain
  <2>2. QED BY <1>1, <2>1, NeutralTag
<1>4. Neutral(V, a, a)
  BY NeutralSame
<1>5. QED BY <1>2, <1>3, <1>4

LEMMA EndPreviousNeutral ==
  ASSUME NEW V, Int \subseteq V, NEW a \in Writers(V), NEW n \in Int
  PROVE  Neutral(V, a, EndPreviousResultSet(a, n))
<1> DEFINE b == [a EXCEPT !.rows = FALSE]
           r3 == Three(b, Tag("/ROWS"), <<"NBROWS", n>>, Tag("/SET"))
           r5 == Five(a, Tag("/COLNAMES"), Tag("ROWS"), Tag("/ROWS"), <<"NBROWS", 0>>, Tag("/SET"))
<1>1. b \in Writers(V) /\ b.out = a.out
  BY DEF Writers
<1>2. EndPreviousResultSet(a, n) = IF a.rows THEN r3 ELSE r5
  BY Zenon DEF EndPreviousResultSet, Three, Five
<1> HIDE DEF b
<1>3. Neutral(V, a, r3)
  <2> DEFINE g1 == Tag("/ROWS")
             g2 == <<"NBROWS", n>>
             g3 == Tag("/SET")
  <2>1. /\ g1 \in Token(V) /\ g3 \in Token(V)
        /\ g1[1] \notin ValueTags /\ g3[1] \notin ValueTags
    <3>1. "/ROWS" \in Plain /\ "/SET" \in Plain
      BY DEF Plain
    <3>2. QED BY <3>1, PlainTag
  <2>a. g2 \in Token(V) /\ g2[1] \notin ValueTags
    <3>1. "NBROWS" \in Plain
      BY DEF Plain
    <3>2. QED BY <3>1, CountTag
  <2> HIDE DEF g1, g2, g3
  <2>2. Neutral(V, b, Three(b, g1, g2, g3))
    BY <1>1, <2>1, <2>a, NeutralSeveral
  <2>3. Neutral(V, a, Three(b, g1, g2, g3))
    BY <1>1, <2>2, NeutralSame, NeutralTrans
  <2>4. QED BY <2>3, Zenon DEF g1, g2, g3
<1>4. Neutral(V, a, r5)
  <2> DEFINE g1 == Tag("/COLNAMES")
             g2 == Tag("ROWS")
             g3 == Tag("/ROWS")
             g4 == <<"NBROWS", 0>>
             g5 == Tag("/SET")
  <2>1. /\ g1 \in Token(V) /\ g2 \in Token(V) /\ g3 \in Token(V) /\ g5 \in Token(V)
        /\ g1[1] \notin ValueTags /\ g2[1] \notin ValueTags /\ g3[1] \notin ValueTags
        /\ g5[1] \notin ValueTags
    <3>1. /\ "/COLNAMES" \in Plain /\ "ROWS" \in Plain /\ "/ROWS" \in Plain
          /\ "/SET" \in Plain
      BY DEF Plain
    <3>2. QED BY <3>1, PlainTag
  <2>a. g4 \in Token(V) /\ g4[1] \notin ValueTags
    <3>1. "NBROWS" \in Plain
      BY DEF Plain
    <3>2. QED BY <3>1, CountTag
  <2> HIDE DEF g1, g2, g3, g4, g5
  <2>2. Neutral(V, a, Five(a, g1, g2, g3, g4, g5))
    BY <2>1, <2>a, NeutralSeveral
  <2>3. QED BY <2>2, Zenon DEF g1, g2, g3, g4, g5
<1>5. QED BY <1>2, <1>3, <1>4

LEMMA BeginSetNeutral ==
  ASSUME NEW V, Int \subseteq V, NEW a \in Writers(V), NEW s \in Int, NEW n \in Int
  PROVE  Neutral(V, a, BeginResultSet(a, s, n))
<1> DEFINE w1 == BeginResponseIfNotDone(a)
           w2 == IF w1.sets /\ w1.setNo # s THEN EndPreviousResultSet(w1, n) ELSE w1
           w3 == BeginSetsIfNotDone(w2)
           w4 == [w3 EXCEPT !.setNo = s]
           b == [w2 EXCEPT !.sets = TRUE]
<1>1. BeginResultSet(a, s, n) = Two(w4, Tag("SET"), Tag("COLNAMES"))
  BY Zenon DEF BeginResultSet, Two
<1>2. Neutral(V, a, w1)
  BY BeginResponseNeutral
<1> HIDE DEF w1
<1>3. Neutral(V, w1, w2)
  <2>1. w1 \in Writers(V)
    BY <1>2 DEF Neutral
  <2>2. Neutral(V, w1, EndPreviousResultSet(w1, n)) /\ Neutral(V, w1, w1)
    BY <2>1, EndPreviousNeutral, NeutralSame
  <2>3. QED BY <2>2
<1> HIDE DEF w2
<1>4. w2 \in Writers(V) /\ b \in Writers(V) /\ b.out = w2.out
  BY <1>3 DEF Neutral, Writers
<1>5. w3 = IF w2.sets THEN w2 ELSE One(b, Tag("SETS"))
  BY Zenon DEF BeginSetsIfNotDone, One
<1> HIDE DEF w3, b
<1>6. Neutral(V, w2, w3)
  <2>1. "SETS" \in Plain
    BY DEF Plain
  <2>2. Neutral(V, w2, One(b, Tag("SETS"))) /\ Neutral(V, w2, w2)
    BY <1>4, <2>1, NeutralTag, NeutralSame
  <2>3. QED BY <1>5, <2>2
<1>7. w4 \in Writers(V) /\ w4.out = w3.out
  BY <1>6 DEF Neutral, Writers
<1> HIDE DEF w4
<1>8. Neutral(V, w3, Two(w4, Tag("SET"), Tag("COLNAMES")))
  <2>1. "SET" \in Plain /\ "COLNAMES" \in Plain
    BY DEF Plain
  <2>2. QED BY <1>7, <2>1, NeutralTwo
<1>9. Neutral(V, a, w2)
  BY <1>2, <1>3, NeutralTrans
<1>10. Neutral(V, a, w3)
  BY <1>6, <1>9, NeutralTrans
<1>11. QED BY <1>1, <1>8, <1>10, NeutralTrans

LEMMA ColumnNameNeutral ==
  ASSUME NEW V, Int \subseteq V, NEW a \in Writers(V)
  PROVE  Neutral(V, a, ColumnName(a))
<1>1. Neutral(V, a, One(a, Tag("COL")))
  <2>1. "COL" \in Plain
    BY DEF Plain
  <2>2. QED BY <2>1, NeutralTag
<1>2. QED BY <1>1, Zenon DEF ColumnName, One

LEMMA EndColumnValuesNeutral ==
  ASSUME NEW V, Int \subseteq V, NEW a \in Writers(V)
  PROVE  Neutral(V, a, EndColumnValues(a))
<1> DEFINE b == [a EXCEPT !.inRow = FALSE]
<1>1. b \in Writers(V) /\ b.out = a.out
  BY DEF Writers
<1>2. EndColumnValues(a) = One(b, Tag("/ROW"))
  BY Zenon DEF EndColumnValues, One
<1> HIDE DEF b
<1>3. "/ROW" \in Plain
  BY DEF Plain
<1>4. QED BY <1>1, <1>2, <1>3, NeutralTag

LEMMA EndRowsNeutral ==
  ASSUME NEW V, Int \subseteq V, NEW a \in Writers(V), NEW n \in Int
  PROVE  Neutral(V, a, EndRowsIfStarted(a, n))
<1> DEFINE b == [a EXCEPT !.sets = FALSE]
           c == EndPreviousResultSet(b, n)
<1>1. b \in Writers(V) /\ b.out = a.out
  BY DEF Writers
<1>2. EndRowsIfStarted(a, n) = IF a.sets THEN One(c, Tag("/SETS")) ELSE a
  BY Zenon DEF EndRowsIfStarted, One
<1> HIDE DEF b
<1>3. Neutral(V, b, c)
  BY <1>1, EndPreviousNeutral
<1> HIDE DEF c
<1>4. Neutral(V, c, One(c, Tag("/SETS")))
  <2>1. "/SETS" \in Plain
    BY DEF Plain
  <2>2. QED BY <1>3, <2>1, NeutralTag DEF Neutral
<1>5. Neutral(V, a, b) /\ Neutral(V, a, a)
  BY <1>1, NeutralSame
<1>6. Neutral(V, a, c)
  BY <1>3, <1>5, NeutralTrans
<1>7. Neutral(V, a, One(c, Tag("/SETS")))
  BY <1>4, <1>6, NeutralTrans
<1>8. QED BY <1>2, <1>5, <1>7

LEMMA EndParamsNeutral ==
  ASSUME NEW V, Int \subseteq V, NEW a \in Writers(V)
  PROVE  Neutral(V, a, EndOutputParamsIfStarted(a))
<1> DEFINE b == [a EXCEPT !.params = FALSE]
<1>1. b \in Writers(V) /\ b.out = a.out
  BY DEF Writers
<1>2. EndOutputParamsIfStarted(a) = IF a.params THEN One(b, Tag("/OUTPARAMS")) ELSE a
  BY Zenon DEF EndOutputParamsIfStarted, One
<1> HIDE DEF b
<1>3. "/OUTPARAMS" \in Plain
  BY DEF Plain
<1>4. Neutral(V, a, One(b, Tag("/OUTPARAMS"))) /\ Neutral(V, a, a)
  BY <1>1, <1>3, NeutralTag, NeutralSame
<1>5. QED BY <1>2, <1>4

LEMMA BeginParamsNeutral ==
  ASSUME NEW V, Int \subseteq V, NEW a \in Writers(V), NEW n \in Int
  PROVE  Neutral(V, a, BeginOutputParams(a, n))
<1> DEFINE h == BeginResponseIfNotDone(a)
           e == EndRowsIfStarted(h, n)
           b == [e EXCEPT !.params = TRUE]
<1>1. Neutral(V, a, h)
  BY BeginResponseNeutral
<1>2. BeginOutputParams(a, n) = IF e.params THEN e ELSE One(b, Tag("OUTPARAMS"))
  BY Zenon DEF BeginOutputParams, One
<1> HIDE DEF h
<1>3. Neutral(V, h, e)
  BY <1>1, EndRowsNeutral DEF Neutral
<1> HIDE DEF e
<1>4. Neutral(V, a, e)
  BY <1>1, <1>3, NeutralTrans
<1>5. e \in Writers(V) /\ b \in Writers(V) /\ b.out = e.out
  BY <1>3 DEF Neutral, Writers
<1> HIDE DEF b
<1>6. "OUTPARAMS" \in Plain
  BY DEF Plain
<1>7. Neutral(V, e, One(b, Tag("OUTPARAMS")))
  BY <1>5, <1>6, NeutralTag
<1>8. QED BY <1>2, <1>4, <1>7, NeutralTrans

\* What precedes the messages and the status.
ListsClosed(a, n) == EndOutputParamsIfStarted(EndRowsIfStarted(BeginResponseIfNotDone(a), n))

LEMMA ClosedNeutral ==
  ASSUME NEW V, Int \subseteq V, NEW a \in Writers(V), NEW n \in Int
  PROVE  Neutral(V, a, ListsClosed(a, n))
<1> DEFINE h == BeginResponseIfNotDone(a)
           e == EndRowsIfStarted(h, n)
           p == EndOutputParamsIfStarted(e)
<1>1. Neutral(V, a, h)
  BY BeginResponseNeutral
<1>2. ListsClosed(a, n) = p
  BY Zenon DEF ListsClosed
<1> HIDE DEF h
<1>3. Neutral(V, h, e)
  BY <1>1, EndRowsNeutral DEF Neutral
<1> HIDE DEF e
<1>4. Neutral(V, e, p)
  BY <1>3, EndParamsNeutral DEF Neutral
<1> HIDE DEF p
<1>5. Neutral(V, a, e)
  BY <1>1, <1>3, NeutralTrans
<1>6. QED BY <1>2, <1>4, <1>5, NeutralTrans

LEMMA BeginMsgNeutral ==
  ASSUME NEW V, Int \subseteq V, NEW a \in Writers(V), NEW n \in Int
  PROVE  Neutral(V, a, BeginMsg(a, n))
<1> DEFINE c == ListsClosed(a, n)
<1>1. Neutral(V, a, c)
  BY ClosedNeutral
<1>2. BeginMsg(a, n) = One(c, Tag("MSGLIST"))
  BY Zenon DEF BeginMsg, One, ListsClosed
<1> HIDE DEF c
<1>3. "MSGLIST" \in Plain
  BY DEF Plain
<1>4. Neutral(V, c, One(c, Tag("MSGLIST")))
  BY <1>1, <1>3, NeutralTag DEF Neutral
<1>5. QED BY <1>1, <1>2, <1>4, NeutralTrans

LEMMA EndMsgNeutral ==
  ASSUME NEW V, Int \subseteq V, NEW a \in Writers(V)
  PROVE  Neutral(V, a, EndMsg(a))
<1>1. "/MSGLIST" \in Plain
  BY DEF Plain
<1>2. Neutral(V, a, One(a, Tag("/MSGLIST")))
  BY <1>1, NeutralTag
<1>3. QED BY <1>2, Zenon DEF EndMsg, One

\* What was written between two states of a writer is one tag with its value, and
\* plain tags.
MarkedTag(tag, v) == <<tag, v>>
Adds(V, a, b, tag, v) ==
  /\ b \in Writers(V) /\ (Refused(a) => Refused(b))
  /\ \A T \in SUBSET ValueTags : Of(b.out, T) = Of(a.out, T) \cup (IF tag \in T THEN {v} ELSE {})
  /\ ListedMessages(a.out) \in Int =>
       ListedMessages(b.out) = ListedMessages(a.out) + Weight(MarkedTag(tag, v))

LEMMA AddsOne ==
  ASSUME NEW V, NEW a \in Writers(V), NEW tag \in ValueTags, NEW v \in V
  PROVE  Adds(V, a, One(a, MarkedTag(tag, v)), tag, v)
<1> DEFINE t == MarkedTag(tag, v)
<1>1. t \in Token(V) /\ t[1] = tag /\ t[2] = v
  BY DEF MarkedTag, Token
<1> HIDE DEF t
<1>2. a.out \in Tokens(V)
  BY DEF Writers
<1>3. One(a, t) \in Writers(V) /\ One(a, t).out = Append(a.out, t)
  BY <1>1, OneFacts
<1>4. ASSUME NEW T \in SUBSET ValueTags
      PROVE  Of(Append(a.out, t), T) = Of(a.out, T) \cup (IF tag \in T THEN {v} ELSE {})
  <2>1. Of(Append(a.out, t), T) = Of(a.out, T) \cup (IF t[1] \in T THEN {t[2]} ELSE {})
    BY <1>1, <1>2, OfAppend
  <2>2. QED BY <1>1, <2>1
<1>5. ListedMessages(Append(a.out, t)) = ListedMessages(a.out) + Weight(t)
  BY <1>1, <1>2, ListedAppend
<1> DEFINE e == One(a, t)
<1> HIDE DEF e
<1>6. /\ e \in Writers(V)
      /\ \A T \in SUBSET ValueTags :
           Of(e.out, T) = Of(a.out, T) \cup (IF tag \in T THEN {v} ELSE {})
      /\ ListedMessages(e.out) = ListedMessages(a.out) + Weight(t)
      /\ Refused(a) => Refused(e)
  BY <1>1, <1>3, <1>4, <1>5, RefusedOne DEF e
<1>7. Adds(V, a, e, tag, v)
  <2>1. Weight(t) = Weight(MarkedTag(tag, v))
    BY DEF t
  <2>2. QED BY <1>6, <2>1, Zenon DEF Adds
<1>8. QED BY <1>7, Zenon DEF e, t

LEMMA NeutralAdds ==
  ASSUME NEW V, NEW a, NEW b, NEW c, NEW tag, NEW v, Neutral(V, a, b), Adds(V, b, c, tag, v)
  PROVE  Adds(V, a, c, tag, v)
<1>1. ListedMessages(a.out) \in Int => ListedMessages(b.out) = ListedMessages(a.out)
  BY DEF Neutral
<1>2. /\ \A T \in SUBSET ValueTags : Of(b.out, T) = Of(a.out, T)
      /\ Refused(a) => Refused(b)
  BY DEF Neutral
<1>3. QED BY <1>1, <1>2, Zenon DEF Adds

LEMMA AddsNeutral ==
  ASSUME NEW V, NEW a, NEW b, NEW c, NEW tag, NEW v, Adds(V, a, b, tag, v), Neutral(V, b, c),
         Weight(MarkedTag(tag, v)) \in Int
  PROVE  Adds(V, a, c, tag, v)
<1>1. ListedMessages(a.out) \in Int =>
        /\ ListedMessages(b.out) = ListedMessages(a.out) + Weight(MarkedTag(tag, v))
        /\ ListedMessages(b.out) \in Int
  BY DEF Adds
<1>2. \A T \in SUBSET ValueTags : Of(c.out, T) = Of(b.out, T)
  BY DEF Neutral
<1>3. c \in Writers(V) /\ (Refused(b) => Refused(c))
  BY DEF Neutral
<1>4. ListedMessages(b.out) \in Int => ListedMessages(c.out) = ListedMessages(b.out)
  BY DEF Neutral
<1>5. QED BY <1>1, <1>2, <1>3, <1>4, Zenon DEF Adds

LEMMA NoWeight ==
  ASSUME NEW tag \in {"VAL", "PARAM", "EOT"}, NEW v
  PROVE  Weight(MarkedTag(tag, v)) = 0
  BY DEF Weight, MarkedTag

LEMMA ColumnValueAdds ==
  ASSUME NEW V, Int \subseteq V, NEW a \in Writers(V), NEW v \in V
  PROVE  Adds(V, a, ColumnValue(a, v), "VAL", v)
<1> DEFINE b1 == [a EXCEPT !.rows = TRUE, !.inRow = FALSE]
           w1 == IF a.rows THEN a ELSE Two(b1, Tag("/COLNAMES"), Tag("ROWS"))
           b2 == [w1 EXCEPT !.inRow = TRUE]
           w2 == IF w1.inRow THEN w1 ELSE One(b2, Tag("ROW"))
<1>1. ColumnValue(a, v) = One(w2, MarkedTag("VAL", v))
  BY Zenon DEF ColumnValue, One, Two, MarkedTag
<1>2. Neutral(V, a, w1)
  <2>1. b1 \in Writers(V) /\ b1.out = a.out
    BY DEF Writers
  <2> HIDE DEF b1
  <2>2. "/COLNAMES" \in Plain /\ "ROWS" \in Plain
    BY DEF Plain
  <2>3. Neutral(V, a, Two(b1, Tag("/COLNAMES"), Tag("ROWS"))) /\ Neutral(V, a, a)
    BY <2>1, <2>2, NeutralTwo, NeutralSame
  <2>4. QED BY <2>3
<1> HIDE DEF w1
<1>3. Neutral(V, w1, w2)
  <2>1. w1 \in Writers(V) /\ b2 \in Writers(V) /\ b2.out = w1.out
    BY <1>2 DEF Writers, Neutral
  <2> HIDE DEF b2
  <2>2. "ROW" \in Plain
    BY DEF Plain
  <2>3. Neutral(V, w1, One(b2, Tag("ROW"))) /\ Neutral(V, w1, w1)
    BY <2>1, <2>2, NeutralTag, NeutralSame
  <2>4. QED BY <2>3
<1> HIDE DEF w2
<1>4. Adds(V, w2, One(w2, MarkedTag("VAL", v)), "VAL", v)
  <2>1. "VAL" \in ValueTags
    BY DEF ValueTags
  <2>2. QED BY <1>3, <2>1, AddsOne DEF Neutral
<1>5. Neutral(V, a, w2)
  BY <1>2, <1>3, NeutralTrans
<1>6. QED BY <1>1, <1>4, <1>5, NeutralAdds

LEMMA ParamValueAdds ==
  ASSUME NEW V, NEW a \in Writers(V), NEW v \in V
  PROVE  Adds(V, a, ParamValue(a, v), "PARAM", v)
<1>1. "PARAM" \in ValueTags
  BY DEF ValueTags
<1>2. Adds(V, a, One(a, MarkedTag("PARAM", v)), "PARAM", v)
  BY <1>1, AddsOne
<1>3. QED BY <1>2, Zenon DEF ParamValue, One, MarkedTag

LEMMA WriteMsgAdds ==
  ASSUME NEW V, NEW a \in Writers(V), NEW v \in V
  PROVE  Adds(V, a, WriteMsg(a, v), "MSG", v)
<1>1. "MSG" \in ValueTags
  BY DEF ValueTags
<1>2. Adds(V, a, One(a, MarkedTag("MSG", v)), "MSG", v)
  BY <1>1, AddsOne
<1>3. QED BY <1>2, Zenon DEF WriteMsg, One, MarkedTag

\* The end of a response is its last token.
LEMMA EndResponseIs ==
  ASSUME NEW V, Int \subseteq V, NEW a \in Writers(V), NEW stat \in Int, NEW rc \in Int,
         NEW n \in Int
  PROVE  \E b \in Writers(V) :
           /\ Neutral(V, a, b) /\ Neutral(V, ListsClosed(a, n), b)
           /\ EndResponse(a, stat, rc, n) = One(b, MarkedTag("EOT", 0))
<1> DEFINE c == ListsClosed(a, n)
           flushed == IF rc <= -1 /\ stat >= 0 THEN -1500 + rc ELSE stat
           t1 == <<"STATUS", flushed>>
           t2 == Tag("/RESPONSE")
           t3 == Tag("EOT")
           r1 == One(c, t1)
           r2 == One(r1, t2)
<1>1. Neutral(V, a, c)
  BY ClosedNeutral
<1>2. EndResponse(a, stat, rc, n) = Three(c, t1, t2, t3)
  BY Zenon DEF EndResponse, Three, ListsClosed
<1> HIDE DEF c
<1>3. flushed \in Int
  OBVIOUS
<1> HIDE DEF flushed
<1>4. t1 \in Token(V) /\ t1[1] \notin ValueTags
  <2>1. "STATUS" \in Plain
    BY DEF Plain
  <2>2. flushed \in V
    BY <1>3
  <2>3. QED BY <2>1, <2>2, CountTag
<1>5. t2 \in Token(V) /\ t2[1] \notin ValueTags
  <2>1. "/RESPONSE" \in Plain
    BY DEF Plain
  <2>2. QED BY <2>1, PlainTag
<1>6. t3 = MarkedTag("EOT", 0) /\ t3 \in Token(V) /\ 0 \in V /\ "EOT" \in ValueTags
  <2>1. 0 \in V
    OBVIOUS
  <2>2. t3 = MarkedTag("EOT", 0)
    BY DEF Tag, MarkedTag
  <2>3. "EOT" \in ValueTags
    BY DEF ValueTags
  <2>4. t3 \in Token(V)
    BY <2>1, <2>2, <2>3 DEF Token, MarkedTag
  <2>5. QED BY <2>1, <2>2, <2>3, <2>4
<1> HIDE DEF t1, t2, t3
<1>7. Three(c, t1, t2, t3) = One(r2, t3)
  BY <1>1, <1>4, <1>5, <1>6, Steps DEF Neutral
<1>8. Neutral(V, c, r1)
  BY <1>1, <1>4, NeutralOne DEF Neutral
<1> HIDE DEF r1
<1>9. Neutral(V, r1, r2)
  BY <1>8, <1>5, NeutralOne DEF Neutral
<1> HIDE DEF r2
<1>11. Neutral(V, a, r1)
  BY <1>1, <1>8, NeutralTrans
<1>12. Neutral(V, a, r2) /\ Neutral(V, c, r2)
  BY <1>8, <1>9, <1>11, NeutralTrans
<1>13. r2 \in Writers(V) /\ EndResponse(a, stat, rc, n) = One(r2, MarkedTag("EOT", 0))
  BY <1>2, <1>6, <1>7, <1>9 DEF Neutral
<1>14. QED BY <1>12, <1>13 DEF c

LEMMA EndResponseAdds ==
  ASSUME NEW V, Int \subseteq V, NEW a \in Writers(V), NEW stat \in Int, NEW rc \in Int,
         NEW n \in Int
  PROVE  /\ Adds(V, a, EndResponse(a, stat, rc, n), "EOT", 0)
         /\ Refused(ListsClosed(a, n)) => Refused(EndResponse(a, stat, rc, n))
<1>1. PICK b \in Writers(V) :
        /\ Neutral(V, a, b) /\ Neutral(V, ListsClosed(a, n), b)
        /\ EndResponse(a, stat, rc, n) = One(b, MarkedTag("EOT", 0))
  BY EndResponseIs
<1>2. Adds(V, b, One(b, MarkedTag("EOT", 0)), "EOT", 0)
  BY AddsOne DEF ValueTags
<1>3. Adds(V, a, EndResponse(a, stat, rc, n), "EOT", 0)
  BY <1>1, <1>2, NeutralAdds
<1>4. Refused(ListsClosed(a, n)) => Refused(One(b, MarkedTag("EOT", 0)))
  BY <1>1, <1>2 DEF Neutral, Adds
<1>5. QED BY <1>1, <1>3, <1>4

LEMMA FreshFacts ==
  ASSUME NEW V
  PROVE  /\ FreshWriter \in Writers(V)
         /\ \A T \in SUBSET ValueTags : Of(FreshWriter.out, T) = {}
         /\ ListedMessages(FreshWriter.out) = 0
<1>1. FreshWriter.out = <<>>
  BY DEF FreshWriter
<1>2. FreshWriter \in Writers(V)
  BY DEF FreshWriter, Writers, Tokens
<1>3. QED BY <1>1, <1>2, OfEmpty, ListedEmpty

\* The list of messages: those that have room, the last one of them with the
\* number of the others.
MsgNo(m, i) == IF i = MaxMsgs THEN m + 1 - MaxMsgs ELSE 0
Lists(f, a, m, n) ==
  f = [i \in 0..n |-> IF i = 0 THEN BeginMsg(a, nbRows) ELSE WriteMsg(f[i - 1], MsgNo(m, i))]

LEMMA ListsExists ==
  ASSUME NEW a, NEW m, NEW k \in Nat
  PROVE  \E f : Lists(f, a, m, k)
<1> DEFINE S == {n \in Nat : \E f : Lists(f, a, m, n)}
<1>1. 0 \in S
  <2> DEFINE f0 == [i \in 0..0 |-> BeginMsg(a, nbRows)]
  <2>1. f0 = [i \in 0..0 |-> IF i = 0 THEN BeginMsg(a, nbRows) ELSE WriteMsg(f0[i - 1], MsgNo(m, i))]
    OBVIOUS
  <2>2. Lists(f0, a, m, 0)
    BY <2>1 DEF Lists
  <2>3. QED BY <2>2
<1>2. ASSUME NEW n \in Nat, n \in S PROVE n + 1 \in S
  <2>1. PICK f : Lists(f, a, m, n)
    BY <1>2
  <2> DEFINE g == [i \in 0..(n + 1) |-> IF i = n + 1 THEN WriteMsg(f[n], MsgNo(m, n + 1)) ELSE f[i]]
  <2>2. ASSUME NEW i \in 0..(n + 1)
        PROVE  g[i] = IF i = 0 THEN BeginMsg(a, nbRows) ELSE WriteMsg(g[i - 1], MsgNo(m, i))
    <3>1. CASE i = n + 1
      <4>1. i # 0 /\ n \in 0..(n + 1) /\ n # n + 1 /\ i - 1 = n
        BY <3>1
      <4>2. g[i] = WriteMsg(f[n], MsgNo(m, n + 1)) /\ g[n] = f[n]
        BY <3>1, <4>1
      <4>3. QED BY <3>1, <4>1, <4>2
    <3>2. CASE i # n + 1
      <4>1. i \in 0..n
        BY <3>2
      <4>2. g[i] = f[i]
        BY <3>2
      <4>3. i # 0 => i - 1 \in 0..(n + 1) /\ i - 1 # n + 1
        BY <4>1
      <4>4. i # 0 => g[i - 1] = f[i - 1]
        BY <4>3
      <4>5. f[i] = IF i = 0 THEN BeginMsg(a, nbRows) ELSE WriteMsg(f[i - 1], MsgNo(m, i))
        BY <2>1, <4>1 DEF Lists
      <4>6. QED BY <4>2, <4>4, <4>5
    <3>3. QED BY <3>1, <3>2
  <2>3. g = [i \in 0..(n + 1) |-> g[i]]
    OBVIOUS
  <2> HIDE DEF g
  <2>4. Lists(g, a, m, n + 1)
    BY <2>2, <2>3 DEF Lists
  <2>5. QED BY <2>4
<1> HIDE DEF S
<1>3. Nat \subseteq S
  BY <1>1, <1>2, AllNumbers
<1> USE DEF S
<1>4. k \in S
  BY <1>3
<1>5. QED BY <1>4

LEMMA WithMessagesIs ==
  ASSUME NEW a, NEW m, Smaller(m, MaxMsgs) \in Nat
  PROVE  \E f : /\ Lists(f, a, m, Smaller(m, MaxMsgs))
                /\ WithMessages(a, m) = IF m = 0 THEN a ELSE EndMsg(f[Smaller(m, MaxMsgs)])
<1> DEFINE c == CHOOSE f : f = [i \in 0..Smaller(m, MaxMsgs) |->
                  IF i = 0 THEN BeginMsg(a, nbRows)
                  ELSE WriteMsg(f[i - 1], IF i = MaxMsgs THEN m + 1 - MaxMsgs ELSE 0)]
<1>1. c = [i \in 0..Smaller(m, MaxMsgs) |->
             IF i = 0 THEN BeginMsg(a, nbRows)
             ELSE WriteMsg(c[i - 1], IF i = MaxMsgs THEN m + 1 - MaxMsgs ELSE 0)]
  <2>1. \E f : f = [i \in 0..Smaller(m, MaxMsgs) |->
             IF i = 0 THEN BeginMsg(a, nbRows)
             ELSE WriteMsg(f[i - 1], IF i = MaxMsgs THEN m + 1 - MaxMsgs ELSE 0)]
    <3>1. \E f : Lists(f, a, m, Smaller(m, MaxMsgs))
      BY ListsExists
    <3>2. QED BY <3>1, Zenon DEF Lists, MsgNo
  <2>2. QED BY <2>1, Zenon
<1>2. Lists(c, a, m, Smaller(m, MaxMsgs))
  BY <1>1, Zenon DEF Lists, MsgNo
<1>3. WithMessages(a, m) = IF m = 0 THEN a ELSE EndMsg(c[Smaller(m, MaxMsgs)])
  BY Zenon DEF WithMessages
<1> HIDE DEF c
<1>4. QED BY <1>2, <1>3

\* What a list of i messages of m adds.
Counted(m, i) == IF i = MaxMsgs THEN m ELSE i

LEMMA WithMessagesAdds ==
  ASSUME NEW a \in Writers(Int), NEW m \in Nat, nbRows \in Int, MaxMsgs \in Nat \ {0},
         ListedMessages(a.out) \in Int
  PROVE  /\ WithMessages(a, m) \in Writers(Int)
         /\ \A T \in SUBSET (ValueTags \ {"MSG"}) : Of(WithMessages(a, m).out, T) = Of(a.out, T)
         /\ ListedMessages(WithMessages(a, m).out) = ListedMessages(a.out) + m
         /\ m # 0 /\ Refused(BeginMsg(a, nbRows)) => Refused(WithMessages(a, m))
         /\ m = 0 => WithMessages(a, m) = a
<1> DEFINE K == Smaller(m, MaxMsgs)
<1>1. K \in Nat /\ K <= m /\ K <= MaxMsgs /\ (K = m \/ K = MaxMsgs)
  BY DEF Smaller
<1>2. PICK f : /\ Lists(f, a, m, K)
               /\ WithMessages(a, m) = IF m = 0 THEN a ELSE EndMsg(f[K])
  BY <1>1, WithMessagesIs
<1> HIDE DEF K
<1>3. \A i \in 0..K : f[i] = IF i = 0 THEN BeginMsg(a, nbRows) ELSE WriteMsg(f[i - 1], MsgNo(m, i))
  BY <1>2 DEF Lists
<1> DEFINE Good(b, n) ==
             /\ b \in Writers(Int)
             /\ \A T \in SUBSET (ValueTags \ {"MSG"}) : Of(b.out, T) = Of(a.out, T)
             /\ ListedMessages(b.out) = ListedMessages(a.out) + Counted(m, n)
             /\ Refused(BeginMsg(a, nbRows)) => Refused(b)
           S == {n \in Nat : n \in 0..K => Good(f[n], n)}
<1>4. 0 \in S
  <2>1. f[0] = BeginMsg(a, nbRows)
    BY <1>1, <1>3
  <2>2. Neutral(Int, a, BeginMsg(a, nbRows))
    BY BeginMsgNeutral
  <2>3. Counted(m, 0) = 0
    BY DEF Counted
  <2>4. Good(f[0], 0)
    BY <2>1, <2>2, <2>3 DEF Neutral
  <2>5. QED BY <2>4
<1>5. ASSUME NEW n \in Nat, n \in S PROVE n + 1 \in S
  <2>1. SUFFICES ASSUME n + 1 \in 0..K PROVE Good(f[n + 1], n + 1)
    OBVIOUS
  <2> DEFINE b == f[n]
             v == MsgNo(m, n + 1)
  <2>2. n \in 0..K /\ n + 1 # 0 /\ (n + 1) - 1 = n /\ n # MaxMsgs /\ n + 1 <= MaxMsgs
    BY <1>1, <2>1
  <2>3. Good(b, n)
    BY <1>5, <2>2
  <2>4. f[n + 1] = WriteMsg(b, v)
    BY <1>3, <2>1, <2>2
  <2>5. v \in Int /\ Weight(MarkedTag("MSG", v)) \in Int
        /\ Counted(m, n) + Weight(MarkedTag("MSG", v)) = Counted(m, n + 1)
    <3>1. CASE n + 1 = MaxMsgs
      <4>1. v = m + 1 - MaxMsgs /\ K = MaxMsgs
        BY <1>1, <2>1, <3>1 DEF MsgNo
      <4>2. v \in Int /\ v >= 1
        BY <1>1, <4>1
      <4>3. Weight(MarkedTag("MSG", v)) = v
        BY <4>2 DEF Weight, MarkedTag
      <4>4. Counted(m, n) = n /\ Counted(m, n + 1) = m
        BY <2>2, <3>1 DEF Counted
      <4>5. QED BY <3>1, <4>1, <4>2, <4>3, <4>4
    <3>2. CASE n + 1 # MaxMsgs
      <4>1. v = 0
        BY <3>2 DEF MsgNo
      <4>2. Weight(MarkedTag("MSG", 0)) = 1
        BY DEF Weight, MarkedTag
      <4>3. Counted(m, n) = n /\ Counted(m, n + 1) = n + 1
        BY <2>2, <3>2 DEF Counted
      <4>4. QED BY <4>1, <4>2, <4>3
    <3>3. QED BY <3>1, <3>2
  <2> HIDE DEF b, v
  <2>6. Adds(Int, b, WriteMsg(b, v), "MSG", v)
    BY <2>3, <2>5, WriteMsgAdds
  <2> DEFINE c == WriteMsg(b, v)
  <2> HIDE DEF c
  <2>7. Counted(m, n) \in Int
    BY DEF Counted
  <2>8. ListedMessages(c.out) = ListedMessages(a.out) + Counted(m, n + 1)
    <3>1. ListedMessages(b.out) = ListedMessages(a.out) + Counted(m, n)
      BY <2>3
    <3>2. ListedMessages(b.out) \in Int
      BY <2>7, <3>1
    <3>3. ListedMessages(c.out) = ListedMessages(b.out) + Weight(MarkedTag("MSG", v))
      BY <2>6, <3>2 DEF Adds, c
    <3>4. QED BY <2>5, <2>7, <3>1, <3>3
  <2>9. \A T \in SUBSET (ValueTags \ {"MSG"}) : Of(c.out, T) = Of(a.out, T)
    <3>1. ASSUME NEW T \in SUBSET (ValueTags \ {"MSG"}) PROVE Of(c.out, T) = Of(a.out, T)
      <4>1. T \in SUBSET ValueTags /\ "MSG" \notin T
        OBVIOUS
      <4>2. Of(c.out, T) = Of(b.out, T)
        BY <2>6, <4>1 DEF Adds, c
      <4>3. QED BY <2>3, <4>2
    <3>2. QED BY <3>1
  <2>10. c \in Writers(Int) /\ (Refused(BeginMsg(a, nbRows)) => Refused(c))
    BY <2>3, <2>6 DEF Adds, c
  <2>11. QED BY <2>4, <2>8, <2>9, <2>10 DEF c
<1> HIDE DEF S
<1>6. Nat \subseteq S
  BY <1>4, <1>5, AllNumbers
<1> USE DEF S
<1>7. Good(f[K], K)
  <2>1. K \in S /\ K \in 0..K
    BY <1>1, <1>6
  <2>2. QED BY <2>1
<1>8. Counted(m, K) = m
  BY <1>1 DEF Counted
<1> HIDE DEF S
<1> DEFINE b == f[K]
<1> HIDE DEF b
<1>9. /\ b \in Writers(Int) /\ ListedMessages(b.out) = ListedMessages(a.out) + m
      /\ \A T \in SUBSET (ValueTags \ {"MSG"}) : Of(b.out, T) = Of(a.out, T)
      /\ Refused(BeginMsg(a, nbRows)) => Refused(b)
  BY <1>7, <1>8 DEF b
<1>10. Neutral(Int, b, EndMsg(b))
  BY <1>9, EndMsgNeutral
<1> DEFINE e == EndMsg(b)
<1> HIDE DEF e
<1>11. /\ e \in Writers(Int) /\ ListedMessages(e.out) = ListedMessages(a.out) + m
       /\ \A T \in SUBSET (ValueTags \ {"MSG"}) : Of(e.out, T) = Of(a.out, T)
       /\ Refused(BeginMsg(a, nbRows)) => Refused(e)
  <2>1. /\ e \in Writers(Int) /\ ListedMessages(b.out) \in Int
        /\ ListedMessages(e.out) = ListedMessages(b.out)
        /\ Refused(b) => Refused(e)
    BY <1>9, <1>10 DEF Neutral, e
  <2>2. \A T \in SUBSET ValueTags : Of(e.out, T) = Of(b.out, T)
    BY <1>10 DEF Neutral, e
  <2>3. QED BY <1>9, <2>1, <2>2
<1>12. WithMessages(a, m) = IF m = 0 THEN a ELSE e
  BY <1>2, Zenon DEF e, b
<1>13. CASE m = 0
  <2>1. WithMessages(a, m) = a
    BY <1>12, <1>13
  <2>2. QED BY <1>13, <2>1
<1>14. CASE m # 0
  <2>1. WithMessages(a, m) = e
    BY <1>12, <1>14
  <2>2. QED BY <1>11, <1>14, <2>1
<1>15. QED BY <1>13, <1>14

\* What was written between two states of a writer has its rows and its output
\* parameters from S, and no message.
RowTags == {"VAL", "PARAM"}
Writes(V, a, b, S) ==
  /\ b \in Writers(V) /\ (Refused(a) => Refused(b))
  /\ Of(b.out, RowTags) \subseteq Of(a.out, RowTags) \cup S
  /\ ListedMessages(a.out) = 0 => ListedMessages(b.out) = 0

LEMMA NeutralWrites ==
  ASSUME NEW V, NEW a, NEW b, NEW S, Neutral(V, a, b)
  PROVE  Writes(V, a, b, S)
<1>1. RowTags \in SUBSET ValueTags
  BY DEF RowTags, ValueTags
<1>2. Of(b.out, RowTags) = Of(a.out, RowTags)
  BY <1>1 DEF Neutral
<1>3. ListedMessages(a.out) = 0 => ListedMessages(b.out) = 0
  BY DEF Neutral
<1>4. QED BY <1>2, <1>3 DEF Writes, Neutral

LEMMA AddsWrites ==
  ASSUME NEW V, NEW a, NEW b, NEW tag \in {"VAL", "PARAM", "EOT"}, NEW v, Adds(V, a, b, tag, v),
         NEW S, tag # "EOT" => v \in S
  PROVE  Writes(V, a, b, S)
<1>1. RowTags \in SUBSET ValueTags /\ "EOT" \notin RowTags
  BY DEF RowTags, ValueTags
<1>2. Of(b.out, RowTags) = Of(a.out, RowTags) \cup (IF tag \in RowTags THEN {v} ELSE {})
  BY <1>1 DEF Adds
<1>3. ListedMessages(a.out) = 0 => ListedMessages(b.out) = 0
  BY NoWeight DEF Adds
<1>4. QED BY <1>1, <1>2, <1>3 DEF Writes, Adds

LEMMA WritesTrans ==
  ASSUME NEW V, NEW a, NEW b, NEW c, NEW S, Writes(V, a, b, S), Writes(V, b, c, S)
  PROVE  Writes(V, a, c, S)
  BY DEF Writes

LEMMA EndWrites ==
  ASSUME NEW V, Int \subseteq V, NEW a \in Writers(V), NEW stat \in Int, NEW rc \in Int,
         NEW n \in Int, NEW S
  PROVE  Writes(V, a, EndResponse(a, stat, rc, n), S)
<1>1. Adds(V, a, EndResponse(a, stat, rc, n), "EOT", 0)
  BY EndResponseAdds
<1>2. QED BY <1>1, AddsWrites

\* A result set of one column, one value and one row.
LEMMA RowWrites ==
  ASSUME NEW V, Int \subseteq V, NEW a \in Writers(V), NEW v \in V
  PROVE  Writes(V, a, EndColumnValues(ColumnValue(a, v)), {v})
<1> DEFINE b == ColumnValue(a, v)
<1>1. Writes(V, a, b, {v})
  <2>1. Adds(V, a, b, "VAL", v)
    BY ColumnValueAdds
  <2> HIDE DEF b
  <2>2. QED BY <2>1, AddsWrites
<1> HIDE DEF b
<1>2. Neutral(V, b, EndColumnValues(b))
  BY <1>1, EndColumnValuesNeutral DEF Writes
<1> DEFINE c == EndColumnValues(b)
<1> HIDE DEF c
<1>3. Writes(V, b, c, {v})
  BY <1>2, NeutralWrites DEF c
<1>4. Writes(V, a, c, {v})
  BY <1>1, <1>3, WritesTrans
<1>5. QED BY <1>4 DEF c, b

LEMMA HeaderNeutral ==
  ASSUME NEW V, Int \subseteq V, NEW a \in Writers(V), NEW s \in Int, NEW n \in Int
  PROVE  Neutral(V, a, ColumnName(BeginResultSet(a, s, n)))
<1> DEFINE b == BeginResultSet(a, s, n)
<1>1. Neutral(V, a, b)
  BY BeginSetNeutral
<1> HIDE DEF b
<1>2. Neutral(V, b, ColumnName(b))
  BY <1>1, ColumnNameNeutral DEF Neutral
<1>3. Neutral(V, a, ColumnName(b))
  BY <1>1, <1>2, NeutralTrans
<1>4. QED BY <1>3 DEF b

\* An answer of a status alone.
LEMMA StatusWrites ==
  ASSUME NEW V, Int \subseteq V, NEW stat \in Int, NEW n \in Int
  PROVE  /\ EndResponse(FreshWriter, stat, 0, n) \in Writers(V)
         /\ Of(EndResponse(FreshWriter, stat, 0, n).out, RowTags) = {}
         /\ ListedMessages(EndResponse(FreshWriter, stat, 0, n).out) = 0
<1> DEFINE e == EndResponse(FreshWriter, stat, 0, n)
<1>1. /\ FreshWriter \in Writers(V) /\ Of(FreshWriter.out, RowTags) = {}
      /\ ListedMessages(FreshWriter.out) = 0
  <2>1. RowTags \in SUBSET ValueTags
    BY DEF RowTags, ValueTags
  <2>2. QED BY <2>1, FreshFacts
<1>2. Writes(V, FreshWriter, e, {})
  BY <1>1, EndWrites
<1> HIDE DEF e
<1>3. e \in Writers(V) /\ Of(e.out, RowTags) = {} /\ ListedMessages(e.out) = 0
  BY <1>1, <1>2 DEF Writes
<1>4. QED BY <1>3 DEF e

\* A row, its result set and a status.
LEMMA OneRowWrites ==
  ASSUME NEW V, Int \subseteq V, NEW v \in V, NEW stat \in Int, NEW rc \in Int, NEW n \in Int
  PROVE  LET e == EndResponse(EndColumnValues(ColumnValue(
                    ColumnName(BeginResultSet(FreshWriter, 1, 0)), v)), stat, rc, n)
         IN Writes(V, FreshWriter, e, {v})
<1> DEFINE h == ColumnName(BeginResultSet(FreshWriter, 1, 0))
           r == EndColumnValues(ColumnValue(h, v))
           e == EndResponse(r, stat, rc, n)
<1>1. FreshWriter \in Writers(V)
  BY FreshFacts
<1>2. Neutral(V, FreshWriter, h)
  BY <1>1, HeaderNeutral
<1> HIDE DEF h
<1>3. Writes(V, FreshWriter, h, {v})
  BY <1>2, NeutralWrites
<1>4. h \in Writers(V)
  BY <1>3 DEF Writes
<1>5. Writes(V, h, r, {v})
  BY <1>4, RowWrites, Zenon
<1> HIDE DEF r
<1>6. r \in Writers(V)
  BY <1>5 DEF Writes
<1>7. Writes(V, r, e, {v})
  BY <1>6, EndWrites, Zenon
<1> HIDE DEF e
<1>8. Writes(V, FreshWriter, r, {v})
  BY <1>3, <1>5, WritesTrans
<1>9. Writes(V, FreshWriter, e, {v})
  BY <1>7, <1>8, WritesTrans
<1>10. QED BY <1>9, Zenon DEF e, r, h

-----------------------------------------------------------------------------
(* xml2syb: the messages of a call, and the rows of its response           *)

SybCall ==
  [tries : Nat, present : BOOLEAN, rc : Int, status : Int, diag : Diags, reset : BOOLEAN,
   paramsErr : BOOLEAN, timedOut : BOOLEAN, nbMsg : Nat, set : Nat, open : {"no", "rows", "params"},
   rows : Nat, half : BOOLEAN, raised : Nat, answered : BOOLEAN, cut : BOOLEAN]

SybTyped == w \in Writers(Int) /\ nbRows \in Int /\ call \in SybCall

\* Until a call is answered its messages are counted and none is listed; then
\* they are listed.
MessagesInv ==
  /\ pc \in {"exec", "decide"} =>
       ~call.answered /\ call.nbMsg = call.raised /\ ListedMessages(w.out) = 0
  /\ pc \notin {"exec", "decide", "gone"} /\ call.answered =>
       ListedMessages(w.out) = call.raised

SybInv == SybTyped /\ MessagesInv

LEMMA StatusesAreInt ==
  /\ NoStatus \in Int /\ NO_DS_CONN \in Int /\ TIMEOUT_STATUS \in Int /\ FATAL_STATUS \in Int
  /\ DEADLOCK_STATUS \in Int /\ TOO_MANY_FATALS \in Int
  BY DEF NoStatus, NO_DS_CONN, TIMEOUT_STATUS, FATAL_STATUS, DEADLOCK_STATUS, TOO_MANY_FATALS

LEMMA NewCallTyped == NewCall \in SybCall
  BY StatusesAreInt DEF NewCall, SybCall, Diags

LEMMA SybInitInv == SybInit => SybInv
<1> SUFFICES ASSUME SybInit PROVE SybInv
  OBVIOUS
<1>1. /\ pc = "init" /\ w = FreshWriter /\ nbRows = 0 /\ call = [NewCall EXCEPT !.answered = TRUE]
  BY DEF SybInit
<1>2. call \in SybCall /\ call.raised = 0
  <2>1. NewCall \in SybCall /\ NewCall.raised = 0
    BY NewCallTyped DEF NewCall
  <2> HIDE DEF NewCall
  <2>2. QED BY <1>1, <2>1 DEF SybCall
<1>3. w \in Writers(Int) /\ ListedMessages(w.out) = 0
  BY <1>1, FreshFacts
<1>4. QED BY <1>1, <1>2, <1>3 DEF SybInv, SybTyped, MessagesInv

LEMMA StartsTyped ==
  Starts \in SybCall /\ Starts.raised = 0 /\ Starts.answered = TRUE /\ Starts.cut = FALSE
<1>1. NewCall \in SybCall /\ NewCall.raised = 0 /\ NewCall.cut = FALSE
  BY NewCallTyped DEF NewCall
<1> HIDE DEF NewCall
<1>2. QED BY <1>1 DEF SybCall, Starts

\* A call that is answered with a status alone.
LEMMA AnsweredAlone ==
  ASSUME SybInv, NEW stat \in Int, NEW n \in Int,
         w' = EndResponse(FreshWriter, stat, 0, n), call' = Starts, nbRows' = nbRows,
         pc' \notin {"exec", "decide"}
  PROVE  SybInv' /\ Of(w.out, RowTags)' = {}
<1>1. w' \in Writers(Int) /\ ListedMessages(w.out)' = 0 /\ Of(w.out, RowTags)' = {}
  BY StatusWrites
<1>2. call' \in SybCall /\ call'.raised = 0 /\ call'.answered = TRUE
  BY StartsTyped
<1> HIDE DEF Starts
<1>3. QED BY <1>1, <1>2 DEF SybInv, SybTyped, MessagesInv

LEMMA LoginResponseFacts ==
  ASSUME NEW stat \in Int
  PROVE  /\ LoginResponse(stat) \in Writers(Int)
         /\ Of(LoginResponse(stat).out, RowTags) \subseteq {0}
         /\ ListedMessages(LoginResponse(stat).out) = 0
<1> DEFINE e == LoginResponse(stat)
<1>1. Writes(Int, FreshWriter, e, {0})
  <2>1. Writes(Int, FreshWriter, EndResponse(EndColumnValues(ColumnValue(
                    ColumnName(BeginResultSet(FreshWriter, 1, 0)), 0)), stat, 0, 1), {0})
    BY OneRowWrites
  <2>2. QED BY <2>1, Zenon DEF LoginResponse
<1> HIDE DEF e
<1>2. Of(FreshWriter.out, RowTags) = {} /\ ListedMessages(FreshWriter.out) = 0
  <2>1. RowTags \in SUBSET ValueTags
    BY DEF RowTags, ValueTags
  <2>2. QED BY <2>1, FreshFacts
<1>3. e \in Writers(Int) /\ Of(e.out, RowTags) \subseteq {0} /\ ListedMessages(e.out) = 0
  BY <1>1, <1>2 DEF Writes
<1>4. QED BY <1>3 DEF e

\* The steps of the execution that write nothing, or write Emit's rows.
LEMMA ExecutionStepInv ==
  ASSUME SybInv, ExecutionStep
  PROVE  SybInv'
<1>1. /\ pc = "exec" /\ pc' = pc /\ w \in Writers(Int) /\ nbRows \in Int /\ call \in SybCall
      /\ ~call.answered /\ call.nbMsg = call.raised /\ ListedMessages(w.out) = 0
  BY DEF SybInv, SybTyped, MessagesInv, ExecutionStep, Message, TimesOut, Row, BeginParams,
         ParamShown, ParamFails, BeginSet, SetDone, RowFails, Another, Processing
<1>2. SUFFICES /\ w' \in Writers(Int) /\ ListedMessages(w'.out) = 0 /\ nbRows' \in Int
               /\ call' \in SybCall /\ ~call'.answered /\ call'.nbMsg = call'.raised
  BY <1>1 DEF SybInv, SybTyped, MessagesInv
<1>2a. CASE Message
  <2> DEFINE k == call.nbMsg + 1
             m == call.raised + 1
  <2>1. call' = [call EXCEPT !.nbMsg = k, !.raised = m] /\ w' = w /\ nbRows' = nbRows
    BY <1>2a DEF Message
  <2>2. k \in Nat /\ m \in Nat /\ k = m
    BY <1>1 DEF SybCall
  <2> HIDE DEF k, m
  <2>3. QED BY <1>1, <2>1, <2>2 DEF SybCall
<1>2b. CASE TimesOut
  BY <1>1, <1>2b DEF TimesOut, SybCall
<1>3. ASSUME NEW b \in BOOLEAN, SetDone(b)
      PROVE  /\ w' \in Writers(Int) /\ ListedMessages(w'.out) = 0 /\ nbRows' \in Int
             /\ call' \in SybCall /\ ~call'.answered /\ call'.nbMsg = call'.raised
  <2> DEFINE g == call.cut \/ call.half
  <2>1. /\ w' = w /\ nbRows' \in {call.rows, nbRows}
        /\ call' = [call EXCEPT !.open = "no", !.half = FALSE, !.cut = g]
    BY <1>3 DEF SetDone
  <2>2. g \in BOOLEAN
    BY <1>1 DEF SybCall
  <2> HIDE DEF g
  <2>3. call' \in SybCall
    BY <1>1, <2>1, <2>2 DEF SybCall
  <2>4. call'.answered = call.answered /\ call'.nbMsg = call.nbMsg /\ call'.raised = call.raised
    BY <1>1, <2>1 DEF SybCall
  <2>5. call.rows \in Int
    BY <1>1 DEF SybCall
  <2>6. QED BY <1>1, <2>1, <2>3, <2>4, <2>5
<1>4. CASE Row
  <2>1. /\ w' = EndColumnValues(ColumnValue(ColumnValue(w, call.tries), call.tries))
        /\ call' = [call EXCEPT !.rows = @ + 1, !.half = FALSE] /\ nbRows' = nbRows
    BY <1>4 DEF Row
  <2>2. call.tries \in Int
    BY <1>1 DEF SybCall
  <2> DEFINE b == ColumnValue(w, call.tries)
  <2>3. Writes(Int, w, b, Int)
    <3>1. Adds(Int, w, b, "VAL", call.tries)
      BY <1>1, <2>2, ColumnValueAdds
    <3> HIDE DEF b
    <3>2. QED BY <2>2, <3>1, AddsWrites
  <2> HIDE DEF b
  <2>4. Writes(Int, b, w', {call.tries})
    BY <2>1, <2>2, <2>3, RowWrites DEF Writes, b
  <2>5. w' \in Writers(Int) /\ ListedMessages(w'.out) = 0
    BY <1>1, <2>3, <2>4 DEF Writes
  <2>6. call.rows + 1 \in Nat
    BY <1>1 DEF SybCall
  <2>7. call' \in SybCall
    BY <1>1, <2>1, <2>6 DEF SybCall
  <2>8. call'.answered = call.answered /\ call'.nbMsg = call.nbMsg /\ call'.raised = call.raised
    BY <1>1, <2>1 DEF SybCall
  <2>9. QED BY <1>1, <2>1, <2>5, <2>7, <2>8
<1>5. CASE BeginParams
  <2>1. /\ w' = BeginOutputParams(w, nbRows) /\ nbRows' = nbRows
        /\ call' = [call EXCEPT !.present = TRUE, !.open = "params", !.rows = 0, !.half = TRUE]
    BY <1>5 DEF BeginParams
  <2>2. Neutral(Int, w, w')
    BY <1>1, <2>1, BeginParamsNeutral
  <2>3. w' \in Writers(Int) /\ ListedMessages(w'.out) = 0
    BY <1>1, <2>2 DEF Neutral
  <2>4. QED BY <1>1, <2>1, <2>3 DEF SybCall
<1>5a. CASE ParamShown
  <2>1. /\ w' = ParamValue(w, call.tries) /\ nbRows' = nbRows
        /\ call' = [call EXCEPT !.rows = @ + 1, !.half = FALSE]
    BY <1>5a DEF ParamShown
  <2>2. call.tries \in Int
    BY <1>1 DEF SybCall
  <2>3. Adds(Int, w, w', "PARAM", call.tries)
    BY <1>1, <2>1, <2>2, ParamValueAdds
  <2>4. Writes(Int, w, w', Int)
    BY <2>2, <2>3, AddsWrites
  <2>5. w' \in Writers(Int) /\ ListedMessages(w'.out) = 0
    BY <1>1, <2>4 DEF Writes
  <2>6. call.rows + 1 \in Nat
    BY <1>1 DEF SybCall
  <2>7. call' \in SybCall
    BY <1>1, <2>1, <2>6 DEF SybCall
  <2>8. call'.answered = call.answered /\ call'.nbMsg = call.nbMsg /\ call'.raised = call.raised
    BY <1>1, <2>1 DEF SybCall
  <2>9. QED BY <1>1, <2>1, <2>5, <2>7, <2>8
<1>5b. CASE ParamFails
  BY <1>1, <1>5b DEF ParamFails, SybCall
<1>6. ASSUME NEW b \in BOOLEAN, BeginSet(b)
      PROVE  /\ w' \in Writers(Int) /\ ListedMessages(w'.out) = 0 /\ nbRows' \in Int
             /\ call' \in SybCall /\ ~call'.answered /\ call'.nbMsg = call'.raised
  <2> DEFINE s == call.set + 1
             h == ColumnName(BeginResultSet(w, call'.set, nbRows))
  <2>1. s \in Nat
    BY <1>1 DEF SybCall
  <2> HIDE DEF s
  <2>2. /\ call' = [call EXCEPT !.set = s, !.present = TRUE, !.rows = 0,
                                !.open = IF b THEN "no" ELSE "rows"]
        /\ w' = IF b THEN w ELSE ColumnName(h)
        /\ nbRows' = nbRows
    BY <1>6 DEF BeginSet, s
  <2>3. call' \in SybCall /\ call'.set = s /\ ~call'.answered /\ call'.nbMsg = call'.raised
    BY <1>1, <2>1, <2>2 DEF SybCall
  <2>4. Neutral(Int, w, h)
    BY <1>1, <2>1, <2>3, HeaderNeutral
  <2> HIDE DEF h
  <2>5. Neutral(Int, h, ColumnName(h))
    BY <2>4, ColumnNameNeutral DEF Neutral
  <2>6. Neutral(Int, w, ColumnName(h))
    BY <2>4, <2>5, NeutralTrans
  <2>7. Neutral(Int, w, w)
    BY <1>1, NeutralSame
  <2>8. w' \in Writers(Int) /\ ListedMessages(w'.out) = 0
    BY <1>1, <2>2, <2>6, <2>7 DEF Neutral
  <2>9. QED BY <1>1, <2>2, <2>3, <2>8
<1>7. ASSUME NEW column \in 1..2, RowFails(column)
      PROVE  /\ w' \in Writers(Int) /\ ListedMessages(w'.out) = 0 /\ nbRows' \in Int
             /\ call' \in SybCall /\ ~call'.answered /\ call'.nbMsg = call'.raised
  <2> DEFINE b == ColumnValue(w, call.tries)
             g == call.half \/ column # 1
             r == call.rows + 1
  <2>1. /\ w' = IF column = 1 THEN w ELSE b
        /\ call' = [call EXCEPT !.rows = r, !.half = g]
        /\ nbRows' = nbRows
    BY <1>7 DEF RowFails
  <2>1a. g \in BOOLEAN /\ r \in Nat
    BY <1>1 DEF SybCall
  <2> HIDE DEF g, r
  <2>2. call.tries \in Int
    BY <1>1 DEF SybCall
  <2>3. Adds(Int, w, b, "VAL", call.tries)
    BY <1>1, <2>2, ColumnValueAdds
  <2> HIDE DEF b
  <2>4. Writes(Int, w, b, Int)
    BY <2>2, <2>3, AddsWrites
  <2>5. w' \in Writers(Int) /\ ListedMessages(w'.out) = 0
    BY <1>1, <2>1, <2>4 DEF Writes
  <2>6. call' \in SybCall /\ ~call'.answered /\ call'.nbMsg = call'.raised
    BY <1>1, <2>1, <2>1a DEF SybCall
  <2>7. QED BY <1>1, <2>1, <2>5, <2>6
<1>8. QED BY <1>2a, <1>2b, <1>3, <1>4, <1>5, <1>5a, <1>5b, <1>6, <1>7 DEF ExecutionStep

LEMMA AnswersInv ==
  ASSUME SybInv, NEW flushed \in BOOLEAN,
         Ping(flushed) \/ Refuse(flushed) \/ BadParameter(flushed)
           \/ \E stat \in {0, 401, 402, NO_DS_CONN} : Kill(stat, flushed)
  PROVE  SybInv' /\ Of(w.out, RowTags)' = {}
<1>1. nbRows \in Int /\ 0 \in Int /\ 1 \in Int
  BY DEF SybInv, SybTyped
<1>2. PICK stat \in Int, n \in Int :
        w' = EndResponse(FreshWriter, stat, 0, n) /\ call' = Starts /\ nbRows' = nbRows
          /\ pc' = NextCall
  <2>1. CASE Ping(flushed)
    BY <1>1, <2>1, Zenon DEF Ping, Responds
  <2>2. CASE Refuse(flushed)
    BY <1>1, <2>2, StatusesAreInt, Zenon DEF Refuse, Responds
  <2>3. CASE BadParameter(flushed)
    BY <1>1, <2>3, StatusesAreInt, Zenon DEF BadParameter, Responds
  <2>4. ASSUME NEW stat \in {0, 401, 402, NO_DS_CONN}, Kill(stat, flushed)
        PROVE  \E s \in Int, n \in Int :
                 w' = EndResponse(FreshWriter, s, 0, n) /\ call' = Starts /\ nbRows' = nbRows
                   /\ pc' = NextCall
    <3>1. stat \in Int /\ 1 \in Int
      BY StatusesAreInt
    <3>2. QED BY <2>4, <3>1, Zenon DEF Kill, Responds
  <2>5. QED BY <2>1, <2>2, <2>3, <2>4, Zenon
<1>3. pc' \notin {"exec", "decide"}
  BY <1>2 DEF NextCall
<1>4. QED BY <1>2, <1>3, AnsweredAlone

LEMMA LoginInv ==
  ASSUME SybInv, NEW outcome, NEW flushed, Login(outcome, flushed)
  PROVE  SybInv' /\ Of(w.out, RowTags)' \subseteq {0}
<1> DEFINE stat == IF outcome = "connected" THEN 0 ELSE NO_DS_CONN
<1>1. w' = LoginResponse(stat) /\ pc' = NextCall /\ call' = Starts /\ nbRows' = nbRows
  BY Zenon DEF Login
<1>2. stat \in Int
  BY StatusesAreInt
<1> HIDE DEF stat
<1>3. w' \in Writers(Int) /\ Of(w.out, RowTags)' \subseteq {0} /\ ListedMessages(w'.out) = 0
  BY <1>1, <1>2, LoginResponseFacts
<1>4. pc' \notin {"exec", "decide"}
  BY <1>1 DEF NextCall
<1>5. call' \in SybCall /\ call'.raised = 0 /\ call'.answered = TRUE
  BY <1>1, StartsTyped
<1>6. QED BY <1>1, <1>3, <1>4, <1>5 DEF SybInv, SybTyped, MessagesInv

LEMMA BeginsInv ==
  ASSUME SybInv, Execute \/ LoginTooLong
  PROVE  /\ SybInv' /\ w' = FreshWriter
         /\ call'.present = FALSE /\ call'.open = "no" /\ call'.half = FALSE /\ call'.cut = FALSE
         /\ call'.answered = FALSE
<1> DEFINE first == [NewCall EXCEPT !.tries = 1]
<1>1. /\ first \in SybCall /\ NewCall \in SybCall
      /\ \A c \in {first, NewCall} : c.present = FALSE /\ c.open = "no" /\ c.answered = FALSE
                                       /\ c.nbMsg = 0 /\ c.raised = 0 /\ c.half = FALSE
                                       /\ c.cut = FALSE
  <2>1. /\ NewCall \in SybCall /\ NewCall.present = FALSE /\ NewCall.open = "no"
        /\ NewCall.answered = FALSE /\ NewCall.nbMsg = 0 /\ NewCall.raised = 0
        /\ NewCall.half = FALSE /\ NewCall.cut = FALSE
    BY NewCallTyped DEF NewCall
  <2> HIDE DEF NewCall
  <2>2. QED BY <2>1 DEF SybCall
<1>2. w' = FreshWriter /\ nbRows' = nbRows /\ call' \in {first, NewCall}
  BY DEF Execute, LoginTooLong
<1>3. w' \in Writers(Int) /\ ListedMessages(w'.out) = 0
  BY <1>2, FreshFacts
<1> HIDE DEF first
<1>4. QED BY <1>1, <1>2, <1>3 DEF SybInv, SybTyped, MessagesInv

LEMMA NextTryFacts ==
  ASSUME call \in SybCall
  PROVE  /\ NextTry \in SybCall /\ NextTry.present = FALSE /\ NextTry.open = "no"
         /\ NextTry.half = FALSE /\ NextTry.cut = call.cut
         /\ NextTry.answered = FALSE /\ NextTry.nbMsg = call.nbMsg /\ NextTry.raised = call.raised
<1> DEFINE n == IF call.tries < MaxTries THEN call.tries + 1 ELSE NewCall.tries
<1>1. /\ NewCall \in SybCall /\ NewCall.present = FALSE /\ NewCall.open = "no"
      /\ NewCall.answered = FALSE /\ NewCall.half = FALSE
  BY NewCallTyped DEF NewCall
<1>2. NextTry = [NewCall EXCEPT !.tries = n, !.nbMsg = call.nbMsg, !.raised = call.raised,
                               !.cut = call.cut]
  BY Zenon DEF NextTry
<1> HIDE DEF NewCall
<1>3. n \in Nat
  BY <1>1 DEF SybCall
<1> HIDE DEF n
<1>4. QED BY <1>1, <1>2, <1>3 DEF SybCall

LEMMA AnsweredFacts ==
  ASSUME call \in SybCall
  PROVE  /\ Answered \in SybCall /\ Answered.raised = call.raised /\ Answered.answered = TRUE
         /\ Answered.cut = call.cut
<1>1. NewCall \in SybCall
  BY NewCallTyped
<1> HIDE DEF NewCall
<1>2. QED BY <1>1 DEF SybCall, Answered

LEMMA StatusOfDiagInt == ASSUME NEW diag PROVE StatusOfDiag(diag) \in Int
<1>1. StatusOfDiag(diag) \in {TIMEOUT_STATUS, NO_DS_CONN, DEADLOCK_STATUS, FATAL_STATUS}
  BY Zenon DEF StatusOfDiag
<1>2. QED BY <1>1, StatusesAreInt

LEMMA DecidesInv ==
  ASSUME SybInv, NEW inTime, NEW connected, NEW flushed,
         TryAgain(inTime, connected) \/ Exits(inTime, connected, flushed) \/ Finish(inTime, flushed)
  PROVE  SybInv'
<1>1. /\ pc = "decide" /\ w \in Writers(Int) /\ nbRows \in Int /\ call \in SybCall
      /\ ~call.answered /\ call.nbMsg = call.raised /\ ListedMessages(w.out) = 0
  BY DEF SybInv, SybTyped, MessagesInv, TryAgain, Exits, Finish
<1>2. CASE TryAgain(inTime, connected)
  <2>1. call' = NextTry /\ w' = w /\ nbRows' = nbRows /\ pc' = "exec"
    BY <1>2 DEF TryAgain
  <2>2. call' \in SybCall /\ call'.answered = FALSE /\ call'.nbMsg = call'.raised
    BY <1>1, <2>1, NextTryFacts
  <2>3. QED BY <1>1, <2>1, <2>2 DEF SybInv, SybTyped, MessagesInv
<1>3. CASE Exits(inTime, connected, flushed)
  <2>1. PICK stat \in Int : w' = EndResponse(w, stat, 0, 1)
    BY <1>3, StatusesAreInt, Zenon DEF Exits, Responds
  <2>2. call' = Answered /\ nbRows' = nbRows /\ pc' = "gone"
    BY <1>3 DEF Exits, Responds
  <2>3. Writes(Int, w, w', {})
    BY <1>1, <2>1, EndWrites
  <2>4. call' \in SybCall
    BY <1>1, <2>2, AnsweredFacts
  <2>5. QED BY <1>1, <2>2, <2>3, <2>4 DEF SybInv, SybTyped, MessagesInv, Writes
<1>4. CASE Finish(inTime, flushed)
  <2> DEFINE stat == IF call.status # NoStatus THEN call.status ELSE StatusOfDiag(call.diag)
             m == WithMessages(w, call.nbMsg)
  <2>1. /\ w' = EndResponse(m, stat, 0, nbRows) /\ call' = Answered /\ nbRows' = nbRows
        /\ pc' = NextCall
    BY <1>4, Zenon DEF Finish, Responds
  <2>2. stat \in Int
    BY <1>1, StatusOfDiagInt DEF SybCall
  <2> HIDE DEF stat
  <2>3. m \in Writers(Int) /\ ListedMessages(m.out) = call.nbMsg
    <3>1. call.nbMsg \in Nat /\ MaxMsgs \in Nat \ {0} /\ ListedMessages(w.out) \in Int
      BY <1>1, Xml2SybAssumption DEF SybCall
    <3>2. /\ m \in Writers(Int) /\ ListedMessages(m.out) = ListedMessages(w.out) + call.nbMsg
      BY <1>1, <3>1, WithMessagesAdds
    <3>3. QED BY <1>1, <3>1, <3>2
  <2> HIDE DEF m
  <2>4. Adds(Int, m, w', "EOT", 0)
    BY <1>1, <2>1, <2>2, <2>3, EndResponseAdds
  <2>5. w' \in Writers(Int) /\ ListedMessages(w'.out) = call.nbMsg
    <3>1. Weight(MarkedTag("EOT", 0)) = 0 /\ ListedMessages(m.out) \in Int
      BY <1>1, <2>3, NoWeight DEF SybCall
    <3>2. ListedMessages(w'.out) = ListedMessages(m.out) + 0
      BY <2>4, <3>1 DEF Adds
    <3>3. w' \in Writers(Int)
      BY <2>4 DEF Adds
    <3>4. QED BY <2>3, <3>1, <3>2, <3>3
  <2>6. call' \in SybCall /\ call'.raised = call.raised
    BY <1>1, <2>1, AnsweredFacts
  <2>7. pc' \notin {"exec", "decide"}
    BY <2>1 DEF NextCall
  <2>8. QED BY <1>1, <2>1, <2>5, <2>6, <2>7 DEF SybInv, SybTyped, MessagesInv
<1>5. QED BY <1>2, <1>3, <1>4

LEMMA SybStep == SybInv /\ [SybNext]_sybVars => SybInv'
<1> SUFFICES ASSUME SybInv, [SybNext]_sybVars PROVE SybInv'
  OBVIOUS
<1>1. CASE UNCHANGED sybVars
  BY <1>1 DEF sybVars, SybInv, SybTyped, MessagesInv
<1>2. CASE (\E b \in BOOLEAN : Start(b) \/ Bind(b) \/ Accept(b)) \/ EndOfStream
  <2>1. /\ w' = w /\ nbRows' = nbRows /\ call' = call
        /\ pc \notin {"exec", "decide", "gone"} /\ pc' \notin {"exec", "decide"}
    BY <1>2 DEF Start, Bind, Accept, EndOfStream
  <2>2. QED BY <2>1 DEF SybInv, SybTyped, MessagesInv
<1>3. CASE LoginTooLong \/ Execute
  BY <1>3, BeginsInv
<1>4. ASSUME NEW flushed \in BOOLEAN,
             Ping(flushed) \/ Refuse(flushed) \/ BadParameter(flushed)
               \/ \E stat \in {0, 401, 402, NO_DS_CONN} : Kill(stat, flushed)
      PROVE  SybInv'
  BY <1>4, AnswersInv
<1>5. ASSUME NEW flushed \in BOOLEAN, NEW outcome, Login(outcome, flushed) PROVE SybInv'
  BY <1>5, LoginInv
<1>6. CASE ExecutionStep
  BY <1>6, ExecutionStepInv
<1>7. CASE ExecReturns
  <2>1. PICK rc \in {0, -1, -13}, stat \in {NoStatus, 0}, diag \in Diags, reset \in BOOLEAN :
          ExecEnds(rc, stat, diag, reset)
    BY <1>7 DEF ExecReturns
  <2> DEFINE g == call.cut \/ call.half
  <2>2. /\ pc = "exec" /\ pc' = "decide" /\ w' = w /\ nbRows' = nbRows
        /\ call' = [call EXCEPT !.rc = rc, !.status = stat, !.diag = diag, !.reset = reset,
                                !.half = FALSE, !.cut = g]
    BY <2>1 DEF ExecEnds
  <2>3. rc \in Int /\ stat \in Int /\ g \in BOOLEAN
    BY StatusesAreInt DEF SybInv, SybTyped, SybCall
  <2> HIDE DEF g
  <2>4. QED BY <2>2, <2>3 DEF SybInv, SybTyped, MessagesInv, SybCall
<1>8. CASE Decides
  BY <1>8, DecidesInv DEF Decides
<1>9. QED BY <1>1, <1>2, <1>3, <1>4, <1>5, <1>6, <1>7, <1>8, ZenonT(60) DEF SybNext

LEMMA SybOfLib == [LibNext]_libVars => [SybNext]_sybVars
  BY DEF libVars, responseVars, dataVars, LibNext, SybPart, ClientPart, GatewayPart, ReaderPart,
     ListPart, ArrayPart, ConfigPart, SocketPart, TextPart, QueuePart, ForwardPart

\* While the process of xml2syb goes on, every message of a call is listed in its
\* answer or counted there, for any room of the list and any number of messages,
\* tries and result sets.
THEOREM MessagesListed == LibSpec => []NoMessageLost
<1>1. LibInit => SybInv
  BY SybInitInv DEF LibInit
<1>2. SybInv /\ [LibNext]_libVars => SybInv'
  BY SybStep, SybOfLib
<1>3. SybInv => NoMessageLost
  BY DEF SybInv, MessagesInv, NoMessageLost
<1>4. QED BY <1>1, <1>2, <1>3, PTL DEF LibSpec

\* The rows written so far are of the try that runs, and there are none while
\* nothing was present; the rows of any answer are of one try.
SybRows ==
  /\ pc \in {"exec", "decide"} =>
       /\ Of(w.out, RowTags) \subseteq {call.tries}
       /\ ~call.present => Of(w.out, RowTags) = {}
       /\ call.open # "no" => call.present
  /\ \E v : Of(w.out, RowTags) \subseteq {v}

LEMMA FreshRows == Of(FreshWriter.out, RowTags) = {}
<1>1. RowTags \in SUBSET ValueTags
  BY DEF RowTags, ValueTags
<1>2. QED BY <1>1, FreshFacts

LEMMA ExecutionStepRows ==
  ASSUME SybInv, SybRows, ExecutionStep
  PROVE  SybRows'
<1>1. /\ pc = "exec" /\ pc' = pc /\ w \in Writers(Int) /\ nbRows \in Int /\ call \in SybCall
      /\ Of(w.out, RowTags) \subseteq {call.tries}
      /\ ~call.present => Of(w.out, RowTags) = {}
      /\ call.open # "no" => call.present
  BY DEF SybInv, SybTyped, SybRows, ExecutionStep, Message, TimesOut, Row, BeginParams,
         ParamShown, ParamFails, BeginSet, SetDone, RowFails, Another, Processing
<1> DEFINE Goal ==
             /\ Of(w'.out, RowTags) \subseteq {call'.tries}
             /\ ~call'.present => Of(w'.out, RowTags) = {}
             /\ call'.open # "no" => call'.present
<1>2. SUFFICES Goal
  BY <1>1 DEF SybRows
<1>3. call.tries \in Int
  BY <1>1 DEF SybCall
<1>4. CASE Message
  BY <1>1, <1>4 DEF Message, SybCall
<1>5. CASE TimesOut
  BY <1>1, <1>5 DEF TimesOut, SybCall
<1>6. ASSUME NEW b \in BOOLEAN, SetDone(b) PROVE Goal
  BY <1>1, <1>6 DEF SetDone, SybCall
<1>7. CASE Row
  <2> DEFINE b == ColumnValue(w, call.tries)
  <2>1. /\ w' = EndColumnValues(ColumnValue(b, call.tries)) /\ call.open = "rows"
        /\ call'.tries = call.tries /\ call'.present = call.present /\ call'.open = call.open
    BY <1>1, <1>7 DEF Row, Another, SybCall
  <2>2. Adds(Int, w, b, "VAL", call.tries)
    BY <1>1, <1>3, ColumnValueAdds
  <2> HIDE DEF b
  <2>3. Writes(Int, w, b, {call.tries})
    BY <2>2, AddsWrites
  <2>4. Writes(Int, b, w', {call.tries})
    BY <1>3, <2>1, <2>3, RowWrites DEF Writes
  <2>5. QED BY <1>1, <2>1, <2>3, <2>4 DEF Writes
<1>8. ASSUME NEW column \in 1..2, RowFails(column) PROVE Goal
  <2> DEFINE b == ColumnValue(w, call.tries)
  <2>1. /\ w' = IF column = 1 THEN w ELSE b
        /\ call.open = "rows"
        /\ call'.tries = call.tries /\ call'.present = call.present /\ call'.open = call.open
    BY <1>1, <1>8 DEF RowFails, Another, SybCall
  <2>2. Adds(Int, w, b, "VAL", call.tries)
    BY <1>1, <1>3, ColumnValueAdds
  <2> HIDE DEF b
  <2>3. Writes(Int, w, b, {call.tries})
    BY <2>2, AddsWrites
  <2>4. QED BY <1>1, <2>1, <2>3 DEF Writes
<1>9. CASE BeginParams
  <2>1. /\ w' = BeginOutputParams(w, nbRows) /\ call'.tries = call.tries
        /\ call'.present = TRUE
    BY <1>1, <1>9 DEF BeginParams, SybCall
  <2>2. Neutral(Int, w, w')
    BY <1>1, <2>1, BeginParamsNeutral
  <2>3. Writes(Int, w, w', {})
    BY <2>2, NeutralWrites
  <2>4. QED BY <1>1, <2>1, <2>3 DEF Writes
<1>9a. CASE ParamShown
  <2>1. /\ w' = ParamValue(w, call.tries) /\ call.open = "params"
        /\ call'.tries = call.tries /\ call'.present = call.present /\ call'.open = call.open
    BY <1>1, <1>9a DEF ParamShown, Another, SybCall
  <2>2. Adds(Int, w, w', "PARAM", call.tries)
    BY <1>1, <1>3, <2>1, ParamValueAdds
  <2>3. Writes(Int, w, w', {call.tries})
    BY <2>2, AddsWrites
  <2>4. QED BY <1>1, <2>1, <2>3 DEF Writes
<1>9b. CASE ParamFails
  BY <1>1, <1>9b DEF ParamFails, SybCall
<1>10. ASSUME NEW b \in BOOLEAN, BeginSet(b) PROVE Goal
  <2> DEFINE h == ColumnName(BeginResultSet(w, call'.set, nbRows))
             s == call.set + 1
  <2>1. s \in Nat
    BY <1>1 DEF SybCall
  <2> HIDE DEF s
  <2>2. /\ call' = [call EXCEPT !.set = s, !.present = TRUE, !.rows = 0,
                                !.open = IF b THEN "no" ELSE "rows"]
        /\ w' = IF b THEN w ELSE ColumnName(h)
    BY <1>10 DEF BeginSet, s
  <2>3. call'.set = s /\ call'.tries = call.tries /\ call'.present = TRUE
    BY <1>1, <2>1, <2>2 DEF SybCall
  <2>4. Neutral(Int, w, h)
    BY <1>1, <2>1, <2>3, HeaderNeutral
  <2> HIDE DEF h
  <2>5. Neutral(Int, h, ColumnName(h))
    BY <2>4, ColumnNameNeutral DEF Neutral
  <2>6. Neutral(Int, w, ColumnName(h))
    BY <2>4, <2>5, NeutralTrans
  <2>7. Writes(Int, w, ColumnName(h), {})
    BY <2>6, NeutralWrites
  <2>8. QED BY <1>1, <2>2, <2>3, <2>7 DEF Writes
<1>11. QED BY <1>4, <1>5, <1>6, <1>7, <1>8, <1>9, <1>9a, <1>9b, <1>10 DEF ExecutionStep

LEMMA DecidesRows ==
  ASSUME SybInv, SybRows, NEW inTime, NEW connected, NEW flushed, RetryStatus = {},
         TryAgain(inTime, connected) \/ Exits(inTime, connected, flushed) \/ Finish(inTime, flushed)
  PROVE  SybRows'
<1>1. /\ pc = "decide" /\ w \in Writers(Int) /\ nbRows \in Int /\ call \in SybCall
      /\ Of(w.out, RowTags) \subseteq {call.tries}
      /\ ~call.present => Of(w.out, RowTags) = {}
      /\ ListedMessages(w.out) = 0
  BY DEF SybInv, SybTyped, MessagesInv, SybRows, TryAgain, Exits, Finish
<1>2. CASE TryAgain(inTime, connected)
  <2>1. call' = NextTry /\ w' = w /\ ~call.present
    BY <1>2 DEF TryAgain, Retried
  <2>2. call'.open = "no"
    BY <1>1, <2>1, NextTryFacts
  <2>3. QED BY <1>1, <2>1, <2>2 DEF SybRows
<1>3. CASE Exits(inTime, connected, flushed)
  <2>1. PICK stat \in Int : w' = EndResponse(w, stat, 0, 1)
    BY <1>3, StatusesAreInt, Zenon DEF Exits, Responds
  <2>2. pc' = "gone"
    BY <1>3 DEF Exits, Responds
  <2>3. Writes(Int, w, w', {})
    BY <1>1, <2>1, EndWrites
  <2>4. Of(w'.out, RowTags) \subseteq {call.tries}
    BY <1>1, <2>3 DEF Writes
  <2>5. QED BY <2>2, <2>4 DEF SybRows
<1>4. CASE Finish(inTime, flushed)
  <2> DEFINE stat == IF call.status # NoStatus THEN call.status ELSE StatusOfDiag(call.diag)
             m == WithMessages(w, call.nbMsg)
  <2>1. w' = EndResponse(m, stat, 0, nbRows) /\ pc' = NextCall
    BY <1>4, Zenon DEF Finish, Responds
  <2>2. stat \in Int
    BY <1>1, StatusOfDiagInt DEF SybCall
  <2> HIDE DEF stat
  <2>3. m \in Writers(Int) /\ Of(m.out, RowTags) = Of(w.out, RowTags)
    <3>1. call.nbMsg \in Nat /\ MaxMsgs \in Nat \ {0} /\ ListedMessages(w.out) \in Int
      BY <1>1, Xml2SybAssumption DEF SybCall
    <3>2. RowTags \in SUBSET (ValueTags \ {"MSG"})
      BY DEF RowTags, ValueTags
    <3>3. QED BY <1>1, <3>1, <3>2, WithMessagesAdds
  <2> HIDE DEF m
  <2>4. Writes(Int, m, w', {})
    BY <1>1, <2>1, <2>2, <2>3, EndWrites
  <2>5. Of(w'.out, RowTags) \subseteq {call.tries}
    BY <1>1, <2>3, <2>4 DEF Writes
  <2>6. pc' \notin {"exec", "decide"}
    BY <2>1 DEF NextCall
  <2>7. QED BY <2>5, <2>6 DEF SybRows
<1>5. QED BY <1>2, <1>3, <1>4

LEMMA SybRowsStep ==
  ASSUME RetryStatus = {}, SybInv, SybRows, [SybNext]_sybVars
  PROVE  SybRows'
<1>1. CASE UNCHANGED sybVars
  BY <1>1 DEF sybVars, SybRows
<1>2. CASE (\E b \in BOOLEAN : Start(b) \/ Bind(b) \/ Accept(b)) \/ EndOfStream
  <2>1. w' = w /\ pc' \notin {"exec", "decide"}
    BY <1>2 DEF Start, Bind, Accept, EndOfStream
  <2>2. QED BY <2>1 DEF SybRows
<1>3. CASE LoginTooLong \/ Execute
  <2>1. w' = FreshWriter /\ call'.open = "no"
    BY <1>3, BeginsInv
  <2>2. Of(w'.out, RowTags) = {}
    BY <2>1, FreshRows
  <2>3. QED BY <2>1, <2>2 DEF SybRows
<1>4. ASSUME NEW flushed \in BOOLEAN,
             Ping(flushed) \/ Refuse(flushed) \/ BadParameter(flushed)
               \/ \E stat \in {0, 401, 402, NO_DS_CONN} : Kill(stat, flushed)
      PROVE  SybRows'
  <2>1. Of(w.out, RowTags)' = {}
    BY <1>4, AnswersInv
  <2>2. pc' \notin {"exec", "decide"}
    BY <1>4 DEF Ping, Refuse, BadParameter, Kill, Responds, NextCall
  <2>3. QED BY <2>1, <2>2 DEF SybRows
<1>5. ASSUME NEW flushed \in BOOLEAN, NEW outcome, Login(outcome, flushed) PROVE SybRows'
  <2>1. Of(w.out, RowTags)' \subseteq {0}
    BY <1>5, LoginInv
  <2>2. pc' \notin {"exec", "decide"}
    BY <1>5 DEF Login, NextCall
  <2>3. QED BY <2>1, <2>2 DEF SybRows
<1>6. CASE ExecutionStep
  BY <1>6, ExecutionStepRows
<1>7. CASE ExecReturns
  <2>1. PICK rc \in {0, -1, -13}, stat \in {NoStatus, 0}, diag \in Diags, reset \in BOOLEAN :
          ExecEnds(rc, stat, diag, reset)
    BY <1>7 DEF ExecReturns
  <2>2. /\ pc = "exec" /\ w' = w
        /\ call' = [call EXCEPT !.rc = rc, !.status = stat, !.diag = diag, !.reset = reset,
                                !.half = FALSE, !.cut = call.cut \/ call.half]
    BY <2>1 DEF ExecEnds
  <2>3. call \in SybCall
    BY DEF SybInv, SybTyped
  <2>4. call'.tries = call.tries /\ call'.present = call.present /\ call'.open = call.open
    BY <2>2, <2>3 DEF SybCall
  <2>5. QED BY <2>2, <2>4 DEF SybRows
<1>8. CASE Decides
  BY <1>8, DecidesRows DEF Decides
<1>9. QED BY <1>1, <1>2, <1>3, <1>4, <1>5, <1>6, <1>7, <1>8, ZenonT(60) DEF SybNext

-----------------------------------------------------------------------------
(* The grammar: what a token that is accepted says about the parse         *)

Accepted(state, tag) == Shift(state, tag) # "error"

LEMMA ShiftIs ==
  ASSUME NEW state, NEW tag, Accepted(state, tag)
  PROVE  \E r \in Rules \cup Sync : r[1] = state /\ r[2] = tag /\ r[3] = Shift(state, tag)
<1> DEFINE next == {r \in Rules \cup Sync : r[1] = state /\ r[2] = tag}
           c == CHOOSE r \in next : TRUE
<1>1. Shift(state, tag) = IF next = {} THEN "error" ELSE c[3]
  BY Zenon DEF Shift
<1>2. next # {}
  BY <1>1 DEF Accepted
<1>3. c \in next
  BY <1>2
<1> HIDE DEF c
<1>4. QED BY <1>1, <1>2, <1>3

\* Inside the rows of a result set.
RowStates == {"named", "rows", "row", "values", "skip row"}

LEMMA RuleFacts ==
  ASSUME NEW r \in Rules \cup Sync
  PROVE  /\ r[3] = "done" => r[2] = "EOT"
         /\ r[2] = "VAL" => r[1] \in RowStates
         /\ r[3] \in RowStates => r[1] \in RowStates \/ r[2] = "/COLNAMES"
<1>1. \E a, b, c : r = <<a, b, c>>
  <2>1. CASE r \in FixedRules
    BY <2>1, Zenon DEF FixedRules
  <2>2. CASE r \in OpenRules
    BY <2>2, Zenon DEF OpenRules
  <2>3. CASE r \in Sync
    BY <2>3, Zenon DEF Sync
  <2>4. QED BY <2>1, <2>2, <2>3, RulesAre
<1>2. PICK a, b, c : r = <<a, b, c>>
  BY <1>1
<1>3. /\ c = "done" => b = "EOT"
      /\ b = "VAL" => a \in RowStates
      /\ c \in RowStates => a \in RowStates \/ b = "/COLNAMES"
  <2>1. CASE <<a, b, c>> \in FixedRules
    <3>1. c = "done" => b = "EOT"
      BY <2>1 DEF FixedRules
    <3>2. ASSUME b = "VAL" PROVE a \in RowStates
      BY <2>1, <3>2 DEF FixedRules, RowStates
    <3>3. c \in RowStates => a \in RowStates \/ b = "/COLNAMES"
      BY <2>1 DEF FixedRules, RowStates
    <3>4. QED BY <3>1, <3>2, <3>3
  <2>2. CASE <<a, b, c>> \in OpenRules
    <3>1. /\ b \in {"OUTPARAMS", "MSGLIST", "TOTALROWS", "STATUS"}
          /\ c \in {"params", "msgs", "total", "end"}
      BY <2>2 DEF OpenRules
    <3>2. QED BY <3>1 DEF RowStates
  <2>3. CASE <<a, b, c>> \in Sync
    <3>1. c # "done" /\ (b = "VAL" => a \in RowStates)
      BY <2>3 DEF Sync, RowStates
    <3>2. a \in RowStates \/ c \notin RowStates
      BY <2>3 DEF Sync, RowStates
    <3>3. QED BY <3>1, <3>2
  <2>4. QED BY <1>2, <2>1, <2>2, <2>3, RulesAre
<1>4. r[1] = a /\ r[2] = b /\ r[3] = c
  BY <1>2
<1>5. QED BY <1>3, <1>4

LEMMA ShiftFacts ==
  ASSUME NEW state, NEW tag, Accepted(state, tag)
  PROVE  /\ Shift(state, tag) = "done" => tag = "EOT"
         /\ tag = "VAL" => state \in RowStates
         /\ Shift(state, tag) \in RowStates => state \in RowStates \/ tag = "/COLNAMES"
<1>1. PICK r \in Rules \cup Sync : r[1] = state /\ r[2] = tag /\ r[3] = Shift(state, tag)
  BY ShiftIs
<1>2. QED BY <1>1, RuleFacts

LEMMA SkipFacts ==
  ASSUME NEW state
  PROVE  /\ SkipFrom(state) # "done"
         /\ SkipFrom(state) \in RowStates => state \in RowStates
  BY DEF SkipFrom, Skipping, RowStates

-----------------------------------------------------------------------------
(* The client library and its server: whose rows an answer has             *)

Marks == Int \cup (Nat \X Nat)

\* The tokens of an answer to the call c: its rows and parameters are of c, and its
\* end is its last token.
OwnTokens(s, c) ==
  /\ s \in Tokens(Marks)
  /\ \A i \in 1..Len(s) : /\ s[i][1] \in RowTags => s[i][2] = c
                          /\ s[i][1] = "EOT" => i = Len(s)

LEMMA OwnNothing == ASSUME NEW c PROVE OwnTokens(<<>>, c)
  BY DEF OwnTokens, Tokens

LEMMA OwnTail ==
  ASSUME NEW c, NEW s, OwnTokens(s, c), s # <<>>
  PROVE  /\ OwnTokens(Tail(s), c)
         /\ Head(s)[1] \in RowTags => Head(s)[2] = c
         /\ Head(s)[1] = "EOT" => Tail(s) = <<>>
<1> DEFINE S == Token(Marks)
           n == Len(s)
           u == Tail(s)
<1>1. s \in Seq(S) /\ \A i \in 1..n : /\ s[i][1] \in RowTags => s[i][2] = c
                                      /\ s[i][1] = "EOT" => i = n
  BY DEF OwnTokens, Tokens
<1> HIDE DEF S
<1>2. u \in Seq(S) /\ Len(u) = n - 1 /\ n \in Nat \ {0} /\ Head(s) = s[1]
  BY <1>1
<1>3. ASSUME NEW i \in 1..(n - 1) PROVE u[i] = s[i + 1]
  BY <1>1, HeadTailProperties
<1>4. n = 1 => u = <<>>
  <2>1. u # <<>> => Len(u) \in Nat \ {0}
    BY <1>2, EmptySeq
  <2> HIDE DEF u, n
  <2>2. QED BY <1>2, <2>1
<1> HIDE DEF n, u
<1>5. ASSUME NEW i \in 1..(n - 1)
      PROVE  (u[i][1] \in RowTags => u[i][2] = c) /\ (u[i][1] = "EOT" => i = n - 1)
  <2>1. i + 1 \in 1..n /\ u[i] = s[i + 1] /\ (i + 1 = n => i = n - 1)
    BY <1>2, <1>3
  <2>2. (s[i + 1][1] \in RowTags => s[i + 1][2] = c) /\ (s[i + 1][1] = "EOT" => i + 1 = n)
    BY <1>1, <2>1
  <2>3. QED BY <2>1, <2>2
<1>6. 1 \in 1..n
  BY <1>2
<1>7. (s[1][1] \in RowTags => s[1][2] = c) /\ (s[1][1] = "EOT" => 1 = n)
  BY <1>1, <1>6
<1>8. OwnTokens(u, c)
  BY <1>2, <1>5 DEF OwnTokens, Tokens, S
<1>9. QED BY <1>2, <1>4, <1>7, <1>8 DEF u

LEMMA OwnPrefix ==
  ASSUME NEW c, NEW s, OwnTokens(s, c), NEW k \in 0..Len(s)
  PROVE  OwnTokens(SubSeq(s, 1, k), c)
<1> DEFINE S == Token(Marks)
           n == Len(s)
           u == SubSeq(s, 1, k)
<1>1. s \in Seq(S) /\ \A i \in 1..n : /\ s[i][1] \in RowTags => s[i][2] = c
                                      /\ s[i][1] = "EOT" => i = n
  BY DEF OwnTokens, Tokens
<1> HIDE DEF S
<1>2. n \in Nat /\ k \in Nat /\ k <= n
  BY <1>1
<1>3. \A i \in 1..k : s[i] \in S
  BY <1>1, <1>2
<1>4. u \in Seq(S) /\ Len(u) = k /\ \A i \in 1..k : u[i] = s[i]
  BY <1>1, <1>2, <1>3
<1> HIDE DEF u
<1>5. ASSUME NEW i \in 1..k
      PROVE  (u[i][1] \in RowTags => u[i][2] = c) /\ (u[i][1] = "EOT" => i = k)
  BY <1>1, <1>2, <1>4
<1>6. OwnTokens(u, c)
  BY <1>4, <1>5 DEF OwnTokens, Tokens, S
<1>7. QED BY <1>6 DEF u

\* A response whose rows are of the call c, and that has not ended.
OwnWriter(a, c) ==
  /\ a \in Writers(Marks)
  /\ Of(a.out, RowTags) \subseteq {c} /\ Of(a.out, {"EOT"}) = {}

LEMMA OfIs ==
  ASSUME NEW V, NEW s \in Tokens(V), NEW T, NEW i \in 1..Len(s), s[i][1] \in T
  PROVE  s[i][2] \in Of(s, T)
<1>1. DOMAIN s = 1..Len(s)
  BY DEF Tokens
<1>2. QED BY <1>1 DEF Of

LEMMA OwnEnd ==
  ASSUME NEW c, NEW a, OwnWriter(a, c), NEW stat \in Int, NEW rc \in Int, NEW n \in Int
  PROVE  OwnTokens(EndResponse(a, stat, rc, n).out, c)
<1>1. Int \subseteq Marks /\ a \in Writers(Marks) /\ 0 \in Marks
  BY DEF OwnWriter, Marks
<1>2. PICK b \in Writers(Marks) :
        Neutral(Marks, a, b) /\ EndResponse(a, stat, rc, n) = One(b, MarkedTag("EOT", 0))
  BY <1>1, EndResponseIs
<1> DEFINE t == MarkedTag("EOT", 0)
           S == Token(Marks)
           m == Len(b.out)
           u == One(b, t).out
           s == b.out
<1>3. t \in S /\ t[1] = "EOT"
  BY <1>1 DEF Token, MarkedTag, ValueTags
<1> HIDE DEF t
<1>4. u = Append(s, t)
  BY <1>3, OneFacts
<1>5. s \in Seq(S)
  BY DEF Writers, Tokens
<1>6. RowTags \in SUBSET ValueTags /\ {"EOT"} \in SUBSET ValueTags
  BY DEF ValueTags, RowTags
<1>7. Of(s, RowTags) \subseteq {c} /\ Of(s, {"EOT"}) = {}
  BY <1>2, <1>6 DEF OwnWriter, Neutral
<1>8. s \in Tokens(Marks)
  BY <1>5 DEF Tokens
<1> HIDE DEF S, s
<1>9. /\ m \in Nat /\ u \in Seq(S) /\ Len(u) = m + 1 /\ u[m + 1] = t
      /\ \A i \in 1..m : u[i] = s[i]
  BY <1>3, <1>4, <1>5, AppendProperties DEF s
<1> HIDE DEF u, m
<1>10. ASSUME NEW i \in 1..(m + 1)
       PROVE  (u[i][1] \in RowTags => u[i][2] = c) /\ (u[i][1] = "EOT" => i = m + 1)
  <2>1. CASE i = m + 1
    BY <1>3, <1>9, <2>1 DEF RowTags
  <2>2. CASE i # m + 1
    <3>1. i \in 1..m /\ u[i] = s[i] /\ m = Len(s)
      BY <1>9, <2>2 DEF m, s
    <3>2. s[i][1] \in RowTags => s[i][2] \in Of(s, RowTags)
      BY <1>8, <3>1, OfIs
    <3>3. s[i][1] = "EOT" => s[i][2] \in Of(s, {"EOT"})
      BY <1>8, <3>1, OfIs
    <3>4. QED BY <1>7, <3>1, <3>2, <3>3
  <2>3. QED BY <2>1, <2>2
<1>11. OwnTokens(u, c)
  BY <1>9, <1>10 DEF OwnTokens, Tokens, S
<1>12. QED BY <1>2, <1>11 DEF u, t

LEMMA MarksFacts == Int \subseteq Marks /\ 0 \in Marks /\ \A c \in Nat \X Nat : c \in Marks
  BY DEF Marks

LEMMA OwnFresh == ASSUME NEW c PROVE OwnWriter(FreshWriter, c)
<1>1. RowTags \in SUBSET ValueTags /\ {"EOT"} \in SUBSET ValueTags
  BY DEF ValueTags, RowTags
<1>2. QED BY <1>1, FreshFacts DEF OwnWriter

LEMMA OwnNeutral ==
  ASSUME NEW c, NEW a, NEW b, OwnWriter(a, c), Neutral(Marks, a, b)
  PROVE  OwnWriter(b, c)
<1>1. RowTags \in SUBSET ValueTags /\ {"EOT"} \in SUBSET ValueTags
  BY DEF ValueTags, RowTags
<1>2. QED BY <1>1 DEF OwnWriter, Neutral

LEMMA OwnAdds ==
  ASSUME NEW c, NEW a, NEW b, OwnWriter(a, c), NEW tag \in {"VAL", "PARAM"}, Adds(Marks, a, b, tag, c)
  PROVE  OwnWriter(b, c)
<1>1. RowTags \in SUBSET ValueTags /\ {"EOT"} \in SUBSET ValueTags
  BY DEF ValueTags, RowTags
<1>2. /\ Of(b.out, RowTags) = Of(a.out, RowTags) \cup (IF tag \in RowTags THEN {c} ELSE {})
      /\ Of(b.out, {"EOT"}) = Of(a.out, {"EOT"}) \cup (IF tag \in {"EOT"} THEN {c} ELSE {})
  BY <1>1 DEF Adds
<1>3. QED BY <1>2 DEF OwnWriter, Adds

LEMMA OwnHeader ==
  ASSUME NEW c PROVE OwnWriter(ColumnName(BeginResultSet(FreshWriter, 1, 0)), c)
<1> DEFINE h == ColumnName(BeginResultSet(FreshWriter, 1, 0))
<1>1. Neutral(Marks, FreshWriter, h)
  BY FreshFacts, HeaderNeutral, MarksFacts
<1> HIDE DEF h
<1>2. OwnWriter(h, c)
  BY <1>1, OwnFresh, OwnNeutral
<1>3. QED BY <1>2 DEF h

LEMMA OwnRow ==
  ASSUME NEW c \in Marks, NEW a, OwnWriter(a, c)
  PROVE  OwnWriter(EndColumnValues(ColumnValue(a, c)), c)
<1> DEFINE b == ColumnValue(a, c)
<1>1. Adds(Marks, a, b, "VAL", c)
  BY ColumnValueAdds, MarksFacts DEF OwnWriter
<1> HIDE DEF b
<1>2. OwnWriter(b, c)
  BY <1>1, OwnAdds
<1>3. Neutral(Marks, b, EndColumnValues(b))
  BY <1>2, EndColumnValuesNeutral, MarksFacts DEF OwnWriter
<1>4. OwnWriter(EndColumnValues(b), c)
  BY <1>2, <1>3, OwnNeutral
<1>5. QED BY <1>4 DEF b

LEMMA StatusAnswerOwn ==
  ASSUME NEW c, NEW stat \in Int PROVE OwnTokens(StatusAnswer(stat), c)
<1>1. OwnTokens(EndResponse(FreshWriter, stat, 0, 0).out, c)
  BY OwnFresh, OwnEnd
<1>2. QED BY <1>1, Zenon DEF StatusAnswer

LEMMA LoginAnswerOwn ==
  ASSUME NEW c \in Marks PROVE OwnTokens(LoginAnswer(c), c)
<1> DEFINE r == EndColumnValues(ColumnValue(ColumnName(BeginResultSet(FreshWriter, 1, 0)), c))
<1>1. OwnWriter(r, c)
  BY OwnHeader, OwnRow
<1> HIDE DEF r
<1>2. OwnTokens(EndResponse(r, 0, 0, 1).out, c)
  BY <1>1, OwnEnd
<1>3. QED BY <1>2, Zenon DEF LoginAnswer, r

FileKinds == {"rows", "failed rows", "params", "status", "bad"}

LEMMA BadAnswerOwn ==
  ASSUME NEW c \in Marks, NEW v \in Int
  PROVE  OwnTokens(<<Tag("RESPONSE"), Tag("ROW"), <<"VAL", c>>, <<"STATUS", v>>,
                     Tag("/RESPONSE"), Tag("EOT")>>, c)
<1> DEFINE t1 == Tag("RESPONSE")
           t2 == Tag("ROW")
           t3 == <<"VAL", c>>
           t4 == <<"STATUS", v>>
           t5 == Tag("/RESPONSE")
           t6 == Tag("EOT")
           S == Token(Marks)
           s == <<t1, t2, t3, t4, t5, t6>>
<1>1. /\ t1[1] = "RESPONSE" /\ t2[1] = "ROW" /\ t3[1] = "VAL" /\ t3[2] = c /\ t4[1] = "STATUS"
      /\ t5[1] = "/RESPONSE" /\ t6[1] = "EOT"
  BY DEF Tag
<1>2. t1 \in S /\ t2 \in S /\ t4 \in S /\ t5 \in S
  <2>1. /\ "RESPONSE" \in Plain /\ "ROW" \in Plain /\ "STATUS" \in Plain /\ "/RESPONSE" \in Plain
    BY DEF Plain
  <2>2. t1 \in S /\ t2 \in S /\ t5 \in S
    BY <2>1, PlainTag, MarksFacts
  <2>3. t4 \in S
    BY <2>1, CountTag, MarksFacts
  <2>4. QED BY <2>2, <2>3
<1>3. t3 \in S /\ t6 \in S
  BY MarksFacts DEF Token, ValueTags, Tag
<1> HIDE DEF t1, t2, t3, t4, t5, t6, S
<1>4. s \in Seq(S) /\ Len(s) = 6
  BY <1>2, <1>3
<1>5. s[1] = t1 /\ s[2] = t2 /\ s[3] = t3 /\ s[4] = t4 /\ s[5] = t5 /\ s[6] = t6
  OBVIOUS
<1> HIDE DEF s
<1>6. ASSUME NEW i \in 1..6
      PROVE  (s[i][1] \in RowTags => s[i][2] = c) /\ (s[i][1] = "EOT" => i = 6)
  <2>1. i = 1 \/ i = 2 \/ i = 3 \/ i = 4 \/ i = 5 \/ i = 6
    OBVIOUS
  <2>2. QED BY <1>1, <1>5, <2>1 DEF RowTags
<1>7. OwnTokens(s, c)
  BY <1>4, <1>6 DEF OwnTokens, Tokens, S
<1>8. QED BY <1>7, Zenon DEF s, t1, t2, t3, t4, t5, t6

LEMMA FileAnswerOwn ==
  ASSUME NEW c \in Marks, NEW kind \in FileKinds PROVE OwnTokens(FileAnswer(kind, c), c)
<1> DEFINE set == EndColumnValues(ColumnValue(ColumnName(BeginResultSet(FreshWriter, 1, 0)), c))
           b == BeginOutputParams(FreshWriter, 0)
           p == ParamValue(b, c)
<1>1. OwnWriter(set, c)
  BY OwnHeader, OwnRow
<1>2. Neutral(Marks, FreshWriter, b)
  BY FreshFacts, BeginParamsNeutral, MarksFacts
<1>3. OwnWriter(p, c)
  <2> HIDE DEF b
  <2>1. OwnWriter(b, c)
    BY <1>2, OwnFresh, OwnNeutral
  <2>2. Adds(Marks, b, ParamValue(b, c), "PARAM", c)
    BY <2>1, ParamValueAdds DEF OwnWriter
  <2>3. QED BY <2>1, <2>2, OwnAdds
<1>4. CASE kind = "rows"
  <2>1. FileAnswer(kind, c) = EndResponse(set, 0, 0, 1).out
    BY <1>4, Zenon DEF FileAnswer
  <2> HIDE DEF set
  <2>2. QED BY <1>1, <2>1, OwnEnd
<1>5. CASE kind = "failed rows"
  <2>1. FileAnswer(kind, c) = EndResponse(set, -1, 0, 1).out
    BY <1>5 DEF FileAnswer
  <2> HIDE DEF set
  <2>2. QED BY <1>1, <2>1, OwnEnd
<1>6. CASE kind = "params"
  <2>1. FileAnswer(kind, c) = EndResponse(p, 0, 0, 0).out
    BY <1>6 DEF FileAnswer
  <2> HIDE DEF p
  <2>2. QED BY <1>3, <2>1, OwnEnd
<1>7. CASE kind = "status"
  <2>1. FileAnswer(kind, c) = StatusAnswer(-1)
    BY <1>7 DEF FileAnswer
  <2>2. QED BY <2>1, StatusAnswerOwn
<1>8. CASE kind = "bad"
  <2>1. FileAnswer(kind, c) = <<Tag("RESPONSE"), Tag("ROW"), <<"VAL", c>>, <<"STATUS", 0>>,
                                Tag("/RESPONSE"), Tag("EOT")>>
    BY <1>8 DEF FileAnswer
  <2>2. 0 \in Int
    OBVIOUS
  <2>3. QED BY <2>1, <2>2, BadAnswerOwn
<1>9. QED BY <1>4, <1>5, <1>6, <1>7, <1>8 DEF FileKinds

\* What the server answers to a call.
LEMMA AnswersOwn ==
  ASSUME NEW proc \in Procs, NEW c \in Marks, session.cached \in FileKinds \cup {"none"},
         NEW a \in Answers(proc, c)
  PROVE  OwnTokens(a.tokens, c) /\ a.cached \in FileKinds \cup {"none"}
<1>1. CASE proc = "login"
  <2>1. a = [tokens |-> LoginAnswer(c), cached |-> session.cached]
    BY <1>1 DEF Answers
  <2>2. QED BY <2>1, LoginAnswerOwn
<1>2. CASE proc = "ping"
  <2>1. a = [tokens |-> StatusAnswer(0), cached |-> session.cached]
    BY <1>2 DEF Answers
  <2>2. QED BY <2>1, StatusAnswerOwn
<1>3. CASE proc = "denied"
  <2>1. a = [tokens |-> StatusAnswer(NOT_ALLOWED), cached |-> session.cached]
    BY <1>3 DEF Answers
  <2>2. NOT_ALLOWED \in Int
    BY DEF NOT_ALLOWED
  <2>3. QED BY <2>1, <2>2, StatusAnswerOwn
<1>4. CASE proc = "file"
  <2>1. a \in FromFile(c)
    BY <1>4 DEF Answers
  <2>2. CASE session.cached # "none"
    <3>1. a = [tokens |-> FileAnswer(session.cached, c), cached |-> session.cached]
      BY <2>1, <2>2 DEF FromFile
    <3>2. QED BY <2>2, <3>1, FileAnswerOwn
  <2>3. CASE session.cached = "none"
    <3>1. \/ \E kind \in Files : a = [tokens |-> FileAnswer(kind, c), cached |-> kind]
          \/ \E rc \in {-1, -2} : a = [tokens |-> StatusAnswer(rc), cached |-> "none"]
      BY <2>1, <2>3 DEF FromFile
    <3>2. Files \subseteq FileKinds
      BY XmlFiServAssumption DEF FileKinds
    <3>3. QED BY <3>1, <3>2, FileAnswerOwn, StatusAnswerOwn
  <2>4. QED BY <2>2, <2>3
<1>5. QED BY <1>1, <1>2, <1>3, <1>4 DEF Procs

Frames == [proc : Procs, tries : Nat]
Requests == {NoCall} \cup (Procs \X (Nat \X Nat))

ClientTyped ==
  /\ cpc \in {"idle", "top", "open", "send", "reconnect", "parse", "decide"}
  /\ calls \in Nat /\ present \in BOOLEAN /\ stack \in Seq(Frames)
  /\ session \in [at : {"none", "waits", "parse", "gone"}, cached : FileKinds \cup {"none"}]
  /\ link \in [up : BOOLEAN, request : Requests, answer : Tokens(Marks)]

\* The application's call is below, and logins are above it.
StackInv ==
  /\ cpc = "idle" <=> stack = <<>>
  /\ stack # <<>> => stack[1].proc # "login"
  /\ \A i \in 2..Len(stack) : stack[i].proc = "login"

\* A call that was sent and counts as failed will close its link.
SentLate == cpc = "decide" /\ errClass = "SEND" /\ fd
OnLink == cpc = "parse" \/ SentLate

\* An answer is read by the call that it belongs to, and to its end.
LinkInv ==
  /\ link.up => fd
  /\ ~OnLink => link.answer = <<>> /\ (link.up => link.request = NoCall)
  /\ OnLink =>
       /\ OwnTokens(link.answer, CallId)
       /\ link.up /\ link.request # NoCall =>
            link.answer = <<>> /\ link.request \in Procs \X {CallId}

\* Rows were given by one try of the application's call, and since then it says
\* that a result was present.
LoginId == <<0, 0>>
ShownInv ==
  /\ \E x : shown \subseteq {LoginId, x}
  /\ cpc # "idle" => shown \subseteq {LoginId, <<calls, stack[1].tries>>}
  /\ cpc # "idle" /\ ~(shown \subseteq {LoginId}) =>
       Len(stack) = 1 /\ cpc \in {"parse", "decide"} /\ present
  /\ cpc \in {"reconnect", "parse"} /\ parsed.at \in RowStates => present

ClientInv == ClientTyped /\ StackInv /\ LinkInv /\ ShownInv

LEMMA ClientInitInv == ApiInit /\ ServerInit => ClientInv
<1> SUFFICES ASSUME ApiInit, ServerInit PROVE ClientInv
  OBVIOUS
<1>1. <<>> \in Tokens(Marks) /\ <<>> \in Seq(Frames) /\ Len(<<>>) = 0
  BY EmptySeq DEF Tokens
<1>2. ClientTyped
  BY <1>1 DEF ApiInit, ServerInit, ClientTyped, NoLink, Requests
<1>3. StackInv
  BY <1>1 DEF ApiInit, StackInv
<1>4. LinkInv /\ ShownInv
  BY DEF ApiInit, ServerInit, LinkInv, OnLink, SentLate, ShownInv, NoLink
<1>5. QED BY <1>2, <1>3, <1>4 DEF ClientInv

\* The identity of the call on the top.
LEMMA TopFacts ==
  ASSUME ClientTyped, StackInv, cpc # "idle"
  PROVE  /\ Len(stack) \in Nat \ {0} /\ stack[1] \in Frames /\ Top \in Frames
         /\ CallId \in Nat \X Nat
         /\ Len(stack) = 1 => CallId = <<calls, stack[1].tries>>
         /\ Len(stack) > 1 => CallId = LoginId
<1>1. Len(stack) \in Nat \ {0} /\ stack # <<>> /\ stack \in Seq(Frames) /\ calls \in Nat
  BY EmptySeq DEF ClientTyped, StackInv
<1>2. 1 \in 1..Len(stack) /\ Len(stack) \in 1..Len(stack)
  BY <1>1
<1>3. stack[1] \in Frames /\ Top \in Frames
  BY <1>1, <1>2 DEF Top
<1>4. Len(stack) = 1 => Top = stack[1] /\ Top.proc # "login"
  BY <1>1 DEF Top, StackInv
<1>5. Len(stack) > 1 => Top.proc = "login"
  <2>1. Len(stack) > 1 => Len(stack) \in 2..Len(stack)
    BY <1>1
  <2>2. QED BY <2>1 DEF Top, StackInv
<1>6. CallId = IF Top.proc = "login" THEN LoginId ELSE <<calls, Top.tries>>
  BY DEF CallId, InLogin, LoginId
<1>7. CallId \in Nat \X Nat
  BY <1>1, <1>3, <1>6 DEF Frames, LoginId
<1>8. QED BY <1>1, <1>3, <1>4, <1>5, <1>6, <1>7

\* Steps outside a parse that leave the link closed, or idle as it was, and show
\* nothing.
LEMMA CallKeeps ==
  ASSUME ClientInv, NEW proc \in Procs \ {"login"}, Call(proc)
  PROVE  ClientInv'
<1>1. /\ cpc = "idle" /\ cpc' = "top" /\ calls' = calls + 1 /\ stack' = <<Frame(proc)>>
      /\ shown' = {} /\ present' = present /\ session' = session /\ link' = link /\ fd' = fd
  BY DEF Call, serverVars
<1>2. Frame(proc) \in Frames /\ Frame(proc).proc # "login"
  BY DEF Frame, Frames
<1> DEFINE f == Frame(proc)
<1> HIDE DEF f
<1>3. /\ stack' \in Seq(Frames) /\ Len(stack') = 1 /\ stack'[1] = f /\ stack' # <<>>
  BY <1>1, <1>2 DEF f
<1>4. ClientTyped'
  BY <1>1, <1>3 DEF ClientInv, ClientTyped
<1>5. StackInv'
  BY <1>1, <1>2, <1>3 DEF StackInv, f
<1>6. LinkInv'
  BY <1>1 DEF ClientInv, LinkInv, OnLink, SentLate
<1>7. ShownInv'
  BY <1>1 DEF ShownInv
<1>8. QED BY <1>4, <1>5, <1>6, <1>7 DEF ClientInv

LEMMA BeginTryKeeps ==
  ASSUME ClientInv, BeginTry
  PROVE  ClientInv'
<1> DEFINE n == Len(stack)
           r == stack[n].tries + 1
           f == [stack[n] EXCEPT !.tries = r]
<1>1. /\ cpc = "top" /\ cpc' \in {"send", "open"} /\ stack' = [stack EXCEPT ![n] = f]
      /\ calls' = calls /\ shown' = shown /\ present' = present /\ session' = session
      /\ link' = link /\ fd' = fd
  BY DEF BeginTry, serverVars
<1>2. /\ n \in Nat \ {0} /\ stack \in Seq(Frames) /\ stack # <<>> /\ stack[n] \in Frames
  <2>1. Len(stack) \in Nat \ {0} /\ Top \in Frames
    BY <1>1, TopFacts DEF ClientInv
  <2>2. QED BY <1>1, <2>1 DEF ClientInv, ClientTyped, StackInv, Top
<1>3. r \in Nat
  BY <1>2 DEF Frames
<1> HIDE DEF r
<1>4. f \in Frames /\ f.proc = stack[n].proc
  BY <1>2, <1>3 DEF Frames
<1> HIDE DEF f, n
<1>5. n = Len(stack)
  BY DEF n
<1>6. /\ stack' \in Seq(Frames) /\ Len(stack') = n /\ stack' # <<>>
      /\ \A i \in 1..n : stack'[i].proc = stack[i].proc
  <2>1. /\ stack' \in Seq(Frames) /\ Len(stack') = n
        /\ \A i \in 1..n : stack'[i] = IF i = n THEN f ELSE stack[i]
    BY <1>1, <1>2, <1>4, <1>5, ExceptSeq
  <2>2. stack' # <<>>
    BY <1>2, <2>1
  <2>3. QED BY <1>4, <2>1, <2>2
<1>7. StackInv'
  <2>1. 1 \in 1..n /\ \A i \in 2..n : i \in 1..n
    BY <1>2
  <2>2. stack[1].proc # "login" /\ \A i \in 2..n : stack[i].proc = "login"
    BY <1>2, <1>5 DEF ClientInv, StackInv
  <2>3. QED BY <1>1, <1>6, <2>1, <2>2 DEF StackInv
<1>8. ClientTyped'
  BY <1>1, <1>6 DEF ClientInv, ClientTyped
<1>9. LinkInv'
  BY <1>1 DEF ClientInv, LinkInv, OnLink, SentLate
<1>10. ShownInv'
  BY <1>1 DEF ClientInv, ShownInv
<1>11. QED BY <1>7, <1>8, <1>9, <1>10 DEF ClientInv

LEMMA OpenKeeps ==
  ASSUME ClientInv, Open
  PROVE  ClientInv'
<1> DEFINE f == Frame("login")
           n == Len(stack)
<1>1. /\ cpc = "open" /\ cpc' = "top" /\ stack' = Append(stack, f)
      /\ calls' = calls /\ shown' = shown /\ present' = present
      /\ session' = [at |-> "waits", cached |-> "none"] /\ link' = NewLink /\ fd' = TRUE
  BY DEF Open
<1>2. f \in Frames /\ f.proc = "login"
  BY DEF Frame, Frames, Procs
<1> HIDE DEF f
<1>3. /\ n \in Nat \ {0} /\ stack \in Seq(Frames) /\ stack # <<>>
  BY <1>1, TopFacts DEF ClientInv, ClientTyped, StackInv
<1>4. /\ stack' \in Seq(Frames) /\ Len(stack') = n + 1 /\ stack' # <<>> /\ stack'[n + 1] = f
      /\ \A i \in 1..n : stack'[i] = stack[i]
  BY <1>1, <1>2, <1>3, AppendProperties
<1>5. StackInv'
  <2>1. 1 \in 1..n /\ \A i \in 2..(n + 1) : i = n + 1 \/ (i \in 1..n /\ i \in 2..n)
    BY <1>3
  <2>2. stack[1].proc # "login" /\ \A i \in 2..n : stack[i].proc = "login"
    BY <1>3 DEF ClientInv, StackInv
  <2> HIDE DEF n
  <2>3. QED BY <1>1, <1>2, <1>4, <2>1, <2>2 DEF StackInv
<1>6. NewLink \in [up : BOOLEAN, request : Requests, answer : Tokens(Marks)]
      /\ NewLink.answer = <<>> /\ NewLink.request = NoCall
  <2>1. <<>> \in Tokens(Marks)
    BY EmptySeq DEF Tokens
  <2>2. QED BY <2>1 DEF NewLink, NoLink, Requests
<1> HIDE DEF NewLink
<1>7. ClientTyped'
  BY <1>1, <1>4, <1>6 DEF ClientInv, ClientTyped
<1>8. LinkInv'
  BY <1>1, <1>6 DEF LinkInv, OnLink, SentLate
<1>9. ShownInv'
  BY <1>1 DEF ClientInv, ShownInv
<1>10. QED BY <1>5, <1>7, <1>8, <1>9 DEF ClientInv

\* A step in which the calls stay what they are.
LEMMA SameCalls ==
  ASSUME StackInv, stack' = stack, calls' = calls, cpc # "idle", cpc' # "idle"
  PROVE  StackInv' /\ CallId' = CallId
  BY DEF StackInv, CallId, InLogin, Top

LEMMA NewLinkFacts ==
  /\ NewLink \in [up : BOOLEAN, request : Requests, answer : Tokens(Marks)]
  /\ NewLink.answer = <<>> /\ NewLink.request = NoCall
  /\ NoLink \in [up : BOOLEAN, request : Requests, answer : Tokens(Marks)]
  /\ NoLink.answer = <<>> /\ NoLink.up = FALSE
<1>1. <<>> \in Tokens(Marks)
  BY EmptySeq DEF Tokens
<1>2. QED BY <1>1 DEF NewLink, NoLink, Requests

\* The steps of sending: the call is on its link, or the link is as it was.
Sending ==
  \/ SendFails \/ LinkIsFoundBroken \/ ReconnectFails \/ SendsNothing
  \/ \E late \in BOOLEAN : SendSucceeds(late) \/ Reconnects(late)

LEMMA SendingFacts ==
  ASSUME ClientInv, Sending
  PROVE  /\ cpc \in {"send", "reconnect"} /\ cpc' \in {"reconnect", "parse", "decide"}
         /\ stack' = stack /\ calls' = calls /\ shown' = shown
         /\ present' \in BOOLEAN
         /\ parsed' = NewParser \/ (cpc = "reconnect" /\ parsed' = parsed /\ present' = present)
         /\ cpc' = "decide" => errClass' = "SEND"
  BY DEF Sending, SendFails, LinkIsFoundBroken, ReconnectFails, SendsNothing, SendSucceeds,
     Reconnects, Sends, Outcome, ClientInv, ClientTyped

LEMMA SendsKeep ==
  ASSUME ClientInv, Sending
  PROVE  ClientInv'
<1>1. /\ cpc \in {"send", "reconnect"} /\ cpc' \in {"reconnect", "parse", "decide"}
      /\ stack' = stack /\ calls' = calls /\ shown' = shown
      /\ present' \in BOOLEAN
      /\ parsed' = NewParser \/ (cpc = "reconnect" /\ parsed' = parsed /\ present' = present)
      /\ cpc' = "decide" => errClass' = "SEND"
  BY SendingFacts
<1>2. StackInv' /\ CallId' = CallId
  BY <1>1, SameCalls DEF ClientInv
<1>3. /\ Top.proc \in Procs /\ CallId \in Nat \X Nat
  BY <1>1, TopFacts DEF ClientInv, Frames
<1> DEFINE q == <<Top.proc, CallId>>
<1>4. q \in Requests /\ q \in Procs \X {CallId}
  BY <1>3 DEF Requests
<1> HIDE DEF q
<1>5. /\ link \in [up : BOOLEAN, request : Requests, answer : Tokens(Marks)]
      /\ link.answer = <<>> /\ (link.up => link.request = NoCall) /\ (link.up => fd)
  BY <1>1 DEF ClientInv, ClientTyped, LinkInv, OnLink, SentLate
<1> DEFINE Goal ==
             /\ link' \in [up : BOOLEAN, request : Requests, answer : Tokens(Marks)]
             /\ link'.answer = <<>> /\ (link'.up => fd')
             /\ link'.up => link'.request = NoCall \/ (cpc' # "reconnect" /\ link'.request = q)
             /\ session' \in {session} \cup [at : {"none", "waits"}, cached : {"none"}]
<1>6. Goal
  <2>1. ASSUME NEW late \in BOOLEAN, SendSucceeds(late)
        PROVE  Goal
    <3>1. /\ cpc' # "reconnect" /\ session' = session /\ fd' = fd
          /\ link' = IF link.up THEN [link EXCEPT !.request = q] ELSE link
      BY <2>1 DEF SendSucceeds, Outcome, q
    <3>2. QED BY <1>4, <1>5, <3>1
  <2>2. ASSUME NEW late \in BOOLEAN, Reconnects(late)
        PROVE  Goal
    <3>1. /\ cpc' # "reconnect" /\ session' = [at |-> "waits", cached |-> "none"]
          /\ link' = [NewLink EXCEPT !.request = q] /\ fd' = TRUE
      BY <2>2 DEF Reconnects, Outcome, q
    <3> HIDE DEF NewLink
    <3>2. QED BY <1>4, <3>1, NewLinkFacts
  <2>3. CASE SendsNothing \/ SendFails \/ ReconnectFails
    <3>1. link' = link /\ session' = session /\ fd' = fd
      BY <2>3 DEF SendsNothing, SendFails, ReconnectFails, serverVars
    <3>2. QED BY <1>5, <3>1
  <2>4. CASE LinkIsFoundBroken
    <3>1. link' = NoLink /\ session' = [at |-> "none", cached |-> "none"]
      BY <2>4 DEF LinkIsFoundBroken, Closes
    <3> HIDE DEF NoLink
    <3>2. QED BY <3>1, NewLinkFacts
  <2>5. QED BY <2>1, <2>2, <2>3, <2>4 DEF Sending
<1>7. ClientTyped'
  <2> DEFINE S == [at : {"none", "waits", "parse", "gone"}, cached : FileKinds \cup {"none"}]
  <2>1. session \in S /\ [at : {"none", "waits"}, cached : {"none"}] \subseteq S
    BY DEF ClientInv, ClientTyped
  <2>2. session' \in S
    <3> HIDE DEF S
    <3>1. QED BY <1>6, <2>1
  <2>3. /\ cpc' \in {"idle", "top", "open", "send", "reconnect", "parse", "decide"}
        /\ calls' \in Nat /\ present' \in BOOLEAN /\ stack' \in Seq(Frames)
    BY <1>1 DEF ClientInv, ClientTyped
  <2>4. QED BY <1>6, <2>2, <2>3 DEF ClientTyped
<1>8. LinkInv'
  <2>1. OwnTokens(link'.answer, CallId')
    BY <1>6, OwnNothing
  <2>2. link'.up /\ ~OnLink' => cpc' = "reconnect"
    BY <1>1, <1>6 DEF OnLink, SentLate
  <2>3. QED BY <1>2, <1>4, <1>6, <2>1, <2>2 DEF LinkInv
<1>9. ShownInv'
  <2>1. NewParser.at \notin RowStates
    BY DEF RowStates, NewParser
  <2>2. parsed'.at \in RowStates => present'
    BY <1>1, <2>1 DEF ClientInv, ShownInv
  <2>3. QED BY <1>1, <2>2 DEF ClientInv, ShownInv
<1>10. QED BY <1>2, <1>7, <1>8, <1>9 DEF ClientInv

LEMMA ReadKeeps ==
  ASSUME ClientInv, Read
  PROVE  ClientInv'
<1> DEFINE token == Head(link.answer)
           ok == Shift(parsed.at, token[1]) # "error"
           next == IF ok THEN Shift(parsed.at, token[1]) ELSE SkipFrom(parsed.at)
           shows == ok /\ Shows(token)
           rest == Tail(link.answer)
<1>1. /\ cpc = "parse" /\ link.answer # <<>>
      /\ parsed'.at = next /\ present' = (present \/ shows)
      /\ shown' = IF ok /\ token[1] = "VAL" THEN shown \cup {token[2]} ELSE shown
      /\ cpc' = IF next = "done" THEN "decide" ELSE cpc
      /\ link' = [link EXCEPT !.answer = rest]
      /\ stack' = stack /\ calls' = calls /\ session' = session /\ fd' = fd
  BY DEF Read
<1>2. StackInv' /\ CallId' = CallId
  BY <1>1, SameCalls DEF ClientInv
<1>3. /\ OwnTokens(link.answer, CallId) /\ (link.up => link.request = NoCall)
      /\ (link.up => fd)
  BY <1>1 DEF ClientInv, LinkInv, OnLink
<1>3a. "VAL" \in RowTags
  BY DEF RowTags
<1>4. /\ OwnTokens(rest, CallId)
      /\ token[1] = "VAL" => token[2] = CallId
      /\ token[1] = "EOT" => rest = <<>>
  BY <1>1, <1>3, <1>3a, OwnTail
<1> HIDE DEF token
<1>5. next = "done" => token[1] = "EOT"
  <2>1. CASE ok
    BY <2>1, ShiftFacts DEF Accepted
  <2>2. CASE ~ok
    BY <2>2, SkipFacts
  <2>3. QED BY <2>1, <2>2
<1>6. ok /\ token[1] = "VAL" => parsed.at \in RowStates
  BY ShiftFacts DEF Accepted
<1>7. next \in RowStates => parsed.at \in RowStates \/ shows
  <2>1. CASE ok
    <3>1. Shift(parsed.at, token[1]) \in RowStates =>
            parsed.at \in RowStates \/ token[1] = "/COLNAMES"
      BY <2>1, ShiftFacts DEF Accepted
    <3>2. QED BY <2>1, <3>1 DEF Shows
  <2>2. CASE ~ok
    BY <2>2, SkipFacts
  <2>3. QED BY <2>1, <2>2
<1>8. present \in BOOLEAN /\ (parsed.at \in RowStates => present)
  BY <1>1 DEF ClientInv, ClientTyped, ShownInv
<1> DEFINE gives == ok /\ token[1] = "VAL"
<1>8a. shown' = IF gives THEN shown \cup {token[2]} ELSE shown
  BY <1>1
<1> HIDE DEF ok, next, shows, rest
<1>9. link \in [up : BOOLEAN, request : Requests, answer : Tokens(Marks)]
      /\ rest \in Tokens(Marks)
  BY <1>4 DEF ClientInv, ClientTyped, OwnTokens
<1>10. /\ link' \in [up : BOOLEAN, request : Requests, answer : Tokens(Marks)]
       /\ link'.answer = rest /\ link'.up = link.up /\ link'.request = link.request
  BY <1>1, <1>9
<1>11. present' \in BOOLEAN /\ (present => present')
  BY <1>1, <1>8 DEF shows
<1>12. ClientTyped'
  BY <1>1, <1>10, <1>11 DEF ClientInv, ClientTyped
<1>13. LinkInv'
  <2>1. ~OnLink' => rest = <<>>
    BY <1>1, <1>4, <1>5 DEF OnLink
  <2>2. OwnTokens(link'.answer, CallId')
    BY <1>2, <1>4, <1>10
  <2>3. link'.up => link'.request = NoCall /\ fd'
    BY <1>1, <1>3, <1>10
  <2>4. QED BY <1>10, <2>1, <2>2, <2>3 DEF LinkInv
<1>14. ShownInv'
  <2>1. /\ shown \subseteq {LoginId, <<calls, stack[1].tries>>}
        /\ ~(shown \subseteq {LoginId}) => Len(stack) = 1 /\ present
    BY <1>1 DEF ClientInv, ShownInv
  <2>2. gives => token[2] = CallId /\ present
    BY <1>4, <1>6, <1>8
  <2>3. \/ CallId = LoginId
        \/ CallId = <<calls, stack[1].tries>> /\ Len(stack) = 1
    <3>1. /\ Len(stack) \in Nat \ {0}
          /\ Len(stack) = 1 => CallId = <<calls, stack[1].tries>>
          /\ Len(stack) > 1 => CallId = LoginId
      BY <1>1, TopFacts DEF ClientInv
    <3>2. Len(stack) = 1 \/ Len(stack) > 1
      BY <3>1
    <3>3. QED BY <3>1, <3>2
  <2> DEFINE x == <<calls, stack[1].tries>>
  <2> HIDE DEF gives, x
  <2>4. shown' \subseteq {LoginId, x}
    BY <1>8a, <2>1, <2>2, <2>3 DEF x
  <2>5. ~(shown' \subseteq {LoginId}) => Len(stack) = 1 /\ present
    BY <1>8a, <2>1, <2>2, <2>3
  <2>6. cpc' = "parse" /\ parsed'.at \in RowStates => present'
    BY <1>1, <1>7, <1>8
  <2>7. x' = x
    BY <1>1 DEF x
  <2>8. cpc' \in {"parse", "decide"}
    BY <1>1
  <2>9. <<calls', stack'[1].tries>> = x
    BY <1>1 DEF x
  <2>10. Len(stack') = Len(stack)
    BY <1>1
  <2>11. QED BY <1>11, <2>4, <2>5, <2>6, <2>8, <2>9, <2>10 DEF ShownInv
<1>15. QED BY <1>2, <1>12, <1>13, <1>14 DEF ClientInv

LEMMA RestKeeps ==
  ASSUME ClientInv, OpenFails \/ ReadEnds
  PROVE  ClientInv'
<1>1. /\ cpc \in {"open", "parse"} /\ cpc' = "decide" /\ stack' = stack /\ calls' = calls
      /\ present' = present /\ shown' = shown /\ session' = session /\ link' = link
      /\ fd' = fd /\ errClass' \in {"CONNECT", "RECV"}
      /\ cpc = "parse" => link.answer = <<>> /\ ~link.up
  BY DEF OpenFails, ReadEnds, serverVars
<1>2. StackInv'
  BY <1>1, SameCalls DEF ClientInv
<1>3. ClientTyped'
  BY <1>1 DEF ClientInv, ClientTyped
<1>4. LinkInv'
  BY <1>1 DEF ClientInv, LinkInv, OnLink, SentLate
<1>5. ShownInv'
  BY <1>1 DEF ClientInv, ShownInv
<1>6. QED BY <1>2, <1>3, <1>4, <1>5 DEF ClientInv

LEMMA ReturnsKeep ==
  ASSUME ClientInv, Retry \/ Return \/ LoginReturns
  PROVE  ClientInv'
<1>1. /\ cpc = "decide" /\ calls' = calls /\ shown' = shown /\ present' = present
      /\ cpc' \in {"top", "idle", "send", "decide"}
  BY DEF Retry, Return, LoginReturns, Finished
<1>2. \/ link' = link /\ session' = session /\ fd' = fd /\ ~SentLate
      \/ link' = NoLink /\ session' = [at |-> "none", cached |-> "none"]
  <2>1. Reco["SEND"].reset
    BY XmltpApiAssumption
  <2>2. SentLate => ClassOf = "SEND" /\ Resets(ClassOf)
    BY <2>1 DEF SentLate, ClassOf, Resets
  <2>3. CASE Retry \/ Return
    BY <2>2, <2>3 DEF Retry, Return, Closes, serverVars
  <2>4. CASE LoginReturns
    BY <2>4 DEF SentLate, LoginReturns, Closes, serverVars
  <2>5. QED BY <2>3, <2>4
<1>2a. ~OnLink'
  <2>1. CASE Retry \/ Return
    BY <2>1 DEF Retry, Return, OnLink, SentLate
  <2>2. CASE LoginReturns
    BY <2>2 DEF LoginReturns, OnLink, SentLate
  <2>3. QED BY <2>1, <2>2
<1>3. /\ link \in [up : BOOLEAN, request : Requests, answer : Tokens(Marks)]
      /\ link.up => fd
      /\ ~SentLate => link.answer = <<>> /\ (link.up => link.request = NoCall)
  BY <1>1 DEF ClientInv, ClientTyped, LinkInv, OnLink
<1>4. /\ link' \in [up : BOOLEAN, request : Requests, answer : Tokens(Marks)]
      /\ link'.answer = <<>> /\ (link'.up => link'.request = NoCall /\ fd')
      /\ session' \in [at : {"none", "waits", "parse", "gone"}, cached : FileKinds \cup {"none"}]
  <2>1. session \in [at : {"none", "waits", "parse", "gone"}, cached : FileKinds \cup {"none"}]
    BY DEF ClientInv, ClientTyped
  <2> HIDE DEF NoLink
  <2>2. QED BY <1>2, <1>3, <2>1, NewLinkFacts
<1>5. LinkInv'
  BY <1>2a, <1>4 DEF LinkInv
<1> DEFINE n == Len(stack)
<1>6. n \in Nat \ {0} /\ stack \in Seq(Frames) /\ stack # <<>>
  BY <1>1, TopFacts DEF ClientInv, ClientTyped, StackInv
<1>7. CASE Retry
  <2>1. cpc' = "top" /\ stack' = stack /\ ~present
    BY <1>7 DEF Retry, MayRetry
  <2>2. StackInv'
    BY <1>1, <2>1, SameCalls DEF ClientInv
  <2>3. ClientTyped'
    BY <1>1, <1>4, <2>1 DEF ClientInv, ClientTyped
  <2>4. ShownInv'
    BY <1>1, <2>1 DEF ClientInv, ShownInv
  <2>5. QED BY <1>5, <2>2, <2>3, <2>4 DEF ClientInv
<1>8. CASE Return
  <2>1. cpc' = "idle" /\ stack' = <<>>
    BY <1>8 DEF Return
  <2>2. StackInv'
    BY <2>1, EmptySeq DEF StackInv
  <2>3. <<>> \in Seq(Frames)
    BY EmptySeq
  <2>4. ClientTyped'
    BY <1>1, <1>4, <2>1, <2>3 DEF ClientInv, ClientTyped
  <2>5. ShownInv'
    BY <1>1, <2>1 DEF ClientInv, ShownInv
  <2>6. QED BY <1>5, <2>2, <2>4, <2>5 DEF ClientInv
<1>9. CASE LoginReturns
  <2>1. stack' = SubSeq(stack, 1, n - 1) /\ n > 1 /\ cpc' \in {"send", "decide"}
    BY <1>9 DEF LoginReturns
  <2>2. \A i \in 1..(n - 1) : stack[i] \in Frames
    BY <1>6
  <2>3. /\ stack' \in Seq(Frames) /\ Len(stack') = n - 1 /\ stack' # <<>>
        /\ \A i \in 1..(n - 1) : stack'[i] = stack[i]
    <3>1. /\ stack' \in Seq(Frames) /\ Len(stack') = n - 1
          /\ \A i \in 1..(n - 1) : stack'[i] = stack[i]
      BY <1>6, <2>1, <2>2
    <3>2. n - 1 # 0 /\ Len(<<>>) = 0
      BY <1>6, <2>1
    <3>3. stack' # <<>>
      BY <3>1, <3>2
    <3>4. QED BY <3>1, <3>3
  <2>4. StackInv'
    <3>1. 1 \in 1..(n - 1) /\ \A i \in 2..(n - 1) : i \in 1..(n - 1) /\ i \in 2..n
      BY <1>6, <2>1
    <3>2. stack[1].proc # "login" /\ \A i \in 2..n : stack[i].proc = "login"
      BY <1>6 DEF ClientInv, StackInv
    <3>3. QED BY <2>1, <2>3, <3>1, <3>2 DEF StackInv
  <2>5. ClientTyped'
    BY <1>1, <1>4, <2>1, <2>3 DEF ClientInv, ClientTyped
  <2>6. shown \subseteq {LoginId}
    BY <1>1, <1>6, <2>1 DEF ClientInv, ShownInv
  <2>7. ShownInv'
    BY <1>1, <2>1, <2>6 DEF ShownInv
  <2>8. QED BY <1>5, <2>4, <2>5, <2>7 DEF ClientInv
<1>10. QED BY <1>7, <1>8, <1>9

LEMMA ServerKeeps ==
  ASSUME ClientInv, ServerNext, UNCHANGED apiVars
  PROVE  ClientInv'
<1>1. /\ cpc' = cpc /\ stack' = stack /\ calls' = calls /\ shown' = shown /\ present' = present
      /\ parsed' = parsed /\ fd' = fd
  BY DEF apiVars
<1>1a. OnLink' = OnLink
  BY DEF apiVars, OnLink, SentLate
<1>2. StackInv' /\ ShownInv'
  BY <1>1 DEF ClientInv, StackInv, ShownInv
<1>3. CallId' = CallId
  BY <1>1 DEF CallId, InLogin, Top
<1>4. /\ link \in [up : BOOLEAN, request : Requests, answer : Tokens(Marks)]
      /\ session \in [at : {"none", "waits", "parse", "gone"}, cached : FileKinds \cup {"none"}]
  BY DEF ClientInv, ClientTyped
<1> DEFINE Goal ==
      /\ link' \in [up : BOOLEAN, request : Requests, answer : Tokens(Marks)]
      /\ session' \in [at : {"none", "waits", "parse", "gone"}, cached : FileKinds \cup {"none"}]
      /\ LinkInv'
<1>5. SUFFICES Goal
  BY <1>1, <1>2 DEF ClientInv, ClientTyped
<1>6. CASE (\E b \in BOOLEAN : ServerBind(b)) \/ ServerAccept
  <2>1. /\ link' = link /\ session' \in {session, [at |-> "parse", cached |-> "none"]}
    BY <1>6 DEF ServerBind, ServerAccept
  <2>2. LinkInv'
    BY <1>1, <1>1a, <1>3, <2>1 DEF ClientInv, LinkInv
  <2>3. QED BY <1>4, <2>1, <2>2
<1>7. CASE ListenerStops
  <2>1. /\ link' = link \/ link' = [link EXCEPT !.up = FALSE]
        /\ session' = session \/ session' = [session EXCEPT !.at = "gone"]
    BY <1>7 DEF ListenerStops
  <2>2. /\ link' \in [up : BOOLEAN, request : Requests, answer : Tokens(Marks)]
        /\ link'.answer = link.answer
        /\ link'.up => link'.request = link.request /\ link.up
        /\ session' \in [at : {"none", "waits", "parse", "gone"}, cached : FileKinds \cup {"none"}]
    BY <1>4, <2>1
  <2>3. LinkInv'
    BY <1>1, <1>1a, <1>3, <2>2 DEF ClientInv, LinkInv
  <2>4. QED BY <2>2, <2>3
<1>8. CASE Break
  <2>1. PICK k \in 0..Len(link.answer) :
          link' = [up |-> FALSE, request |-> NoCall, answer |-> SubSeq(link.answer, 1, k)]
    BY <1>8 DEF Break
  <2>2. session' = [session EXCEPT !.at = "gone", !.cached = "none"]
    BY <1>8 DEF Break
  <2> DEFINE u == SubSeq(link.answer, 1, k)
  <2>3. u \in Tokens(Marks)
    <3> DEFINE S == Token(Marks)
    <3>1. link.answer \in Seq(S)
      BY <1>4 DEF Tokens
    <3> HIDE DEF S
    <3>2. u \in Seq(S)
      BY <3>1
    <3>3. QED BY <3>2 DEF Tokens, S
  <2>4. ~OnLink => u = <<>>
    <3>1. ~OnLink => link.answer = <<>>
      BY DEF ClientInv, LinkInv
    <3>2. Len(<<>>) = 0 /\ SubSeq(<<>>, 1, 0) = <<>>
      OBVIOUS
    <3>3. QED BY <3>1, <3>2
  <2>5. OnLink => OwnTokens(u, CallId)
    BY OwnPrefix DEF ClientInv, LinkInv
  <2> HIDE DEF u
  <2>6. link' = [up |-> FALSE, request |-> NoCall, answer |-> u]
    BY <2>1 DEF u
  <2>7. LinkInv'
    BY <1>1a, <1>3, <2>4, <2>5, <2>6 DEF LinkInv
  <2>8. QED BY <1>4, <2>2, <2>3, <2>6, <2>7 DEF Requests
<1>9. CASE Serve
  <2>1. /\ link.up /\ link.request # NoCall
    BY <1>9 DEF Serve
  <2>2. OnLink /\ link.answer = <<>> /\ link.request \in Procs \X {CallId} /\ fd
    BY <2>1 DEF ClientInv, LinkInv
  <2>3. link.request[1] \in Procs /\ link.request[2] = CallId
    BY <2>2
  <2>4. PICK a \in Answers(link.request[1], CallId) :
          /\ link' = [link EXCEPT !.request = NoCall, !.answer = @ \o a.tokens]
          /\ session' = [session EXCEPT !.cached = a.cached]
    BY <1>9, <2>3 DEF Serve
  <2>5. CallId \in Marks
    <3>1. CallId \in Nat \X Nat
      BY <2>2, TopFacts DEF ClientInv, OnLink, SentLate
    <3>2. QED BY <3>1, MarksFacts
  <2>6. OwnTokens(a.tokens, CallId) /\ a.cached \in FileKinds \cup {"none"}
    BY <1>4, <2>3, <2>5, AnswersOwn
  <2> DEFINE t == a.tokens
             u == link.answer \o t
  <2>7. u = t /\ t \in Tokens(Marks)
    <3> DEFINE S == Token(Marks)
    <3>1. t \in Seq(S) /\ t \in Tokens(Marks)
      BY <2>6 DEF Tokens, OwnTokens
    <3> HIDE DEF S, t
    <3>2. <<>> \o t = t
      BY <3>1, ConcatEmptySeq
    <3>3. QED BY <2>2, <3>1, <3>2
  <2> HIDE DEF u, t
  <2>8. link' = [link EXCEPT !.request = NoCall, !.answer = u]
    BY <2>4 DEF u, t
  <2>9. /\ link' \in [up : BOOLEAN, request : Requests, answer : Tokens(Marks)]
        /\ link'.request = NoCall /\ link'.answer = t
    BY <1>4, <2>7, <2>8 DEF Requests
  <2>10. LinkInv'
    BY <1>1, <1>1a, <1>3, <2>2, <2>6, <2>9 DEF LinkInv, t
  <2>11. QED BY <1>4, <2>4, <2>6, <2>9, <2>10
<1>10. QED BY <1>6, <1>7, <1>8, <1>9 DEF ServerNext


LEMMA ClientStep ==
  ASSUME ClientInv, [ApiNext]_<<apiVars, serverVars>>
  PROVE  ClientInv'
<1>1. CASE UNCHANGED <<apiVars, serverVars>>
  <2>1. /\ cpc' = cpc /\ stack' = stack /\ calls' = calls /\ shown' = shown /\ present' = present
        /\ parsed' = parsed /\ link' = link /\ session' = session
        /\ fd' = fd /\ errClass' = errClass
    BY <1>1 DEF apiVars, serverVars
  <2>2. CallId' = CallId
    BY <2>1 DEF CallId, InLogin, Top
  <2>3. ClientTyped' /\ StackInv' /\ ShownInv'
    BY <2>1 DEF ClientInv, ClientTyped, StackInv, ShownInv
  <2>4. LinkInv'
    BY <2>1, <2>2 DEF ClientInv, LinkInv, OnLink, SentLate
  <2>5. QED BY <2>3, <2>4 DEF ClientInv
<1>2. CASE \E proc \in Procs \ {"login"} : Call(proc)
  BY <1>2, CallKeeps
<1>3. CASE BeginTry \/ Open
  BY <1>3, BeginTryKeeps, OpenKeeps
<1>4. CASE Sending
  BY <1>4, SendsKeep
<1>5. CASE Read \/ OpenFails \/ ReadEnds
  BY <1>5, ReadKeeps, RestKeeps
<1>6. CASE Retry \/ Return \/ LoginReturns
  BY <1>6, ReturnsKeep
<1>7. CASE ServerNext /\ UNCHANGED apiVars
  BY <1>7, ServerKeeps
<1>8. QED BY <1>1, <1>2, <1>3, <1>4, <1>5, <1>6, <1>7 DEF ApiNext, TrySteps, Sending

LEMMA ClientOfLib == [LibNext]_libVars => [ApiNext]_<<apiVars, serverVars>>
  BY DEF libVars, responseVars, dataVars, LibNext, SybPart, ClientPart, GatewayPart, ReaderPart,
     ListPart, ArrayPart, ConfigPart, SocketPart, TextPart, QueuePart, ForwardPart

LEMMA AtMostOne ==
  ASSUME NEW S, NEW x, S \subseteq {x}
  PROVE  Cardinality(S) <= 1
<1>1. IsFiniteSet({x}) /\ Cardinality({x}) = 1
  BY FS_Singleton
<1>2. QED BY <1>1, FS_Subset

-----------------------------------------------------------------------------
(* The rows of an answer are of one execution                              *)

OneInv == SybInv /\ SybRows /\ ClientInv

LEMMA OneInvInit == LibInit => OneInv
<1> SUFFICES ASSUME LibInit PROVE OneInv
  OBVIOUS
<1>1. SybInit /\ ApiInit /\ ServerInit
  BY DEF LibInit
<1>2. w = FreshWriter /\ pc = "init"
  BY <1>1 DEF SybInit
<1>3. Of(w.out, RowTags) = {}
  BY <1>2, FreshRows
<1>4. SybRows
  BY <1>2, <1>3 DEF SybRows
<1>5. QED BY <1>1, <1>4, SybInitInv, ClientInitInv DEF OneInv

LEMMA ClientShows == ClientInv => RowsOfOneTry
<1> SUFFICES ASSUME ClientInv PROVE RowsOfOneTry
  OBVIOUS
<1>1. PICK x : shown \subseteq {LoginId, x}
  BY DEF ClientInv, ShownInv
<1>2. shown \ {<<0, 0>>} \subseteq {x}
  BY <1>1 DEF LoginId
<1>3. QED BY <1>2, AtMostOne DEF RowsOfOneTry

LEMMA OneInvShows == OneInv => OneExecution
<1> SUFFICES ASSUME OneInv PROVE OneExecution
  OBVIOUS
<1>1. SybOneExecution
  <2>1. PICK v : Of(w.out, RowTags) \subseteq {v}
    BY DEF OneInv, SybRows
  <2>2. RowTags = {"VAL", "PARAM"}
    BY DEF RowTags
  <2>3. QED BY <2>1, <2>2, AtMostOne DEF SybOneExecution
<1>2. RowsOfOneTry
  BY ClientShows DEF OneInv
<1>3. QED BY <1>1, <1>2 DEF OneExecution

\* The rows that the client library gives to an application are of one try of its
\* call: whatever its recovery table says, for any number of calls, of tries and
\* of broken links, and any answers of the server.
THEOREM RowsOfOneTryHolds == LibSpec => []RowsOfOneTry
<1>1. LibInit => ClientInv
  BY ClientInitInv DEF LibInit
<1>2. ClientInv /\ [LibNext]_libVars => ClientInv'
  BY ClientStep, ClientOfLib
<1>3. ClientInv => RowsOfOneTry
  BY ClientShows
<1>4. QED BY <1>1, <1>2, <1>3, PTL DEF LibSpec

\* Without statuses that are to be retried (RETRY_ON_THOSE_RETURN_STATUS, empty
\* unless the configuration names some), the rows and output parameters of an
\* answer of xml2syb are of one execution; and the rows that the client library
\* gives to an application are of one try of its call, whatever its recovery
\* table says, for any number of calls, tries and broken links.
THEOREM RowsOfOneExecution ==
  ASSUME RetryStatus = {}
  PROVE  LibSpec => []OneExecution
<1>1. LibInit => OneInv
  BY OneInvInit
<1>2. OneInv /\ [LibNext]_libVars => OneInv'
  BY SybStep, SybRowsStep, SybOfLib, ClientStep, ClientOfLib DEF OneInv
<1>3. OneInv => OneExecution
  BY OneInvShows
<1>4. QED BY <1>1, <1>2, <1>3, PTL DEF LibSpec

-----------------------------------------------------------------------------
(* The grammar and the writer: where the parse of what is written stands   *)

\* The state behind a token depends on its tag only.
Behind(tag) ==
  CASE tag = "RESPONSE" -> "response" [] tag = "SETS" -> "sets" [] tag = "SET" -> "set"
    [] tag = "COLNAMES" -> "names" [] tag = "COL" -> "columns" [] tag = "/COLNAMES" -> "named"
    [] tag = "ROWS" -> "rows" [] tag = "ROW" -> "row" [] tag = "VAL" -> "values"
    [] tag = "/ROW" -> "rows" [] tag = "/ROWS" -> "counted" [] tag = "NBROWS" -> "closing"
    [] tag = "/SET" -> "more" [] tag = "/SETS" -> "results" [] tag = "OUTPARAMS" -> "params"
    [] tag = "PARAM" -> "values of params" [] tag = "/OUTPARAMS" -> "trailer"
    [] tag = "MSGLIST" -> "msgs" [] tag = "MSG" -> "more msgs" [] tag = "/MSGLIST" -> "totals"
    [] tag = "TOTALROWS" -> "total" [] tag = "STATUS" -> "end" [] tag = "/RESPONSE" -> "eot"
    [] tag = "EOT" -> "done" [] OTHER -> "error"

LEMMA BehindIs ==
  /\ Behind("RESPONSE") = "response" /\ Behind("SETS") = "sets"
  /\ Behind("SET") = "set" /\ Behind("COLNAMES") = "names"
  /\ Behind("COL") = "columns" /\ Behind("/COLNAMES") = "named"
  /\ Behind("ROWS") = "rows" /\ Behind("ROW") = "row"
  /\ Behind("VAL") = "values" /\ Behind("/ROW") = "rows"
  /\ Behind("/ROWS") = "counted" /\ Behind("NBROWS") = "closing"
  /\ Behind("/SET") = "more" /\ Behind("/SETS") = "results"
  /\ Behind("OUTPARAMS") = "params" /\ Behind("PARAM") = "values of params"
  /\ Behind("/OUTPARAMS") = "trailer" /\ Behind("MSGLIST") = "msgs"
  /\ Behind("MSG") = "more msgs" /\ Behind("/MSGLIST") = "totals"
  /\ Behind("TOTALROWS") = "total" /\ Behind("STATUS") = "end"
  /\ Behind("/RESPONSE") = "eot" /\ Behind("EOT") = "done"
  BY DEF Behind

LEMMA RuleTarget ==
  ASSUME NEW r \in Rules \cup Sync
  PROVE  r[3] = Behind(r[2]) /\ r[3] # "error"
<1>1. PICK a, b, c : r = <<a, b, c>>
  <2>1. CASE r \in FixedRules
    BY <2>1, Zenon DEF FixedRules
  <2>2. CASE r \in OpenRules
    BY <2>2, Zenon DEF OpenRules
  <2>3. CASE r \in Sync
    BY <2>3, Zenon DEF Sync
  <2>4. QED BY <2>1, <2>2, <2>3, RulesAre
<1>2. c = Behind(b) /\ c # "error"
  <2>1. CASE <<a, b, c>> \in FixedRules
    <3> DEFINE X == { <<"start", "RESPONSE", "response">>, <<"response", "SETS", "sets">>,
                      <<"sets", "SET", "set">>, <<"set", "COLNAMES", "names">>,
                      <<"names", "COL", "columns">>, <<"columns", "COL", "columns">>,
                      <<"columns", "/COLNAMES", "named">>, <<"named", "ROWS", "rows">>,
                      <<"rows", "ROW", "row">> }
               Y == { <<"row", "VAL", "values">>, <<"values", "VAL", "values">>,
                      <<"values", "/ROW", "rows">>, <<"rows", "/ROWS", "counted">>,
                      <<"counted", "NBROWS", "closing">>, <<"closing", "/SET", "more">>,
                      <<"more", "SET", "set">>, <<"more", "/SETS", "results">>,
                      <<"params", "PARAM", "values of params">> }
               Z == { <<"values of params", "PARAM", "values of params">>, <<"values of params", "/OUTPARAMS", "trailer">>,
                      <<"msgs", "MSG", "more msgs">>, <<"more msgs", "MSG", "more msgs">>,
                      <<"more msgs", "/MSGLIST", "totals">>, <<"total", "STATUS", "end">>,
                      <<"end", "/RESPONSE", "eot">>, <<"eot", "EOT", "done">> }
    <3>1. <<a, b, c>> \in X \cup Y \cup Z
      BY <2>1, Zenon DEF FixedRules
    <3>2. <<a, b, c>> \in X => c = Behind(b) /\ c # "error"
      BY BehindIs
    <3>3. <<a, b, c>> \in Y => c = Behind(b) /\ c # "error"
      BY BehindIs
    <3>4. <<a, b, c>> \in Z => c = Behind(b) /\ c # "error"
      BY BehindIs
    <3> HIDE DEF X, Y, Z
    <3>5. QED BY <3>1, <3>2, <3>3, <3>4
  <2>2. CASE <<a, b, c>> \in OpenRules
    <3>1. \/ (b = "OUTPARAMS" /\ c = "params") \/ (b = "MSGLIST" /\ c = "msgs")
          \/ (b = "TOTALROWS" /\ c = "total") \/ (b = "STATUS" /\ c = "end")
      BY <2>2 DEF OpenRules
    <3>2. QED BY <3>1, BehindIs
  <2>3. CASE <<a, b, c>> \in Sync
    BY <2>3, BehindIs DEF Sync
  <2>4. QED BY <1>1, <2>1, <2>2, <2>3, RulesAre
<1>3. r[2] = b /\ r[3] = c
  BY <1>1
<1>4. QED BY <1>2, <1>3

\* The rules by which the writer's output is parsed.
Rule(state, tag, next) == <<state, tag, next>>

LEMMA ShiftTo ==
  ASSUME NEW state, NEW tag, NEW next, Rule(state, tag, next) \in Rules
  PROVE  Shift(state, tag) = next
<1> DEFINE N == {r \in Rules \cup Sync : r[1] = state /\ r[2] = tag}
           c == CHOOSE r \in N : TRUE
<1>1. Shift(state, tag) = IF N = {} THEN "error" ELSE c[3]
  BY Zenon DEF Shift
<1>2. /\ Rule(state, tag, next)[1] = state /\ Rule(state, tag, next)[2] = tag
      /\ Rule(state, tag, next)[3] = next
  BY DEF Rule
<1>3. N # {}
  BY <1>2
<1>4. c \in N
  BY <1>3
<1> HIDE DEF c
<1>5. c[3] = Behind(tag)
  BY <1>4, RuleTarget
<1>6. next = Behind(tag)
  <2> DEFINE q == Rule(state, tag, next)
  <2>1. q \in Rules \cup Sync /\ q[2] = tag /\ q[3] = next
    BY <1>2
  <2> HIDE DEF q
  <2>2. QED BY <2>1, RuleTarget
<1>7. QED BY <1>1, <1>3, <1>5, <1>6

LEMMA Shifts ==
  /\ Shift("start", "RESPONSE") = "response"
  /\ Shift("response", "SETS") = "sets"
  /\ Shift("sets", "SET") = "set"
  /\ Shift("set", "COLNAMES") = "names"
  /\ Shift("names", "COL") = "columns"
  /\ Shift("columns", "COL") = "columns"
  /\ Shift("columns", "/COLNAMES") = "named"
  /\ Shift("named", "ROWS") = "rows"
  /\ Shift("rows", "ROW") = "row"
  /\ Shift("row", "VAL") = "values"
  /\ Shift("values", "VAL") = "values"
  /\ Shift("values", "/ROW") = "rows"
  /\ Shift("rows", "/ROWS") = "counted"
  /\ Shift("counted", "NBROWS") = "closing"
  /\ Shift("closing", "/SET") = "more"
  /\ Shift("more", "SET") = "set"
  /\ Shift("more", "/SETS") = "results"
  /\ Shift("params", "PARAM") = "values of params"
  /\ Shift("values of params", "PARAM") = "values of params"
  /\ Shift("values of params", "/OUTPARAMS") = "trailer"
  /\ Shift("msgs", "MSG") = "more msgs"
  /\ Shift("more msgs", "MSG") = "more msgs"
  /\ Shift("more msgs", "/MSGLIST") = "totals"
  /\ Shift("total", "STATUS") = "end"
  /\ Shift("end", "/RESPONSE") = "eot"
  /\ Shift("eot", "EOT") = "done"
  /\ Shift("response", "OUTPARAMS") = "params"
  /\ Shift("results", "OUTPARAMS") = "params"
  /\ Shift("response", "MSGLIST") = "msgs"
  /\ Shift("results", "MSGLIST") = "msgs"
  /\ Shift("trailer", "MSGLIST") = "msgs"
  /\ Shift("response", "STATUS") = "end"
  /\ Shift("results", "STATUS") = "end"
  /\ Shift("trailer", "STATUS") = "end"
  /\ Shift("totals", "STATUS") = "end"
<1>1. Rule("start", "RESPONSE", "response") \in FixedRules
  BY Zenon DEF FixedRules, Rule
<1>2. Rule("response", "SETS", "sets") \in FixedRules
  BY Zenon DEF FixedRules, Rule
<1>3. Rule("sets", "SET", "set") \in FixedRules
  BY Zenon DEF FixedRules, Rule
<1>4. Rule("set", "COLNAMES", "names") \in FixedRules
  BY Zenon DEF FixedRules, Rule
<1>5. Rule("names", "COL", "columns") \in FixedRules
  BY Zenon DEF FixedRules, Rule
<1>6. Rule("columns", "COL", "columns") \in FixedRules
  BY Zenon DEF FixedRules, Rule
<1>7. Rule("columns", "/COLNAMES", "named") \in FixedRules
  BY Zenon DEF FixedRules, Rule
<1>8. Rule("named", "ROWS", "rows") \in FixedRules
  BY Zenon DEF FixedRules, Rule
<1>9. Rule("rows", "ROW", "row") \in FixedRules
  BY Zenon DEF FixedRules, Rule
<1>10. Rule("row", "VAL", "values") \in FixedRules
  BY Zenon DEF FixedRules, Rule
<1>11. Rule("values", "VAL", "values") \in FixedRules
  BY Zenon DEF FixedRules, Rule
<1>12. Rule("values", "/ROW", "rows") \in FixedRules
  BY Zenon DEF FixedRules, Rule
<1>13. Rule("rows", "/ROWS", "counted") \in FixedRules
  BY Zenon DEF FixedRules, Rule
<1>14. Rule("counted", "NBROWS", "closing") \in FixedRules
  BY Zenon DEF FixedRules, Rule
<1>15. Rule("closing", "/SET", "more") \in FixedRules
  BY Zenon DEF FixedRules, Rule
<1>16. Rule("more", "SET", "set") \in FixedRules
  BY Zenon DEF FixedRules, Rule
<1>17. Rule("more", "/SETS", "results") \in FixedRules
  BY Zenon DEF FixedRules, Rule
<1>18. Rule("params", "PARAM", "values of params") \in FixedRules
  BY Zenon DEF FixedRules, Rule
<1>19. Rule("values of params", "PARAM", "values of params") \in FixedRules
  BY Zenon DEF FixedRules, Rule
<1>20. Rule("values of params", "/OUTPARAMS", "trailer") \in FixedRules
  BY Zenon DEF FixedRules, Rule
<1>21. Rule("msgs", "MSG", "more msgs") \in FixedRules
  BY Zenon DEF FixedRules, Rule
<1>22. Rule("more msgs", "MSG", "more msgs") \in FixedRules
  BY Zenon DEF FixedRules, Rule
<1>23. Rule("more msgs", "/MSGLIST", "totals") \in FixedRules
  BY Zenon DEF FixedRules, Rule
<1>24. Rule("total", "STATUS", "end") \in FixedRules
  BY Zenon DEF FixedRules, Rule
<1>25. Rule("end", "/RESPONSE", "eot") \in FixedRules
  BY Zenon DEF FixedRules, Rule
<1>26. Rule("eot", "EOT", "done") \in FixedRules
  BY Zenon DEF FixedRules, Rule
<1>27. Rule("response", "OUTPARAMS", "params") \in OpenRules
  BY Zenon DEF OpenRules, Rule
<1>28. Rule("results", "OUTPARAMS", "params") \in OpenRules
  BY Zenon DEF OpenRules, Rule
<1>29. Rule("response", "MSGLIST", "msgs") \in OpenRules
  BY Zenon DEF OpenRules, Rule
<1>30. Rule("results", "MSGLIST", "msgs") \in OpenRules
  BY Zenon DEF OpenRules, Rule
<1>31. Rule("trailer", "MSGLIST", "msgs") \in OpenRules
  BY Zenon DEF OpenRules, Rule
<1>32. Rule("response", "STATUS", "end") \in OpenRules
  BY Zenon DEF OpenRules, Rule
<1>33. Rule("results", "STATUS", "end") \in OpenRules
  BY Zenon DEF OpenRules, Rule
<1>34. Rule("trailer", "STATUS", "end") \in OpenRules
  BY Zenon DEF OpenRules, Rule
<1>35. Rule("totals", "STATUS", "end") \in OpenRules
  BY Zenon DEF OpenRules, Rule
<1>36. /\ Shift("start", "RESPONSE") = "response"
      /\ Shift("response", "SETS") = "sets"
      /\ Shift("sets", "SET") = "set"
      /\ Shift("set", "COLNAMES") = "names"
      /\ Shift("names", "COL") = "columns"
      /\ Shift("columns", "COL") = "columns"
  BY <1>1, <1>2, <1>3, <1>4, <1>5, <1>6,
     RulesAre, ShiftTo
<1>37. /\ Shift("columns", "/COLNAMES") = "named"
      /\ Shift("named", "ROWS") = "rows"
      /\ Shift("rows", "ROW") = "row"
      /\ Shift("row", "VAL") = "values"
      /\ Shift("values", "VAL") = "values"
      /\ Shift("values", "/ROW") = "rows"
  BY <1>7, <1>8, <1>9, <1>10, <1>11, <1>12,
     RulesAre, ShiftTo
<1>38. /\ Shift("rows", "/ROWS") = "counted"
      /\ Shift("counted", "NBROWS") = "closing"
      /\ Shift("closing", "/SET") = "more"
      /\ Shift("more", "SET") = "set"
      /\ Shift("more", "/SETS") = "results"
      /\ Shift("params", "PARAM") = "values of params"
  BY <1>13, <1>14, <1>15, <1>16, <1>17, <1>18,
     RulesAre, ShiftTo
<1>39. /\ Shift("values of params", "PARAM") = "values of params"
      /\ Shift("values of params", "/OUTPARAMS") = "trailer"
      /\ Shift("msgs", "MSG") = "more msgs"
      /\ Shift("more msgs", "MSG") = "more msgs"
      /\ Shift("more msgs", "/MSGLIST") = "totals"
      /\ Shift("total", "STATUS") = "end"
  BY <1>19, <1>20, <1>21, <1>22, <1>23, <1>24,
     RulesAre, ShiftTo
<1>40. /\ Shift("end", "/RESPONSE") = "eot"
      /\ Shift("eot", "EOT") = "done"
      /\ Shift("response", "OUTPARAMS") = "params"
      /\ Shift("results", "OUTPARAMS") = "params"
      /\ Shift("response", "MSGLIST") = "msgs"
      /\ Shift("results", "MSGLIST") = "msgs"
  BY <1>25, <1>26, <1>27, <1>28, <1>29, <1>30,
     RulesAre, ShiftTo
<1>41. /\ Shift("trailer", "MSGLIST") = "msgs"
      /\ Shift("response", "STATUS") = "end"
      /\ Shift("results", "STATUS") = "end"
      /\ Shift("trailer", "STATUS") = "end"
      /\ Shift("totals", "STATUS") = "end"
  BY <1>31, <1>32, <1>33, <1>34, <1>35,
     RulesAre, ShiftTo
<1>42. QED BY <1>36, <1>37, <1>38, <1>39, <1>40, <1>41

-----------------------------------------------------------------------------
(* The writer: where a parse of what it has written stands                 *)

\* The writer b has written more than a, its variables are the same, and a parse
\* of what it has written stands at the state k.
Extends(a, b, k) ==
  /\ b \in Writers(Int) /\ At(b) = k
  /\ b.header = a.header /\ b.sets = a.sets /\ b.rows = a.rows /\ b.inRow = a.inRow
  /\ b.params = a.params /\ b.setNo = a.setNo

LEMMA OneFollows ==
  ASSUME NEW a \in Writers(Int), NEW t \in Token(Int)
  PROVE  Extends(a, One(a, t), Shift(At(a), t[1]))
<1> DEFINE b == One(a, t)
           o == a.out
<1>1. o \in Tokens(Int)
  BY DEF Writers
<1>2. /\ b \in Writers(Int) /\ b.out = Append(o, t)
      /\ b.header = a.header /\ b.sets = a.sets /\ b.rows = a.rows /\ b.inRow = a.inRow
      /\ b.params = a.params /\ b.setNo = a.setNo
  BY OneFacts
<1> HIDE DEF b, o
<1>3. ParseFrom("start", Append(o, t)) = Shift(ParseFrom("start", o), t[1])
  BY <1>1, ParseAppend
<1>4. At(b) = Shift(At(a), t[1])
  BY <1>2, <1>3, Zenon DEF At, o
<1>5. Extends(a, b, Shift(At(a), t[1]))
  BY <1>2, <1>4 DEF Extends
<1>6. QED BY <1>5, Zenon DEF b

LEMMA MarkedFollows ==
  ASSUME NEW a \in Writers(Int), NEW tag \in Plain \cup ValueTags, NEW v \in Int, NEW k,
         Shift(At(a), tag) = k
  PROVE  Extends(a, One(a, MarkedTag(tag, v)), k)
<1> DEFINE t == MarkedTag(tag, v)
<1>1. t \in Token(Int) /\ t[1] = tag
  BY DEF MarkedTag, Token
<1> HIDE DEF t
<1>2. Extends(a, One(a, t), Shift(At(a), t[1]))
  BY <1>1, OneFollows
<1>3. QED BY <1>1, <1>2, Zenon DEF t

LEMMA TagFollows ==
  ASSUME NEW a \in Writers(Int), NEW tag \in Plain, NEW k, Shift(At(a), tag) = k
  PROVE  Extends(a, One(a, Tag(tag)), k)
<1>1. Tag(tag) = MarkedTag(tag, 0) /\ 0 \in Int /\ tag \in Plain \cup ValueTags
  BY DEF Tag, MarkedTag
<1>2. QED BY <1>1, MarkedFollows

LEMMA FollowsTrans ==
  ASSUME NEW a, NEW b, NEW c, NEW j, NEW k, Extends(a, b, j), Extends(b, c, k)
  PROVE  Extends(a, c, k)
  BY DEF Extends

\* One more token.
LEMMA ThenMarked ==
  ASSUME NEW a, NEW b, NEW j, Extends(a, b, j), NEW tag \in Plain \cup ValueTags, NEW v \in Int,
         NEW k, Shift(j, tag) = k
  PROVE  Extends(a, One(b, MarkedTag(tag, v)), k)
<1>1. b \in Writers(Int) /\ Shift(At(b), tag) = k
  BY DEF Extends
<1>2. Extends(b, One(b, MarkedTag(tag, v)), k)
  BY <1>1, MarkedFollows
<1>3. QED BY <1>2, FollowsTrans

LEMMA ThenTag ==
  ASSUME NEW a, NEW b, NEW j, Extends(a, b, j), NEW tag \in Plain, NEW k, Shift(j, tag) = k
  PROVE  Extends(a, One(b, Tag(tag)), k)
<1>1. b \in Writers(Int) /\ Shift(At(b), tag) = k
  BY DEF Extends
<1>2. Extends(b, One(b, Tag(tag)), k)
  BY <1>1, TagFollows
<1>3. QED BY <1>2, FollowsTrans

LEMMA AtSame == ASSUME NEW a, NEW b, a.out = b.out PROVE At(a) = At(b)
  BY DEF At

\* A result set that is ended, without rows or with some.
LEMMA EndPreviousFollows ==
  ASSUME NEW a \in Writers(Int), NEW n \in Int,
         a.rows => At(a) = "rows", ~a.rows => At(a) = "columns"
  PROVE  LET e == EndPreviousResultSet(a, n)
         IN /\ e \in Writers(Int) /\ At(e) = "more" /\ e.rows = FALSE
            /\ e.header = a.header /\ e.sets = a.sets /\ e.inRow = a.inRow
            /\ e.params = a.params /\ e.setNo = a.setNo
<1> DEFINE b == [a EXCEPT !.rows = FALSE]
           g1 == Tag("/COLNAMES")
           g2 == Tag("ROWS")
           g3 == Tag("/ROWS")
           g4 == MarkedTag("NBROWS", n)
           g0 == MarkedTag("NBROWS", 0)
           g5 == Tag("/SET")
           r3 == Three(b, g3, g4, g5)
           r5 == Five(a, g1, g2, g3, g0, g5)
           e == EndPreviousResultSet(a, n)
<1>1. /\ b \in Writers(Int) /\ b.out = a.out /\ b.rows = FALSE
      /\ b.header = a.header /\ b.sets = a.sets /\ b.inRow = a.inRow
      /\ b.params = a.params /\ b.setNo = a.setNo
  BY DEF Writers
<1>2. e = IF a.rows THEN r3 ELSE r5
  BY Zenon DEF EndPreviousResultSet, Three, Five, MarkedTag
<1>3. /\ "/COLNAMES" \in Plain /\ "ROWS" \in Plain /\ "/ROWS" \in Plain /\ "NBROWS" \in Plain
      /\ "/SET" \in Plain /\ 0 \in Int
  BY DEF Plain
<1>4. /\ g1 \in Token(Int) /\ g2 \in Token(Int) /\ g3 \in Token(Int) /\ g5 \in Token(Int)
  BY <1>3, PlainTag
<1>5. g4 \in Token(Int) /\ g0 \in Token(Int)
  BY <1>3 DEF MarkedTag, Token
<1> HIDE DEF b, e
<1>6. CASE a.rows
  <2> DEFINE b1 == One(b, g3)
             b2 == One(b1, g4)
             b3 == One(b2, g5)
  <2>1. At(b) = "rows"
    BY <1>1, <1>6, AtSame
  <2>2. Extends(b, b1, "counted")
    BY <1>1, <1>3, <2>1, TagFollows, Shifts
  <2> HIDE DEF b1
  <2>3. Extends(b, b2, "closing")
    BY <1>3, <2>2, ThenMarked, Shifts
  <2> HIDE DEF b2
  <2>4. Extends(b, b3, "more")
    BY <1>3, <2>3, ThenTag, Shifts
  <2> HIDE DEF b3
  <2>5. r3 = b3
    <3> HIDE DEF g3, g4, g5
    <3>1. r3 = One(One(One(b, g3), g4), g5)
      BY <1>1, <1>4, <1>5, Steps
    <3>2. QED BY <3>1, Zenon DEF b3, b2, b1
  <2>6. e = b3
    BY <1>2, <1>6, <2>5
  <2>7. QED BY <1>1, <2>4, <2>6 DEF Extends, e
<1>7. CASE ~a.rows
  <2> DEFINE b1 == One(a, g1)
             b2 == One(b1, g2)
             b3 == One(b2, g3)
             b4 == One(b3, g0)
             b5 == One(b4, g5)
  <2>1. Extends(a, b1, "named")
    BY <1>3, <1>7, TagFollows, Shifts
  <2> HIDE DEF b1
  <2>2. Extends(a, b2, "rows")
    BY <1>3, <2>1, ThenTag, Shifts
  <2> HIDE DEF b2
  <2>3. Extends(a, b3, "counted")
    BY <1>3, <2>2, ThenTag, Shifts
  <2> HIDE DEF b3
  <2>4. Extends(a, b4, "closing")
    BY <1>3, <2>3, ThenMarked, Shifts
  <2> HIDE DEF b4
  <2>5. Extends(a, b5, "more")
    BY <1>3, <2>4, ThenTag, Shifts
  <2> HIDE DEF b5
  <2>6. r5 = b5
    <3> HIDE DEF g1, g2, g3, g0, g5
    <3>1. r5 = One(One(One(One(One(a, g1), g2), g3), g0), g5)
      BY <1>4, <1>5, Steps
    <3>2. QED BY <3>1, Zenon DEF b5, b4, b3, b2, b1
  <2>7. e = b5
    BY <1>2, <1>7, <2>6
  <2>8. QED BY <1>7, <2>5, <2>7 DEF Extends, e
<1>8. QED BY <1>6, <1>7

\* The variables of the writer say where the parse of what it has written stands.
Stands(a, k) ==
  /\ a \in Writers(Int) /\ At(a) = k
  /\ a.header <=> k # "start"
  /\ a.sets <=> k \in {"names", "columns", "rows", "values"}
  /\ a.rows <=> k \in {"rows", "values"}
  /\ a.inRow <=> k = "values"
  /\ a.params <=> k \in {"params", "values of params"}

LEMMA FreshStands == Stands(FreshWriter, "start") /\ FreshWriter.out = <<>>
<1>1. FreshWriter.out = <<>>
  BY DEF FreshWriter
<1>2. At(FreshWriter) = "start"
  BY <1>1, ParseEmpty DEF At
<1>3. FreshWriter \in Writers(Int)
  BY FreshFacts
<1>4. QED BY <1>1, <1>2, <1>3 DEF Stands, FreshWriter

LEMMA BeginResponseStands ==
  ASSUME NEW a, NEW k, Stands(a, k)
  PROVE  /\ k = "start" => Stands(BeginResponseIfNotDone(a), "response")
         /\ k # "start" => BeginResponseIfNotDone(a) = a
<1> DEFINE b == [a EXCEPT !.header = TRUE]
           c == One(b, Tag("RESPONSE"))
<1>1. a \in Writers(Int)
  BY DEF Stands
<1>2. /\ b \in Writers(Int) /\ b.out = a.out /\ b.header = TRUE /\ b.sets = a.sets
      /\ b.rows = a.rows /\ b.inRow = a.inRow /\ b.params = a.params
  BY <1>1 DEF Writers
<1>3. BeginResponseIfNotDone(a) = IF a.header THEN a ELSE c
  BY Zenon DEF BeginResponseIfNotDone, One
<1> HIDE DEF b
<1>4. ASSUME k = "start" PROVE Stands(c, "response")
  <2>1. At(b) = "start" /\ "RESPONSE" \in Plain
    BY <1>2, <1>4, AtSame DEF Stands, Plain
  <2>2. Extends(b, c, "response")
    BY <1>2, <2>1, TagFollows, Shifts
  <2> HIDE DEF c
  <2>3. QED BY <1>2, <1>4, <2>2 DEF Stands, Extends
<1>5. QED BY <1>3, <1>4 DEF Stands

LEMMA BeginSetStands ==
  ASSUME NEW a, NEW k \in {"start", "columns", "rows"}, Stands(a, k), NEW s \in Int, NEW n \in Int,
         k # "start" => a.setNo # s
  PROVE  Stands(BeginResultSet(a, s, n), "names") /\ BeginResultSet(a, s, n).setNo = s
<1> DEFINE w1 == BeginResponseIfNotDone(a)
           p == EndPreviousResultSet(w1, n)
           w2 == IF w1.sets /\ w1.setNo # s THEN p ELSE w1
           b == [w2 EXCEPT !.sets = TRUE]
           w3 == BeginSetsIfNotDone(w2)
           w4 == [w3 EXCEPT !.setNo = s]
           e == Two(w4, Tag("SET"), Tag("COLNAMES"))
<1>1. BeginResultSet(a, s, n) = e
  BY Zenon DEF BeginResultSet, Two
<1>2. w3 = IF w2.sets THEN w2 ELSE One(b, Tag("SETS"))
  BY Zenon DEF BeginSetsIfNotDone, One
<1>3. "SETS" \in Plain /\ "SET" \in Plain /\ "COLNAMES" \in Plain
  BY DEF Plain
<1> HIDE DEF w3
<1>4. /\ w3 \in Writers(Int) /\ Shift(At(w3), "SET") = "set"
      /\ w3.header = TRUE /\ w3.sets = TRUE /\ w3.rows = FALSE /\ w3.inRow = FALSE
      /\ w3.params = FALSE
  <2>1. CASE k = "start"
    <3>1. Stands(w1, "response")
      BY <2>1, BeginResponseStands
    <3> HIDE DEF w1, p
    <3>2. w2 = w1
      BY <3>1 DEF Stands
    <3> HIDE DEF w2
    <3>3. /\ w2 \in Writers(Int) /\ At(w2) = "response" /\ w2.header = TRUE /\ w2.sets = FALSE
          /\ w2.rows = FALSE /\ w2.inRow = FALSE /\ w2.params = FALSE
      BY <3>1, <3>2 DEF Stands, Writers
    <3>4. /\ b \in Writers(Int) /\ b.out = w2.out /\ b.header = TRUE /\ b.sets = TRUE
          /\ b.rows = FALSE /\ b.inRow = FALSE /\ b.params = FALSE
      BY <3>3 DEF Writers
    <3> HIDE DEF b
    <3> DEFINE c == One(b, Tag("SETS"))
    <3>5. Extends(b, c, "sets")
      BY <1>3, <3>3, <3>4, TagFollows, Shifts, AtSame, ZenonT(60)
    <3> HIDE DEF c
    <3>6. w3 = c
      BY <1>2, <3>3 DEF c
    <3>7. QED BY <3>4, <3>5, <3>6, Shifts DEF Extends
  <2>2. CASE k # "start"
    <3>1. w1 = a
      BY <2>2, BeginResponseStands
    <3>2. /\ w1 \in Writers(Int) /\ w1.header = TRUE /\ w1.sets = TRUE /\ w1.inRow = FALSE
          /\ w1.params = FALSE /\ (w1.rows => At(w1) = "rows") /\ (~w1.rows => At(w1) = "columns")
          /\ w1.setNo # s
      BY <2>2, <3>1 DEF Stands, Writers
    <3> HIDE DEF w1
    <3>3. /\ p \in Writers(Int) /\ At(p) = "more" /\ p.rows = FALSE
          /\ p.header = w1.header /\ p.sets = w1.sets /\ p.inRow = w1.inRow
          /\ p.params = w1.params
      BY <3>2, EndPreviousFollows
    <3> HIDE DEF p
    <3>4. w2 = p
      BY <3>2
    <3> HIDE DEF w2
    <3>5. w3 = p
      BY <1>2, <3>2, <3>3, <3>4
    <3>6. QED BY <3>2, <3>3, <3>5, Shifts
  <2>3. QED BY <2>1, <2>2
<1>5. /\ w4 \in Writers(Int) /\ w4.out = w3.out /\ w4.header = TRUE /\ w4.sets = TRUE
      /\ w4.rows = FALSE /\ w4.inRow = FALSE /\ w4.params = FALSE /\ w4.setNo = s
  BY <1>4 DEF Writers
<1> HIDE DEF w4
<1> DEFINE c1 == One(w4, Tag("SET"))
           c2 == One(c1, Tag("COLNAMES"))
<1>6. Extends(w4, c1, "set")
  BY <1>3, <1>4, <1>5, TagFollows, AtSame
<1> HIDE DEF c1
<1>7. Extends(w4, c2, "names")
  BY <1>3, <1>6, ThenTag, Shifts
<1> HIDE DEF c2
<1>8. e = c2
  <2>1. Tag("SET") \in Token(Int) /\ Tag("COLNAMES") \in Token(Int)
    BY <1>3, PlainTag
  <2>2. e = One(One(w4, Tag("SET")), Tag("COLNAMES"))
    BY <1>5, <2>1, Steps
  <2>3. QED BY <2>2, Zenon DEF c1, c2
<1> HIDE DEF e
<1>9. Stands(e, "names") /\ e.setNo = s
  BY <1>5, <1>7, <1>8 DEF Stands, Extends
<1>10. QED BY <1>1, <1>9

LEMMA ColumnNameStands ==
  ASSUME NEW a, NEW k \in {"names", "columns"}, Stands(a, k)
  PROVE  Stands(ColumnName(a), "columns") /\ ColumnName(a).setNo = a.setNo
<1> DEFINE e == One(a, Tag("COL"))
<1>1. ColumnName(a) = e
  BY Zenon DEF ColumnName, One
<1>2. "COL" \in Plain /\ a \in Writers(Int) /\ At(a) = k
  BY DEF Plain, Stands
<1>3. Extends(a, e, "columns")
  BY <1>2, TagFollows, Shifts
<1> HIDE DEF e
<1>4. Stands(e, "columns") /\ e.setNo = a.setNo
  BY <1>3 DEF Extends, Stands
<1>5. QED BY <1>1, <1>4

LEMMA ColumnValueStands ==
  ASSUME NEW a, NEW k \in {"columns", "rows", "values"}, Stands(a, k), NEW v \in Int
  PROVE  Stands(ColumnValue(a, v), "values") /\ ColumnValue(a, v).setNo = a.setNo
<1> DEFINE b == [a EXCEPT !.rows = TRUE, !.inRow = FALSE]
           w1 == IF a.rows THEN a ELSE Two(b, Tag("/COLNAMES"), Tag("ROWS"))
           c == [w1 EXCEPT !.inRow = TRUE]
           w2 == IF w1.inRow THEN w1 ELSE One(c, Tag("ROW"))
           e == One(w2, MarkedTag("VAL", v))
<1>1. ColumnValue(a, v) = e
  BY Zenon DEF ColumnValue, One, Two, MarkedTag
<1>2. /\ "/COLNAMES" \in Plain /\ "ROWS" \in Plain /\ "ROW" \in Plain
      /\ "VAL" \in Plain \cup ValueTags
  BY DEF Plain, ValueTags
<1>3. a \in Writers(Int) /\ At(a) = k
  BY DEF Stands
<1>4. /\ b \in Writers(Int) /\ b.out = a.out /\ b.header = a.header /\ b.sets = a.sets
      /\ b.rows = TRUE /\ b.inRow = FALSE /\ b.params = a.params /\ b.setNo = a.setNo
  BY <1>3 DEF Writers
<1> HIDE DEF b
<1>5. /\ k # "values" => Stands(w1, "rows")
      /\ k = "values" => Stands(w1, "values")
      /\ w1.setNo = a.setNo
  <2>1. CASE k \in {"rows", "values"}
    <3>1. a.rows
      BY <2>1 DEF Stands
    <3>2. w1 = a
      BY <3>1
    <3>3. QED BY <2>1, <3>2
  <2>2. CASE k = "columns"
    <3> DEFINE c1 == One(b, Tag("/COLNAMES"))
               c2 == One(c1, Tag("ROWS"))
    <3>1. ~a.rows
      BY <2>2 DEF Stands
    <3>2. Extends(b, c1, "named")
      BY <1>2, <1>3, <1>4, <2>2, TagFollows, AtSame, Shifts, ZenonT(60)
    <3> HIDE DEF c1
    <3>3. Extends(b, c2, "rows")
      BY <1>2, <3>2, ThenTag, Shifts
    <3> HIDE DEF c2
    <3>4. Two(b, Tag("/COLNAMES"), Tag("ROWS")) = c2
      <4>1. Tag("/COLNAMES") \in Token(Int) /\ Tag("ROWS") \in Token(Int)
        BY <1>2, PlainTag
      <4>2. Two(b, Tag("/COLNAMES"), Tag("ROWS")) = One(One(b, Tag("/COLNAMES")), Tag("ROWS"))
        BY <1>4, <4>1, Steps
      <4>3. QED BY <4>2, Zenon DEF c1, c2
    <3>5. w1 = c2
      BY <3>1, <3>4
    <3> HIDE DEF w1
    <3>6. QED BY <1>4, <2>2, <3>3, <3>5 DEF Stands, Extends
  <2>3. QED BY <2>1, <2>2
<1> HIDE DEF w1
<1>6. Stands(w2, "values") \/
        (/\ w2 \in Writers(Int) /\ At(w2) = "row" /\ w2.header = TRUE /\ w2.sets = TRUE
         /\ w2.rows = TRUE /\ w2.inRow = TRUE /\ w2.params = FALSE)
  <2>1. CASE k = "values"
    <3>1. w1.inRow
      BY <1>5, <2>1 DEF Stands
    <3>2. QED BY <1>5, <2>1, <3>1
  <2>2. CASE k # "values"
    <3>1. /\ w1 \in Writers(Int) /\ At(w1) = "rows" /\ w1.header = TRUE /\ w1.sets = TRUE
          /\ w1.rows = TRUE /\ w1.inRow = FALSE /\ w1.params = FALSE
      BY <1>5, <2>2 DEF Stands, Writers
    <3>2. /\ c \in Writers(Int) /\ c.out = w1.out /\ c.header = TRUE /\ c.sets = TRUE
          /\ c.rows = TRUE /\ c.inRow = TRUE /\ c.params = FALSE
      BY <3>1 DEF Writers
    <3> HIDE DEF c
    <3> DEFINE d == One(c, Tag("ROW"))
    <3>3. Extends(c, d, "row")
      BY <1>2, <3>1, <3>2, TagFollows, AtSame, Shifts, ZenonT(60)
    <3> HIDE DEF d
    <3>4. w2 = d
      BY <3>1 DEF d
    <3> HIDE DEF w2
    <3>5. QED BY <3>2, <3>3, <3>4 DEF Extends
  <2>3. QED BY <2>1, <2>2
<1>7. /\ w2 \in Writers(Int) /\ Shift(At(w2), "VAL") = "values" /\ w2.header = TRUE /\ w2.sets = TRUE
      /\ w2.rows = TRUE /\ w2.inRow = TRUE /\ w2.params = FALSE
  <2> HIDE DEF w2
  <2>1. QED BY <1>6, Shifts, ZenonT(60) DEF Stands, Writers
<1>8. w2.setNo = a.setNo
  <2>1. w1 \in Writers(Int)
    BY <1>5 DEF Stands
  <2>2. c \in Writers(Int) /\ c.setNo = w1.setNo
    BY <2>1 DEF Writers
  <2> HIDE DEF c
  <2>3. Tag("ROW") \in Token(Int)
    BY <1>2, PlainTag
  <2>4. One(c, Tag("ROW")).setNo = c.setNo
    BY <2>2, <2>3, OneFacts
  <2>5. QED BY <1>5, <2>2, <2>4
<1> HIDE DEF w2
<1>9. Extends(w2, e, "values")
  BY <1>2, <1>7, MarkedFollows
<1> HIDE DEF e
<1>10. Stands(e, "values") /\ e.setNo = a.setNo
  BY <1>7, <1>8, <1>9 DEF Extends, Stands
<1>11. QED BY <1>1, <1>10

LEMMA EndColumnValuesStands ==
  ASSUME NEW a, Stands(a, "values")
  PROVE  Stands(EndColumnValues(a), "rows") /\ EndColumnValues(a).setNo = a.setNo
<1> DEFINE b == [a EXCEPT !.inRow = FALSE]
           e == One(b, Tag("/ROW"))
<1>1. EndColumnValues(a) = e
  BY Zenon DEF EndColumnValues, One
<1>2. a \in Writers(Int) /\ At(a) = "values" /\ "/ROW" \in Plain
  BY DEF Stands, Plain
<1>3. /\ b \in Writers(Int) /\ b.out = a.out /\ b.header = a.header /\ b.sets = a.sets
      /\ b.rows = a.rows /\ b.inRow = FALSE /\ b.params = a.params /\ b.setNo = a.setNo
  BY <1>2 DEF Writers
<1> HIDE DEF b
<1>4. Extends(b, e, "rows")
  BY <1>2, <1>3, TagFollows, AtSame, Shifts, ZenonT(60)
<1> HIDE DEF e
<1>5. Stands(e, "rows") /\ e.setNo = a.setNo
  BY <1>3, <1>4 DEF Extends, Stands
<1>6. QED BY <1>1, <1>5

LEMMA EndRowsStands ==
  ASSUME NEW a, NEW k, k \notin {"names", "values"}, Stands(a, k), NEW n \in Int
  PROVE  Stands(EndRowsIfStarted(a, n), IF k \in {"columns", "rows"} THEN "results" ELSE k)
<1> DEFINE b == [a EXCEPT !.sets = FALSE]
           p == EndPreviousResultSet(b, n)
           e == One(p, Tag("/SETS"))
<1>1. EndRowsIfStarted(a, n) = IF a.sets THEN e ELSE a
  BY Zenon DEF EndRowsIfStarted, One
<1>2. CASE k \in {"columns", "rows"}
  <2>1. /\ a \in Writers(Int) /\ a.header = TRUE /\ a.sets = TRUE /\ a.inRow = FALSE
        /\ a.params = FALSE /\ At(a) = k /\ (a.rows <=> k = "rows")
    BY <1>2 DEF Stands, Writers
  <2>2. /\ b \in Writers(Int) /\ b.out = a.out /\ b.header = TRUE /\ b.sets = FALSE
        /\ b.inRow = FALSE /\ b.params = FALSE /\ b.rows = a.rows
    BY <2>1 DEF Writers
  <2>3. (b.rows => At(b) = "rows") /\ (~b.rows => At(b) = "columns")
    BY <1>2, <2>1, <2>2, AtSame
  <2> HIDE DEF b
  <2>4. /\ p \in Writers(Int) /\ At(p) = "more" /\ p.rows = FALSE
        /\ p.header = b.header /\ p.sets = b.sets /\ p.inRow = b.inRow
        /\ p.params = b.params /\ p.setNo = b.setNo
    BY <2>2, <2>3, EndPreviousFollows
  <2> HIDE DEF p
  <2>5. "/SETS" \in Plain
    BY DEF Plain
  <2>6. Extends(p, e, "results")
    BY <2>4, <2>5, TagFollows, Shifts
  <2> HIDE DEF e
  <2>7. Stands(e, "results")
    BY <2>2, <2>4, <2>6 DEF Extends, Stands
  <2>8. QED BY <1>1, <1>2, <2>1, <2>7
<1>3. CASE k \notin {"columns", "rows"}
  <2>1. ~a.sets
    BY <1>3 DEF Stands
  <2>2. QED BY <1>1, <1>3, <2>1
<1>4. QED BY <1>2, <1>3

LEMMA EndParamsStands ==
  ASSUME NEW a, NEW k, k # "params", Stands(a, k)
  PROVE  Stands(EndOutputParamsIfStarted(a), IF k = "values of params" THEN "trailer" ELSE k)
<1> DEFINE b == [a EXCEPT !.params = FALSE]
           e == One(b, Tag("/OUTPARAMS"))
<1>1. EndOutputParamsIfStarted(a) = IF a.params THEN e ELSE a
  BY Zenon DEF EndOutputParamsIfStarted, One
<1>2. CASE k = "values of params"
  <2>1. /\ a \in Writers(Int) /\ a.header = TRUE /\ a.sets = FALSE /\ a.rows = FALSE
        /\ a.inRow = FALSE /\ a.params = TRUE /\ At(a) = k
    BY <1>2 DEF Stands, Writers
  <2>2. /\ b \in Writers(Int) /\ b.out = a.out /\ b.header = TRUE /\ b.sets = FALSE
        /\ b.rows = FALSE /\ b.inRow = FALSE /\ b.params = FALSE
    BY <2>1 DEF Writers
  <2> HIDE DEF b
  <2>3. "/OUTPARAMS" \in Plain
    BY DEF Plain
  <2>4. Extends(b, e, "trailer")
    BY <1>2, <2>1, <2>2, <2>3, TagFollows, AtSame, Shifts, ZenonT(60)
  <2> HIDE DEF e
  <2>5. Stands(e, "trailer")
    BY <2>2, <2>4 DEF Extends, Stands
  <2>6. QED BY <1>1, <1>2, <2>1, <2>5
<1>3. CASE k # "values of params"
  <2>1. ~a.params
    BY <1>3 DEF Stands
  <2>2. QED BY <1>1, <1>3, <2>1
<1>4. QED BY <1>2, <1>3

\* Where the parse stands while a call is executed, and behind the lists of the
\* response.
Composing == {"start", "columns", "rows", "values of params"}
BehindLists(k) ==
  CASE k = "start" -> "response" [] k \in {"columns", "rows"} -> "results"
    [] k = "values of params" -> "trailer" [] OTHER -> "totals"

LEMMA ListsClosedStands ==
  ASSUME NEW a, NEW k \in Composing \cup {"totals"}, Stands(a, k), NEW n \in Int
  PROVE  Stands(ListsClosed(a, n), BehindLists(k))
<1> DEFINE h == BeginResponseIfNotDone(a)
           r == EndRowsIfStarted(h, n)
           p == EndOutputParamsIfStarted(r)
           j1 == IF k = "start" THEN "response" ELSE k
           j2 == IF j1 \in {"columns", "rows"} THEN "results" ELSE j1
<1>1. ListsClosed(a, n) = p
  BY Zenon DEF ListsClosed
<1>2. Stands(h, j1)
  BY BeginResponseStands
<1> HIDE DEF h
<1>3. /\ j1 \notin {"names", "values"} /\ j2 # "params"
      /\ BehindLists(k) = IF j2 = "values of params" THEN "trailer" ELSE j2
  BY DEF Composing, BehindLists
<1>4. Stands(r, j2)
  BY <1>2, <1>3, EndRowsStands
<1> HIDE DEF r
<1>5. Stands(p, IF j2 = "values of params" THEN "trailer" ELSE j2)
  BY <1>3, <1>4, EndParamsStands
<1> HIDE DEF p
<1>6. QED BY <1>1, <1>3, <1>5

LEMMA BeginParamsStands ==
  ASSUME NEW a, NEW k \in {"start", "columns", "rows"}, Stands(a, k), NEW n \in Int
  PROVE  Stands(BeginOutputParams(a, n), "params")
<1> DEFINE h == BeginResponseIfNotDone(a)
           e == EndRowsIfStarted(h, n)
           b == [e EXCEPT !.params = TRUE]
           o == One(b, Tag("OUTPARAMS"))
           j1 == IF k = "start" THEN "response" ELSE k
           j2 == IF j1 \in {"columns", "rows"} THEN "results" ELSE j1
<1>1. BeginOutputParams(a, n) = IF e.params THEN e ELSE o
  BY Zenon DEF BeginOutputParams, One
<1>2. Stands(h, j1)
  BY BeginResponseStands
<1> HIDE DEF h
<1>3. j1 \notin {"names", "values"} /\ j2 \in {"response", "results"}
  OBVIOUS
<1>4. Stands(e, j2)
  BY <1>2, <1>3, EndRowsStands
<1> HIDE DEF e, j2
<1>5. /\ e \in Writers(Int) /\ At(e) = j2 /\ e.header = TRUE /\ e.sets = FALSE /\ e.rows = FALSE
      /\ e.inRow = FALSE /\ e.params = FALSE
  BY <1>3, <1>4 DEF Stands, Writers
<1>6. /\ b \in Writers(Int) /\ b.out = e.out /\ b.header = TRUE /\ b.sets = FALSE
      /\ b.rows = FALSE /\ b.inRow = FALSE /\ b.params = TRUE
  BY <1>5 DEF Writers
<1> HIDE DEF b
<1>7. "OUTPARAMS" \in Plain
  BY DEF Plain
<1>8. Extends(b, o, "params")
  BY <1>3, <1>5, <1>6, <1>7, TagFollows, AtSame, Shifts, ZenonT(60)
<1> HIDE DEF o
<1>9. Stands(o, "params")
  BY <1>6, <1>8 DEF Extends, Stands
<1>10. QED BY <1>1, <1>5, <1>9

LEMMA ParamValueStands ==
  ASSUME NEW a, NEW k \in {"params", "values of params"}, Stands(a, k), NEW v \in Int
  PROVE  Stands(ParamValue(a, v), "values of params")
<1> DEFINE e == One(a, MarkedTag("PARAM", v))
<1>1. ParamValue(a, v) = e
  BY Zenon DEF ParamValue, One, MarkedTag
<1>2. "PARAM" \in Plain \cup ValueTags /\ a \in Writers(Int) /\ At(a) = k
  BY DEF ValueTags, Stands
<1>3. Extends(a, e, "values of params")
  BY <1>2, MarkedFollows, Shifts
<1> HIDE DEF e
<1>4. Stands(e, "values of params")
  BY <1>3 DEF Extends, Stands
<1>5. QED BY <1>1, <1>4

LEMMA BeginMsgStands ==
  ASSUME NEW a, NEW k \in Composing, Stands(a, k), NEW n \in Int
  PROVE  Stands(BeginMsg(a, n), "msgs")
<1> DEFINE c == ListsClosed(a, n)
           e == One(c, Tag("MSGLIST"))
<1>1. BeginMsg(a, n) = e
  BY Zenon DEF BeginMsg, One, ListsClosed
<1>2. Stands(c, BehindLists(k))
  BY ListsClosedStands
<1> HIDE DEF c
<1>3. BehindLists(k) \in {"response", "results", "trailer"} /\ "MSGLIST" \in Plain
  BY DEF BehindLists, Composing, Plain
<1>4. c \in Writers(Int) /\ At(c) = BehindLists(k)
  BY <1>2 DEF Stands
<1>5. Extends(c, e, "msgs")
  BY <1>3, <1>4, TagFollows, Shifts, ZenonT(60)
<1> HIDE DEF e
<1>6. Stands(e, "msgs")
  BY <1>2, <1>3, <1>5 DEF Extends, Stands
<1>7. QED BY <1>1, <1>6

LEMMA WriteMsgStands ==
  ASSUME NEW a, NEW k \in {"msgs", "more msgs"}, Stands(a, k), NEW v \in Int
  PROVE  Stands(WriteMsg(a, v), "more msgs")
<1> DEFINE e == One(a, MarkedTag("MSG", v))
<1>1. WriteMsg(a, v) = e
  BY Zenon DEF WriteMsg, One, MarkedTag
<1>2. "MSG" \in Plain \cup ValueTags /\ a \in Writers(Int) /\ At(a) = k
  BY DEF ValueTags, Stands
<1>3. Extends(a, e, "more msgs")
  BY <1>2, MarkedFollows, Shifts
<1> HIDE DEF e
<1>4. Stands(e, "more msgs")
  BY <1>3 DEF Extends, Stands
<1>5. QED BY <1>1, <1>4

LEMMA EndMsgStands ==
  ASSUME NEW a, Stands(a, "more msgs")
  PROVE  Stands(EndMsg(a), "totals")
<1> DEFINE e == One(a, Tag("/MSGLIST"))
<1>1. EndMsg(a) = e
  BY Zenon DEF EndMsg, One
<1>2. "/MSGLIST" \in Plain /\ a \in Writers(Int) /\ At(a) = "more msgs"
  BY DEF Plain, Stands
<1>3. Extends(a, e, "totals")
  BY <1>2, TagFollows, Shifts
<1> HIDE DEF e
<1>4. Stands(e, "totals")
  BY <1>3 DEF Extends, Stands
<1>5. QED BY <1>1, <1>4

\* Whatever number of messages there are, the list is empty or a list.
LEMMA WithMessagesStands ==
  ASSUME NEW a, NEW k \in Composing, Stands(a, k), NEW m \in Nat, nbRows \in Int,
         MaxMsgs \in Nat \ {0}
  PROVE  Stands(WithMessages(a, m), IF m = 0 THEN k ELSE "totals")
<1> DEFINE K == Smaller(m, MaxMsgs)
<1>1. K \in Nat /\ (m # 0 => K # 0)
  BY DEF Smaller
<1>2. PICK f : /\ Lists(f, a, m, K)
               /\ WithMessages(a, m) = IF m = 0 THEN a ELSE EndMsg(f[K])
  BY <1>1, WithMessagesIs
<1> HIDE DEF K
<1>3. \A i \in 0..K : f[i] = IF i = 0 THEN BeginMsg(a, nbRows) ELSE WriteMsg(f[i - 1], MsgNo(m, i))
  BY <1>2 DEF Lists
<1> DEFINE InList(n) == IF n = 0 THEN "msgs" ELSE "more msgs"
           Good(n) == Stands(f[n], InList(n))
           S == {n \in Nat : n \in 0..K => Good(n)}
<1>4. 0 \in S
  <2>1. f[0] = BeginMsg(a, nbRows)
    BY <1>1, <1>3
  <2>2. Stands(BeginMsg(a, nbRows), "msgs")
    BY BeginMsgStands
  <2>3. QED BY <2>1, <2>2
<1>5. ASSUME NEW n \in Nat, n \in S PROVE n + 1 \in S
  <2> HIDE DEF Good
  <2>1. SUFFICES ASSUME n + 1 \in 0..K PROVE Good(n + 1)
    OBVIOUS
  <2> USE DEF Good
  <2> DEFINE b == f[n]
             v == MsgNo(m, n + 1)
  <2>2. n \in 0..K /\ n + 1 # 0 /\ (n + 1) - 1 = n
    BY <1>1, <2>1
  <2>3. Stands(b, InList(n)) /\ InList(n) \in {"msgs", "more msgs"}
    BY <1>5, <2>2
  <2>4. f[n + 1] = WriteMsg(b, v)
    BY <1>3, <2>1, <2>2
  <2>5. v \in Int
    BY DEF MsgNo
  <2> HIDE DEF b, v
  <2>6. Stands(WriteMsg(b, v), "more msgs")
    BY <2>3, <2>5, WriteMsgStands
  <2>7. InList(n + 1) = "more msgs"
    BY <2>2
  <2>8. QED BY <2>4, <2>6, <2>7
<1> HIDE DEF S
<1>6. Nat \subseteq S
  BY <1>4, <1>5, AllNumbers
<1> USE DEF S
<1>7. CASE m # 0
  <2>1. K \in 0..K /\ InList(K) = "more msgs"
    BY <1>1, <1>7
  <2>1a. K \in S
    <3> HIDE DEF S
    <3>1. QED BY <1>1, <1>6
  <2>2. Stands(f[K], "more msgs")
    BY <2>1, <2>1a
  <2>3. Stands(EndMsg(f[K]), "totals")
    BY <2>2, EndMsgStands
  <2>4. QED BY <1>2, <1>7, <2>3
<1>8. CASE m = 0
  BY <1>2, <1>8
<1>9. QED BY <1>7, <1>8

\* Behind its lists a response ends.
LEMMA EndResponseStands ==
  ASSUME NEW a, NEW k \in Composing \cup {"totals"}, Stands(a, k), NEW stat \in Int,
         NEW rc \in Int, NEW n \in Int
  PROVE  At(EndResponse(a, stat, rc, n)) = "done"
<1> DEFINE c == ListsClosed(a, n)
           flushed == IF rc <= -1 /\ stat >= 0 THEN -1500 + rc ELSE stat
           t1 == MarkedTag("STATUS", flushed)
           t2 == Tag("/RESPONSE")
           t3 == MarkedTag("EOT", 0)
           e == Three(c, t1, t2, t3)
           b1 == One(c, t1)
           b2 == One(b1, t2)
           b3 == One(b2, t3)
<1>1. EndResponse(a, stat, rc, n) = e
  BY Zenon DEF EndResponse, Three, ListsClosed, MarkedTag, Tag
<1>2. Stands(c, BehindLists(k))
  BY ListsClosedStands
<1> HIDE DEF c
<1>3. /\ BehindLists(k) \in {"response", "results", "trailer", "totals"}
      /\ "STATUS" \in Plain /\ "/RESPONSE" \in Plain /\ "EOT" \in Plain \cup ValueTags
  BY DEF BehindLists, Composing, Plain, ValueTags
<1>4. flushed \in Int /\ 0 \in Int
  OBVIOUS
<1> HIDE DEF flushed
<1>4a. c \in Writers(Int) /\ At(c) = BehindLists(k)
  BY <1>2 DEF Stands
<1>5. t1 \in Token(Int) /\ t2 \in Token(Int) /\ t3 \in Token(Int)
  BY <1>3, <1>4 DEF MarkedTag, Tag, Token
<1>6. e = b3
  <2> HIDE DEF t1, t2, t3
  <2>1. e = One(One(One(c, t1), t2), t3)
    BY <1>4a, <1>5, Steps
  <2>2. QED BY <2>1
<1> HIDE DEF e
<1>7. Extends(c, b1, "end")
  BY <1>3, <1>4, <1>4a, MarkedFollows, Shifts, ZenonT(60)
<1> HIDE DEF b1
<1>8. Extends(c, b2, "eot")
  BY <1>3, <1>7, ThenTag, Shifts
<1> HIDE DEF b2
<1>9. Extends(c, b3, "done")
  BY <1>3, <1>4, <1>8, ThenMarked, Shifts
<1> HIDE DEF b3
<1>10. QED BY <1>1, <1>6, <1>9 DEF Extends

-----------------------------------------------------------------------------
(* The writer: what is left half-written is refused behind                 *)

Half == {"values", "params"}

LEMMA RefusedTag ==
  ASSUME NEW a \in Writers(Int), NEW tag \in Plain, Shift(At(a), tag) = "error"
  PROVE  One(a, Tag(tag)) \in Writers(Int) /\ Refused(One(a, Tag(tag)))
<1>1. Extends(a, One(a, Tag(tag)), "error")
  BY TagFollows
<1>2. QED BY <1>1 DEF Extends, Refused

LEMMA EndPreviousBreaks ==
  ASSUME NEW a \in Writers(Int), a.rows, At(a) = "values", NEW n \in Int
  PROVE  Refused(EndPreviousResultSet(a, n))
<1> DEFINE b == [a EXCEPT !.rows = FALSE]
           g1 == Tag("/ROWS")
           g2 == MarkedTag("NBROWS", n)
           g3 == Tag("/SET")
           b1 == One(b, g1)
           b2 == One(b1, g2)
           b3 == One(b2, g3)
<1>1. b \in Writers(Int) /\ At(b) = "values"
  BY DEF Writers, At
<1>2. EndPreviousResultSet(a, n) = Three(b, g1, g2, g3)
  BY Zenon DEF EndPreviousResultSet, Three, MarkedTag
<1>3. "/ROWS" \in Plain /\ "NBROWS" \in Plain /\ "/SET" \in Plain
  BY DEF Plain
<1>4. g1 \in Token(Int) /\ g2 \in Token(Int) /\ g3 \in Token(Int)
  BY <1>3, PlainTag DEF MarkedTag, Token
<1> HIDE DEF b
<1>5. Three(b, g1, g2, g3) = b3
  <2> HIDE DEF g1, g2, g3
  <2>1. Three(b, g1, g2, g3) = One(One(One(b, g1), g2), g3)
    BY <1>1, <1>4, Steps
  <2>2. QED BY <2>1
<1>6. b1 \in Writers(Int) /\ Refused(b1)
  BY <1>1, <1>3, NotAccepted, RefusedTag
<1> HIDE DEF g1, g2, g3, b1
<1>7. b2 \in Writers(Int) /\ Refused(b2)
  BY <1>4, <1>6, OneFacts, RefusedOne
<1> HIDE DEF b2
<1>8. Refused(b3)
  BY <1>4, <1>7, RefusedOne
<1>9. QED BY <1>2, <1>5, <1>8

LEMMA EndRowsBreak ==
  ASSUME NEW a, Stands(a, "values"), NEW n \in Int
  PROVE  Refused(EndRowsIfStarted(a, n))
<1> DEFINE b == [a EXCEPT !.sets = FALSE]
           c == EndPreviousResultSet(b, n)
<1>1. a \in Writers(Int) /\ a.sets /\ a.rows /\ At(a) = "values"
  BY DEF Stands
<1>2. b \in Writers(Int) /\ b.rows /\ At(b) = "values"
  BY <1>1 DEF Writers, At
<1>3. EndRowsIfStarted(a, n) = One(c, Tag("/SETS"))
  BY <1>1, Zenon DEF EndRowsIfStarted, One
<1> HIDE DEF b
<1>4. Refused(c) /\ c \in Writers(Int)
  BY <1>2, EndPreviousBreaks, EndPreviousNeutral DEF Neutral
<1> HIDE DEF c
<1>5. "/SETS" \in Plain
  BY DEF Plain
<1>6. QED BY <1>3, <1>4, <1>5, NeutralTag DEF Neutral

LEMMA BeginSetBreaks ==
  ASSUME NEW a, Stands(a, "values"), NEW s \in Int, NEW n \in Int, a.setNo # s
  PROVE  Refused(BeginResultSet(a, s, n))
<1> DEFINE w2 == EndPreviousResultSet(a, n)
           b == [w2 EXCEPT !.sets = TRUE]
           w3 == BeginSetsIfNotDone(w2)
           w4 == [w3 EXCEPT !.setNo = s]
<1>1. a \in Writers(Int) /\ a.sets /\ a.rows /\ At(a) = "values"
  BY DEF Stands
<1>2. BeginResponseIfNotDone(a) = a
  BY BeginResponseStands
<1>3. BeginResultSet(a, s, n) = Two(w4, Tag("SET"), Tag("COLNAMES"))
  BY <1>1, <1>2, Zenon DEF BeginResultSet, Two
<1>4. Refused(w2) /\ w2 \in Writers(Int)
  BY <1>1, EndPreviousBreaks, EndPreviousNeutral DEF Neutral
<1> HIDE DEF w2
<1>5. b \in Writers(Int) /\ b.out = w2.out
  BY <1>4 DEF Writers
<1>6. w3 = IF w2.sets THEN w2 ELSE One(b, Tag("SETS"))
  BY Zenon DEF BeginSetsIfNotDone, One
<1> HIDE DEF b, w3
<1>7. "SETS" \in Plain /\ "SET" \in Plain /\ "COLNAMES" \in Plain
  BY DEF Plain
<1>8. Refused(w3) /\ w3 \in Writers(Int)
  <2>1. Neutral(Int, w2, One(b, Tag("SETS")))
    BY <1>5, <1>7, NeutralTag
  <2>2. QED BY <1>4, <1>6, <2>1 DEF Neutral
<1>9. w4 \in Writers(Int) /\ w4.out = w3.out
  BY <1>8 DEF Writers
<1> HIDE DEF w4
<1>10. Neutral(Int, w3, Two(w4, Tag("SET"), Tag("COLNAMES")))
  BY <1>7, <1>9, NeutralTwo
<1>11. QED BY <1>3, <1>8, <1>10 DEF Neutral

LEMMA BeginParamsBreak ==
  ASSUME NEW a, Stands(a, "values"), NEW n \in Int
  PROVE  Refused(BeginOutputParams(a, n))
<1> DEFINE e == EndRowsIfStarted(a, n)
           b == [e EXCEPT !.params = TRUE]
<1>1. BeginResponseIfNotDone(a) = a /\ a \in Writers(Int)
  BY BeginResponseStands DEF Stands
<1>2. BeginOutputParams(a, n) = IF e.params THEN e ELSE One(b, Tag("OUTPARAMS"))
  BY <1>1, Zenon DEF BeginOutputParams, One
<1>3. Refused(e) /\ e \in Writers(Int)
  BY <1>1, EndRowsBreak, EndRowsNeutral DEF Neutral
<1> HIDE DEF e
<1>4. b \in Writers(Int) /\ b.out = e.out
  BY <1>3 DEF Writers
<1> HIDE DEF b
<1>5. "OUTPARAMS" \in Plain
  BY DEF Plain
<1>6. Neutral(Int, e, One(b, Tag("OUTPARAMS")))
  BY <1>4, <1>5, NeutralTag
<1>7. QED BY <1>2, <1>3, <1>6 DEF Neutral

LEMMA ListsClosedBreak ==
  ASSUME NEW a, NEW k \in Half, Stands(a, k), NEW n \in Int
  PROVE  Refused(ListsClosed(a, n))
<1> DEFINE r == EndRowsIfStarted(a, n)
           b == [r EXCEPT !.params = FALSE]
           e == One(b, Tag("/OUTPARAMS"))
<1>1. BeginResponseIfNotDone(a) = a /\ a \in Writers(Int)
  BY BeginResponseStands DEF Stands, Half
<1>2. ListsClosed(a, n) = EndOutputParamsIfStarted(r)
  BY <1>1, Zenon DEF ListsClosed
<1>3. r \in Writers(Int)
  BY <1>1, EndRowsNeutral DEF Neutral
<1>4. CASE k = "values"
  <2>1. Refused(r)
    BY <1>4, EndRowsBreak
  <2> HIDE DEF r
  <2>2. Neutral(Int, r, EndOutputParamsIfStarted(r))
    BY <1>3, EndParamsNeutral
  <2>3. QED BY <1>2, <2>1, <2>2 DEF Neutral
<1>5. CASE k = "params"
  <2>1. Stands(r, "params")
    BY <1>5, EndRowsStands
  <2> HIDE DEF r
  <2>2. r.params /\ At(r) = "params"
    BY <2>1 DEF Stands
  <2>3. b \in Writers(Int) /\ At(b) = "params"
    BY <1>3, <2>2 DEF Writers, At
  <2>4. EndOutputParamsIfStarted(r) = e
    BY <2>2, Zenon DEF EndOutputParamsIfStarted, One
  <2> HIDE DEF b
  <2>5. "/OUTPARAMS" \in Plain
    BY DEF Plain
  <2>6. Refused(e)
    BY <2>3, <2>5, NotAccepted, RefusedTag
  <2>7. QED BY <1>2, <2>4, <2>6
<1>6. QED BY <1>4, <1>5 DEF Half

LEMMA BeginMsgBreaks ==
  ASSUME NEW a, NEW k \in Half, Stands(a, k), NEW n \in Int
  PROVE  Refused(BeginMsg(a, n))
<1> DEFINE c == ListsClosed(a, n)
<1>1. Refused(c)
  BY ListsClosedBreak
<1>2. c \in Writers(Int)
  BY ClosedNeutral DEF Neutral, Stands
<1>3. BeginMsg(a, n) = One(c, Tag("MSGLIST"))
  BY Zenon DEF BeginMsg, One, ListsClosed
<1> HIDE DEF c
<1>4. "MSGLIST" \in Plain
  BY DEF Plain
<1>5. Neutral(Int, c, One(c, Tag("MSGLIST")))
  BY <1>2, <1>4, NeutralTag
<1>6. QED BY <1>1, <1>3, <1>5 DEF Neutral

-----------------------------------------------------------------------------
(* xml2syb: what it answers is a sentence                                  *)

\* While a call is executed the parse of what is written stands behind a result
\* set, in its rows or in the output parameters, as what CT10 reports last.  What
\* was left half-written is closed by what is written next, which is refused; or
\* nothing was written behind it yet.  An answer is a sentence unless it has that.
StandsIn(k) ==
  /\ Stands(w, k)
  /\ call.half <=> k \in Half
  /\ call.open = "rows" => k \in {"columns", "rows", "values"}
  /\ call.open = "params" <=> k \in {"params", "values of params"}
  /\ k = "values" => call.open = "rows"
  /\ k \in {"columns", "rows", "values"} => w.setNo <= call.set
  /\ ~call.present => k = "start"

CutIn ==
  /\ call.present
  /\ \/ Refused(w)
     \/ Stands(w, "values") /\ w.setNo <= call.set /\ (pc = "exec" => call.open = "no")
     \/ Stands(w, "params") /\ pc = "decide"

SybParse ==
  /\ pc \in {"exec", "decide"} =>
       /\ ~call.cut => \E k \in Composing \cup Half : StandsIn(k)
       /\ call.cut => CutIn
       /\ pc = "decide" => ~call.half
  /\ SybResponseParses

LEMMA SentenceAt ==
  ASSUME NEW a
  PROVE  (IsSentence(a.out) <=> At(a) = "done") /\ (Refused(a) => ~IsSentence(a.out))
  BY DEF IsSentence, At, Refused

LEMMA RowStands ==
  ASSUME NEW a, NEW k \in {"columns", "rows", "values"}, Stands(a, k), NEW v \in Int
  PROVE  LET e == EndColumnValues(ColumnValue(ColumnValue(a, v), v))
         IN Stands(e, "rows") /\ e.setNo = a.setNo
<1> DEFINE b == ColumnValue(a, v)
           c == ColumnValue(b, v)
           e == EndColumnValues(c)
<1>1. Stands(b, "values") /\ b.setNo = a.setNo
  BY ColumnValueStands
<1> HIDE DEF b
<1>2. Stands(c, "values") /\ c.setNo = b.setNo
  BY <1>1, ColumnValueStands
<1> HIDE DEF c
<1>3. Stands(e, "rows") /\ e.setNo = c.setNo
  BY <1>2, EndColumnValuesStands
<1> HIDE DEF e
<1>4. Stands(e, "rows") /\ e.setNo = a.setNo
  BY <1>1, <1>2, <1>3
<1>5. QED BY <1>4 DEF e, c, b

LEMMA HeaderStands ==
  ASSUME NEW a, NEW k \in {"start", "columns", "rows"}, Stands(a, k), NEW s \in Int, NEW n \in Int,
         k # "start" => a.setNo # s
  PROVE  LET e == ColumnName(BeginResultSet(a, s, n))
         IN Stands(e, "columns") /\ e.setNo = s
<1> DEFINE b == BeginResultSet(a, s, n)
           e == ColumnName(b)
<1>1. Stands(b, "names") /\ b.setNo = s
  BY BeginSetStands
<1> HIDE DEF b
<1>2. Stands(e, "columns") /\ e.setNo = b.setNo
  BY <1>1, ColumnNameStands
<1> HIDE DEF e
<1>3. Stands(e, "columns") /\ e.setNo = s
  BY <1>1, <1>2
<1>4. QED BY <1>3 DEF e, b

\* A step of the execution behind what was left half-written: nothing is written,
\* or what is written is refused.
LEMMA ExecutionStepCut ==
  ASSUME SybInv, SybRows, ExecutionStep, call.cut, CutIn
  PROVE  CutIn'
<1>1. /\ pc = "exec" /\ pc' = pc /\ w \in Writers(Int) /\ nbRows \in Int /\ call \in SybCall
      /\ call.tries \in Int /\ call.set \in Nat
  <2>1. pc = "exec" /\ pc' = pc
    BY DEF ExecutionStep, Message, TimesOut, Row, BeginParams, ParamShown, ParamFails, BeginSet,
           SetDone, RowFails, Another, Processing
  <2>2. w \in Writers(Int) /\ nbRows \in Int /\ call \in SybCall
    BY DEF SybInv, SybTyped
  <2>3. call.tries \in Int /\ call.set \in Nat
    BY <2>2 DEF SybCall
  <2>4. QED BY <2>1, <2>2, <2>3
<1>2. /\ call.present
      /\ Refused(w) \/ (Stands(w, "values") /\ w.setNo <= call.set /\ call.open = "no")
  BY <1>1 DEF CutIn
<1>3. ASSUME call'.present = TRUE, Refused(w) => Refused(w'), call.open # "no"
      PROVE  CutIn'
  BY <1>2, <1>3 DEF CutIn
<1>4. ASSUME call'.present = call.present, w' = w, call'.open = call.open, call'.set = call.set
      PROVE  CutIn'
  BY <1>1, <1>4 DEF CutIn
<1>5. CASE Message
  BY <1>1, <1>4, <1>5 DEF Message, SybCall
<1>6. CASE TimesOut
  BY <1>1, <1>4, <1>6 DEF TimesOut, SybCall
<1>7. ASSUME NEW b \in BOOLEAN, SetDone(b) PROVE CutIn'
  <2>1. w' = w /\ call.open = "rows" /\ call'.present = call.present
    BY <1>1, <1>7 DEF SetDone, SybCall
  <2>2. QED BY <1>2, <1>3, <2>1
<1>8. CASE Row
  <2> DEFINE b == ColumnValue(w, call.tries)
  <2>1. /\ w' = EndColumnValues(ColumnValue(b, call.tries)) /\ call.open = "rows"
        /\ call'.present = call.present
    BY <1>1, <1>8 DEF Row, Another, SybCall
  <2>2. Adds(Int, w, b, "VAL", call.tries)
    BY <1>1, ColumnValueAdds
  <2> HIDE DEF b
  <2>3. Writes(Int, b, w', {call.tries})
    BY <1>1, <2>1, <2>2, RowWrites DEF Adds
  <2>4. Refused(w) => Refused(w')
    BY <2>2, <2>3 DEF Adds, Writes
  <2>5. QED BY <1>2, <1>3, <2>1, <2>4
<1>9. ASSUME NEW column \in 1..2, RowFails(column) PROVE CutIn'
  <2>1. /\ w' = IF column = 1 THEN w ELSE ColumnValue(w, call.tries)
        /\ call.open = "rows" /\ call'.present = call.present
    BY <1>1, <1>9 DEF RowFails, Another, SybCall
  <2>2. Adds(Int, w, ColumnValue(w, call.tries), "VAL", call.tries)
    BY <1>1, ColumnValueAdds
  <2>3. Refused(w) => Refused(w')
    BY <2>1, <2>2 DEF Adds
  <2>4. QED BY <1>2, <1>3, <2>1, <2>3
<1>10. CASE BeginParams
  <2>1. w' = BeginOutputParams(w, nbRows) /\ call'.present = TRUE
    BY <1>1, <1>10 DEF BeginParams, SybCall
  <2>2. Refused(w')
    BY <1>1, <1>2, <2>1, BeginParamsBreak, BeginParamsNeutral DEF Neutral
  <2>3. QED BY <2>1, <2>2 DEF CutIn
<1>11. CASE ParamShown
  <2>1. /\ w' = ParamValue(w, call.tries) /\ call.open = "params"
        /\ call'.present = call.present
    BY <1>1, <1>11 DEF ParamShown, Another, SybCall
  <2>2. Adds(Int, w, w', "PARAM", call.tries)
    BY <1>1, <2>1, ParamValueAdds
  <2>3. QED BY <1>2, <1>3, <2>1, <2>2 DEF Adds
<1>12. CASE ParamFails
  BY <1>1, <1>4, <1>12 DEF ParamFails, SybCall
<1>13. ASSUME NEW b \in BOOLEAN, BeginSet(b) PROVE CutIn'
  <2> DEFINE s == call.set + 1
             g == BeginResultSet(w, s, nbRows)
             h == ColumnName(g)
             e == ColumnName(h)
  <2>1. s \in Nat /\ call.set <= s /\ ~(s <= call.set)
    BY <1>1
  <2> HIDE DEF s
  <2>2. /\ call' = [call EXCEPT !.set = s, !.present = TRUE, !.rows = 0,
                                !.open = IF b THEN "no" ELSE "rows"]
        /\ w' = IF b THEN w ELSE ColumnName(ColumnName(BeginResultSet(w, call'.set, nbRows)))
        /\ call.open = "no"
    BY <1>13 DEF BeginSet, s
  <2>3. call'.set = s /\ call'.present = TRUE /\ call'.open = IF b THEN "no" ELSE "rows"
    BY <1>1, <2>1, <2>2 DEF SybCall
  <2>4. CASE b
    <3>1. Stands(w, "values") /\ w.setNo <= call.set => w.setNo <= s
      BY <1>1, <2>1 DEF Writers
    <3>2. w' = w
      BY <2>2, <2>4
    <3>3. QED BY <1>2, <2>3, <2>4, <3>1, <3>2 DEF CutIn
  <2>5. CASE ~b
    <3>1. Refused(g) /\ g \in Writers(Int)
      <4>1. w.setNo <= call.set => w.setNo # s
        BY <1>1, <2>1 DEF Writers
      <4>2. Neutral(Int, w, g)
        BY <1>1, <2>1, BeginSetNeutral
      <4>3. QED BY <1>1, <1>2, <2>1, <4>1, <4>2, BeginSetBreaks DEF Neutral
    <3> HIDE DEF g
    <3>2. Refused(h) /\ h \in Writers(Int)
      BY <3>1, ColumnNameNeutral DEF Neutral
    <3> HIDE DEF h
    <3>3. Refused(e)
      BY <3>2, ColumnNameNeutral DEF Neutral
    <3>4. w' = e
      BY <2>2, <2>3, <2>5, Zenon DEF e, h, g
    <3>5. QED BY <2>3, <3>3, <3>4 DEF CutIn
  <2>6. QED BY <2>4, <2>5
<1>14. QED BY <1>5, <1>6, <1>7, <1>8, <1>9, <1>10, <1>11, <1>12, <1>13 DEF ExecutionStep

LEMMA ExecutionStepParse ==
  ASSUME SybInv, SybRows, SybParse, ExecutionStep
  PROVE  SybParse'
<1>1. /\ pc = "exec" /\ pc' = pc /\ w \in Writers(Int) /\ nbRows \in Int /\ call \in SybCall
      /\ ~call.answered
      /\ call.open # "no" => call.present
  BY DEF SybInv, SybTyped, MessagesInv, SybRows, ExecutionStep, Message, TimesOut, Row, BeginParams,
         ParamShown, ParamFails, BeginSet, SetDone, RowFails, Another, Processing
<1>1a. SybInv' /\ ~call'.answered
  BY <1>1, ExecutionStepInv DEF SybInv, MessagesInv
<1> DEFINE Goal ==
             /\ ~call'.cut => \E j \in Composing \cup Half : StandsIn(j)'
             /\ call'.cut => CutIn'
<1>2. SUFFICES Goal
  BY <1>1, <1>1a DEF SybParse, SybResponseParses
<1>2a. CASE call.cut
  <2>1. call'.cut
    BY <1>1, <1>2a DEF SybCall, ExecutionStep, Message, TimesOut, Row, BeginParams,
       ParamShown, ParamFails, BeginSet, SetDone, RowFails
  <2>2. CutIn
    BY <1>1, <1>2a DEF SybParse
  <2>3. CutIn'
    BY <1>2a, <2>2, ExecutionStepCut
  <2>4. QED BY <2>1, <2>3
<1>3. SUFFICES ASSUME ~call.cut, NEW k \in Composing \cup Half, StandsIn(k) PROVE Goal
  BY <1>1, <1>2a DEF SybParse
<1>3a. ASSUME NEW j \in Composing \cup Half, StandsIn(j)', ~call'.cut PROVE Goal
  BY <1>3a
<1>4. call.tries \in Int /\ w.setNo \in Int /\ call.set \in Nat
  BY <1>1 DEF SybCall, Writers
<1>5. ASSUME w' = w, call'.open = call.open, call'.set = call.set, call'.present = call.present,
             call'.half = call.half, call'.cut = call.cut
      PROVE  Goal
  <2>1. StandsIn(k)'
    BY <1>3, <1>5 DEF StandsIn
  <2>2. QED BY <1>3, <1>3a, <1>5, <2>1
<1>6. CASE Message
  BY <1>1, <1>5, <1>6 DEF Message, SybCall
<1>7. CASE TimesOut
  BY <1>1, <1>5, <1>7 DEF TimesOut, SybCall
<1>8. ASSUME NEW b \in BOOLEAN, SetDone(b) PROVE Goal
  <2>1. /\ w' = w /\ call.open = "rows" /\ call'.open = "no" /\ call'.set = call.set
        /\ call'.present = call.present /\ call'.half = FALSE
        /\ (call'.cut <=> call.cut \/ call.half)
    BY <1>1, <1>8 DEF SetDone, SybCall
  <2>2. k \in {"columns", "rows", "values"} /\ Stands(w, k) /\ w.setNo <= call.set /\ call.present
    BY <1>1, <1>3, <2>1 DEF StandsIn
  <2>3. CASE call.half
    <3>1. k = "values"
      BY <1>3, <2>2, <2>3 DEF StandsIn, Half
    <3>2. CutIn'
      BY <2>1, <2>2, <3>1 DEF CutIn
    <3>3. QED BY <2>1, <2>3, <3>2
  <2>4. CASE ~call.half
    <3>1. k \notin Half
      BY <1>3, <2>4 DEF StandsIn
    <3>2. StandsIn(k)'
      BY <2>1, <2>2, <3>1 DEF StandsIn, Half
    <3>3. QED BY <1>3, <1>3a, <2>1, <2>4, <3>2
  <2>5. QED BY <2>3, <2>4
<1>9. CASE Row
  <2>1. /\ w' = EndColumnValues(ColumnValue(ColumnValue(w, call.tries), call.tries))
        /\ call.open = "rows" /\ call'.open = call.open /\ call'.set = call.set
        /\ call'.present = call.present /\ call'.half = FALSE /\ call'.cut = call.cut
    BY <1>1, <1>9 DEF Row, Another, SybCall
  <2>2. k \in {"columns", "rows", "values"} /\ Stands(w, k)
    BY <1>3, <2>1 DEF StandsIn
  <2>3. Stands(w', "rows") /\ w'.setNo = w.setNo
    BY <1>4, <2>1, <2>2, RowStands
  <2>4. "rows" \in Composing
    BY DEF Composing
  <2>5. StandsIn("rows")'
    BY <1>1, <1>3, <2>1, <2>2, <2>3 DEF StandsIn, Half
  <2>6. QED BY <1>3, <1>3a, <2>1, <2>4, <2>5
<1>10. ASSUME NEW column \in 1..2, RowFails(column) PROVE Goal
  <2>1. /\ w' = IF column = 1 THEN w ELSE ColumnValue(w, call.tries)
        /\ call.open = "rows" /\ call'.open = call.open /\ call'.set = call.set
        /\ call'.present = call.present /\ (call'.half <=> call.half \/ column # 1)
        /\ call'.cut = call.cut /\ call'.half \in BOOLEAN
    BY <1>1, <1>10 DEF RowFails, Another, SybCall
  <2>2. CASE column = 1
    <3>1. call.half \in BOOLEAN
      BY <1>1 DEF SybCall
    <3>2. QED BY <1>5, <2>1, <2>2, <3>1
  <2>3. CASE column # 1
    <3>1. k \in {"columns", "rows", "values"} /\ Stands(w, k)
      BY <1>3, <2>1 DEF StandsIn
    <3>2. Stands(w', "values") /\ w'.setNo = w.setNo
      BY <1>4, <2>1, <2>3, <3>1, ColumnValueStands
    <3>3. StandsIn("values")'
      BY <1>1, <1>3, <2>1, <2>3, <3>1, <3>2 DEF StandsIn, Half
    <3>4. "values" \in Half
      BY DEF Half
    <3>5. QED BY <1>3, <1>3a, <2>1, <3>3, <3>4
  <2>4. QED BY <2>2, <2>3
<1>11. CASE BeginParams
  <2>1. /\ w' = BeginOutputParams(w, nbRows) /\ call.open = "no" /\ call'.open = "params"
        /\ call'.present = TRUE /\ call'.half = TRUE /\ call'.cut = call.cut
    BY <1>1, <1>11 DEF BeginParams, SybCall
  <2>2. k \in {"start", "columns", "rows"} /\ Stands(w, k)
    BY <1>3, <2>1 DEF StandsIn, Composing, Half
  <2>3. Stands(w', "params")
    BY <1>1, <2>1, <2>2, BeginParamsStands
  <2>4. "params" \in Half
    BY DEF Half
  <2>5. StandsIn("params")'
    BY <2>1, <2>3, <2>4 DEF StandsIn
  <2>6. QED BY <1>3, <1>3a, <2>1, <2>4, <2>5
<1>11a. CASE ParamShown
  <2>1. /\ w' = ParamValue(w, call.tries) /\ call.open = "params" /\ call'.open = "params"
        /\ call'.present = call.present /\ call'.half = FALSE /\ call'.cut = call.cut
    BY <1>1, <1>11a DEF ParamShown, Another, SybCall
  <2>2. k \in {"params", "values of params"} /\ Stands(w, k) /\ call.present
    BY <1>1, <1>3, <2>1 DEF StandsIn
  <2>3. Stands(w', "values of params")
    BY <1>4, <2>1, <2>2, ParamValueStands
  <2>4. "values of params" \in Composing
    BY DEF Composing
  <2>5. StandsIn("values of params")'
    BY <2>1, <2>2, <2>3 DEF StandsIn, Half
  <2>6. QED BY <1>3, <1>3a, <2>1, <2>4, <2>5
<1>11b. CASE ParamFails
  BY <1>1, <1>5, <1>11b DEF ParamFails, SybCall
<1>12. ASSUME NEW b \in BOOLEAN, BeginSet(b) PROVE Goal
  <2> DEFINE s == call.set + 1
             h == ColumnName(BeginResultSet(w, call'.set, nbRows))
  <2>1. s \in Nat /\ call.set <= s /\ ~(s <= call.set)
    BY <1>4
  <2> HIDE DEF s
  <2>2. /\ call' = [call EXCEPT !.set = s, !.present = TRUE, !.rows = 0,
                                !.open = IF b THEN "no" ELSE "rows"]
        /\ w' = IF b THEN w ELSE ColumnName(h)
        /\ call.open = "no"
    BY <1>12 DEF BeginSet, s
  <2>3. /\ call'.set = s /\ call'.present = TRUE
        /\ call'.open = IF b THEN "no" ELSE "rows"
        /\ call'.half = call.half /\ call'.cut = call.cut
    BY <1>1, <2>1, <2>2 DEF SybCall
  <2>4. k \in {"start", "columns", "rows"} /\ Stands(w, k) /\ ~call.half
        /\ (k # "start" => w.setNo <= call.set)
    BY <1>3, <2>2 DEF StandsIn, Composing, Half
  <2>5. CASE b
    <3>1. w' = w /\ w'.setNo = w.setNo /\ (k # "start" => w.setNo <= s)
      BY <1>4, <2>1, <2>2, <2>4, <2>5
    <3>2. StandsIn(k)'
      BY <2>3, <2>4, <2>5, <3>1 DEF StandsIn, Half
    <3>3. QED BY <1>3, <1>3a, <2>3, <3>2
  <2>6. CASE ~b
    <3>1. k # "start" => w.setNo # s
      BY <1>4, <2>1, <2>4
    <3>2. Stands(h, "columns") /\ h.setNo = s
      BY <1>1, <2>1, <2>3, <2>4, <3>1, HeaderStands
    <3> HIDE DEF h
    <3>3. Stands(ColumnName(h), "columns") /\ ColumnName(h).setNo = h.setNo
      BY <3>2, ColumnNameStands
    <3>4. w' = ColumnName(h)
      BY <2>2, <2>6
    <3>4a. "columns" \in Composing
      BY DEF Composing
    <3>4b. s <= s
      BY <2>1
    <3>5. StandsIn("columns")'
      BY <2>3, <2>4, <2>6, <3>2, <3>3, <3>4, <3>4b DEF StandsIn, Half
    <3>6. QED BY <1>3, <1>3a, <2>3, <3>4a, <3>5
  <2>7. QED BY <2>5, <2>6
<1>13. QED BY <1>6, <1>7, <1>8, <1>9, <1>10, <1>11, <1>11a, <1>11b, <1>12
          DEF ExecutionStep

\* A call that is answered with a status, or with the row of a login.
LEMMA StatusParses ==
  ASSUME NEW stat \in Int, NEW n \in Int
  PROVE  IsSentence(EndResponse(FreshWriter, stat, 0, n).out)
<1> DEFINE e == EndResponse(FreshWriter, stat, 0, n)
<1>1. Stands(FreshWriter, "start") /\ "start" \in Composing
  BY FreshStands DEF Composing
<1>2. At(e) = "done"
  BY <1>1, EndResponseStands
<1> HIDE DEF e
<1>3. IsSentence(e.out)
  BY <1>2, SentenceAt
<1>4. QED BY <1>3 DEF e

LEMMA LoginParses ==
  ASSUME NEW stat \in Int
  PROVE  IsSentence(LoginResponse(stat).out)
<1> DEFINE h == ColumnName(BeginResultSet(FreshWriter, 1, 0))
           v == ColumnValue(h, 0)
           r == EndColumnValues(v)
           e == EndResponse(r, stat, 0, 1)
<1>1. Stands(FreshWriter, "start")
  BY FreshStands
<1>2. Stands(h, "columns")
  BY <1>1, HeaderStands
<1> HIDE DEF h
<1>3. Stands(v, "values")
  BY <1>2, ColumnValueStands
<1> HIDE DEF v
<1>4. Stands(r, "rows")
  BY <1>3, EndColumnValuesStands
<1> HIDE DEF r
<1>5. "rows" \in Composing
  BY DEF Composing
<1>6. At(e) = "done"
  BY <1>4, <1>5, EndResponseStands
<1>7. LoginResponse(stat) = e
  BY Zenon DEF LoginResponse, e, r, v, h
<1> HIDE DEF e
<1>8. QED BY <1>6, <1>7, SentenceAt

LEMMA DecidesParse ==
  ASSUME SybInv, SybRows, SybParse, NEW inTime, NEW connected, NEW flushed, RetryStatus = {},
         TryAgain(inTime, connected) \/ Exits(inTime, connected, flushed) \/ Finish(inTime, flushed)
  PROVE  SybParse'
<1>1. /\ pc = "decide" /\ w \in Writers(Int) /\ nbRows \in Int /\ call \in SybCall
      /\ ~call.answered /\ ~call.half /\ call.nbMsg \in Nat /\ ListedMessages(w.out) = 0
  BY DEF SybInv, SybTyped, SybCall, MessagesInv, SybParse, TryAgain, Exits, Finish
<1>2. NextTry.cut = call.cut /\ Answered.cut = call.cut
  BY <1>1, NextTryFacts, AnsweredFacts
<1>3. CASE TryAgain(inTime, connected)
  <2>1. call' = NextTry /\ w' = w /\ ~call.present
    BY <1>3 DEF TryAgain, Retried
  <2>2. /\ call'.open = "no" /\ call'.answered = FALSE /\ call'.half = FALSE
        /\ call'.cut = call.cut /\ call'.present = FALSE /\ pc' = "exec"
    BY <1>1, <1>2, <1>3, <2>1, NextTryFacts DEF TryAgain
  <2>3. ~call.cut
    BY <1>1, <2>1 DEF SybParse, CutIn
  <2>4. PICK k \in Composing \cup Half : StandsIn(k)
    BY <1>1, <2>3 DEF SybParse
  <2>5. k = "start"
    BY <2>1, <2>4 DEF StandsIn
  <2>6. StandsIn(k)'
    BY <2>1, <2>2, <2>4, <2>5 DEF StandsIn, Half
  <2>7. QED BY <2>2, <2>3, <2>6 DEF SybParse, SybResponseParses
\* The response without and with the messages.
<1>4. PICK k \in Composing : ~call.cut => Stands(w, k)
  BY <1>1 DEF SybParse, StandsIn, Composing
<1>5. call.cut => Refused(w) \/ \E h \in Half : Stands(w, h)
  BY <1>1 DEF SybParse, CutIn, Half
<1>6. ASSUME NEW b \in Writers(Int), NEW j \in Composing \cup {"totals"}, ~call.cut => Stands(b, j),
             call.cut => Refused(b) \/ \E h \in Half : Stands(b, h), NEW stat \in Int, NEW n \in Int,
             w' = EndResponse(b, stat, 0, n), call' = Answered, pc' \notin {"exec", "decide"}
      PROVE  SybParse'
  <2>1. call'.cut = call.cut /\ call.cut \in BOOLEAN
    BY <1>1, <1>2, <1>6 DEF SybCall
  <2>2. ~call.cut => IsSentence(w'.out)
    BY <1>6, EndResponseStands, SentenceAt
  <2>3. call.cut => Refused(w')
    <3>1. Adds(Int, b, w', "EOT", 0) /\ (Refused(ListsClosed(b, n)) => Refused(w'))
      BY <1>6, EndResponseAdds
    <3>2. ASSUME NEW h \in Half, Stands(b, h) PROVE Refused(w')
      BY <1>6, <3>1, <3>2, ListsClosedBreak
    <3>3. QED BY <1>6, <3>1, <3>2 DEF Adds
  <2>4. call.cut => ~IsSentence(w'.out)
    BY <2>3, SentenceAt
  <2>5. QED BY <1>6, <2>1, <2>2, <2>4 DEF SybParse, SybResponseParses
<1>7. CASE Exits(inTime, connected, flushed)
  <2>1. PICK stat \in Int : w' = EndResponse(w, stat, 0, 1)
    BY <1>7, StatusesAreInt, Zenon DEF Exits, Responds
  <2>2. call' = Answered /\ pc' = "gone"
    BY <1>7 DEF Exits, Responds
  <2>3. 1 \in Int /\ k \in Composing \cup {"totals"} /\ pc' \notin {"exec", "decide"}
    BY <2>2
  <2>4. QED BY <1>1, <1>4, <1>5, <1>6, <2>1, <2>2, <2>3
<1>8. CASE Finish(inTime, flushed)
  <2> DEFINE stat == IF call.status # NoStatus THEN call.status ELSE StatusOfDiag(call.diag)
             m == WithMessages(w, call.nbMsg)
             j == IF call.nbMsg = 0 THEN k ELSE "totals"
  <2>1. /\ w' = EndResponse(m, stat, 0, nbRows) /\ call' = Answered /\ pc' = NextCall
    BY <1>8, Zenon DEF Finish, Responds
  <2>2. stat \in Int
    BY <1>1, StatusOfDiagInt DEF SybCall
  <2> HIDE DEF stat
  <2>3. ~call.cut => Stands(m, j)
    BY <1>1, <1>4, Xml2SybAssumption, WithMessagesStands
  <2>4. j \in Composing \cup {"totals"}
    BY <1>4
  <2>5. /\ m \in Writers(Int) /\ (call.nbMsg = 0 => m = w)
        /\ (call.nbMsg # 0 /\ Refused(BeginMsg(w, nbRows)) => Refused(m))
    BY <1>1, Xml2SybAssumption, WithMessagesAdds
  <2>6. call.cut => Refused(BeginMsg(w, nbRows))
    <3>1. Neutral(Int, w, BeginMsg(w, nbRows))
      BY <1>1, BeginMsgNeutral
    <3>2. ASSUME NEW h \in Half, Stands(w, h) PROVE Refused(BeginMsg(w, nbRows))
      BY <1>1, <3>2, BeginMsgBreaks
    <3>3. QED BY <1>5, <3>1, <3>2 DEF Neutral
  <2> HIDE DEF m
  <2>7. call.cut => Refused(m) \/ \E h \in Half : Stands(m, h)
    <3>1. CASE call.nbMsg = 0
      BY <1>5, <2>5, <3>1
    <3>2. CASE call.nbMsg # 0
      BY <2>5, <2>6, <3>2
    <3>3. QED BY <3>1, <3>2
  <2>8. pc' \notin {"exec", "decide"}
    BY <2>1 DEF NextCall
  <2> HIDE DEF j
  <2>9. QED BY <1>1, <1>6, <2>1, <2>2, <2>3, <2>4, <2>5, <2>7, <2>8
<1>9. QED BY <1>3, <1>7, <1>8

LEMMA SybParseInit == SybInit => SybParse
<1> SUFFICES ASSUME SybInit PROVE SybParse
  OBVIOUS
<1>1. pc = "init" /\ w = FreshWriter
  BY DEF SybInit
<1>2. w.out = <<>>
  BY <1>1, FreshStands
<1>3. QED BY <1>1, <1>2 DEF SybParse, SybResponseParses

LEMMA SybParseStep ==
  ASSUME RetryStatus = {}, SybInv, SybRows, SybParse, [SybNext]_sybVars
  PROVE  SybParse'
<1>1. CASE UNCHANGED sybVars
  BY <1>1 DEF sybVars, SybParse, StandsIn, CutIn, SybResponseParses
<1>2. CASE (\E b \in BOOLEAN : Start(b) \/ Bind(b) \/ Accept(b)) \/ EndOfStream
  <2>1. w' = w /\ call' = call /\ pc' \notin {"exec", "decide"}
    BY <1>2 DEF Start, Bind, Accept, EndOfStream
  <2>2. QED BY <2>1 DEF SybParse, SybResponseParses
<1>3. CASE LoginTooLong \/ Execute
  <2>1. /\ w' = FreshWriter /\ call'.open = "no" /\ call'.present = FALSE /\ call'.half = FALSE
        /\ call'.cut = FALSE /\ call'.answered = FALSE
    BY <1>3, BeginsInv
  <2>2. Stands(w', "start") /\ w'.out = <<>> /\ "start" \in Composing
    BY <2>1, FreshStands DEF Composing
  <2>3. StandsIn("start")'
    BY <2>1, <2>2 DEF StandsIn, Half
  <2>4. QED BY <2>1, <2>2, <2>3 DEF SybParse, SybResponseParses
<1>4. ASSUME NEW flushed \in BOOLEAN,
             Ping(flushed) \/ Refuse(flushed) \/ BadParameter(flushed)
               \/ \E stat \in {0, 401, 402, NO_DS_CONN} : Kill(stat, flushed)
      PROVE  SybParse'
  <2>1. nbRows \in Int
    BY DEF SybInv, SybTyped
  <2>2. \E stat \in Int, n \in Int : w' = EndResponse(FreshWriter, stat, 0, n)
    <3>1. CASE Ping(flushed)
      <4>1. 0 \in Int
        OBVIOUS
      <4>2. QED BY <3>1, <4>1, Zenon DEF Ping, Responds
    <3>2. CASE Refuse(flushed)
      BY <2>1, <3>2, StatusesAreInt, Zenon DEF Refuse, Responds
    <3>3. CASE BadParameter(flushed)
      <4>1. 1 \in Int
        OBVIOUS
      <4>2. QED BY <3>3, <4>1, StatusesAreInt, Zenon DEF BadParameter, Responds
    <3>4. ASSUME NEW stat \in {0, 401, 402, NO_DS_CONN}, Kill(stat, flushed)
          PROVE  \E s \in Int, n \in Int : w' = EndResponse(FreshWriter, s, 0, n)
      <4>1. stat \in Int /\ 1 \in Int
        BY StatusesAreInt
      <4>2. QED BY <3>4, <4>1, Zenon DEF Kill, Responds
    <3>5. QED BY <1>4, <3>1, <3>2, <3>3, <3>4
  <2>3. pc' \notin {"exec", "decide"} /\ call' = Starts
    BY <1>4 DEF Ping, Refuse, BadParameter, Kill, Responds, NextCall
  <2>4. QED BY <2>2, <2>3, StatusParses, StartsTyped DEF SybParse, SybResponseParses
<1>5. ASSUME NEW flushed \in BOOLEAN, NEW outcome, Login(outcome, flushed) PROVE SybParse'
  <2> DEFINE stat == IF outcome = "connected" THEN 0 ELSE NO_DS_CONN
  <2>1. w' = LoginResponse(stat) /\ pc' = NextCall /\ call' = Starts
    BY <1>5, Zenon DEF Login
  <2>2. stat \in Int
    BY StatusesAreInt
  <2> HIDE DEF stat
  <2>3. IsSentence(w'.out) /\ pc' \notin {"exec", "decide"}
    BY <2>1, <2>2, LoginParses DEF NextCall
  <2>4. QED BY <2>1, <2>3, StartsTyped DEF SybParse, SybResponseParses
<1>6. CASE ExecutionStep
  BY <1>6, ExecutionStepParse
<1>7. CASE ExecReturns
  <2>1. PICK rc \in {0, -1, -13}, stat \in {NoStatus, 0}, diag \in Diags, reset \in BOOLEAN :
          ExecEnds(rc, stat, diag, reset)
    BY <1>7 DEF ExecReturns
  <2>2. /\ pc = "exec" /\ pc' = "decide" /\ w' = w
        /\ call' = [call EXCEPT !.rc = rc, !.status = stat, !.diag = diag, !.reset = reset,
                                !.half = FALSE, !.cut = call.cut \/ call.half]
    BY <2>1 DEF ExecEnds
  <2>3. call \in SybCall /\ ~call.answered
    BY <2>2 DEF SybInv, SybTyped, MessagesInv
  <2>4. /\ call'.present = call.present /\ call'.open = call.open /\ call'.set = call.set
        /\ call'.half = FALSE /\ (call'.cut <=> call.cut \/ call.half)
        /\ call'.answered = call.answered
    BY <2>2, <2>3 DEF SybCall
  <2>5. CASE call.cut
    <3>1. CutIn'
      BY <2>2, <2>4, <2>5 DEF SybParse, CutIn
    <3>2. QED BY <2>2, <2>3, <2>4, <2>5, <3>1 DEF SybParse, SybResponseParses
  <2>6. CASE ~call.cut
    <3>1. PICK k \in Composing \cup Half : StandsIn(k)
      BY <2>2, <2>6 DEF SybParse
    <3>2. CASE call.half
      <4>1. k \in Half /\ Stands(w, k) /\ call.present
        BY <2>3, <3>1, <3>2 DEF StandsIn, Half, SybCall
      <4>2. k = "values" => w.setNo <= call.set
        BY <3>1 DEF StandsIn
      <4>3. CutIn'
        BY <2>2, <2>4, <4>1, <4>2 DEF CutIn, Half
      <4>4. QED BY <2>2, <2>3, <2>4, <3>2, <4>3 DEF SybParse, SybResponseParses
    <3>3. CASE ~call.half
      <4>1. StandsIn(k)'
        BY <2>2, <2>4, <3>1, <3>3 DEF StandsIn
      <4>2. QED BY <2>2, <2>3, <2>4, <2>6, <3>3, <4>1 DEF SybParse, SybResponseParses
    <3>4. QED BY <3>2, <3>3
  <2>7. QED BY <2>5, <2>6
<1>8. CASE Decides
  BY <1>8, DecidesParse DEF Decides
<1>9. QED BY <1>1, <1>2, <1>3, <1>4, <1>5, <1>6, <1>7, <1>8, ZenonT(60) DEF SybNext

-----------------------------------------------------------------------------
(* The gateway: what a client gets is a sentence                           *)

GxTyped ==
  /\ rpc \in [at : {"idle", "send", "parse", "parsed", "decide"}, tries : Nat, calls : Nat,
              execs : Nat]
  /\ dest \in [up : BOOLEAN, asked : BOOLEAN, tokens : Tokens(Marks), reply : {dest.reply},
               gaps : Nat]
  /\ yy \in [at : {yy.at}, errs : Nat, bytes : BOOLEAN, eof : 0..2]
  /\ "manip" \in DOMAIN resp /\ resp.manip = 0
  /\ client \in [up : BOOLEAN, failed : BOOLEAN, got : Tokens(Marks)]
  /\ client.failed => ~client.up

\* What is not read yet belongs to the execution under way; nothing is left of it
\* when a call begins.
GxUnread ==
  /\ OwnTokens(dest.tokens, rpc.execs)
  /\ dest.asked => dest.tokens = <<>>
  /\ rpc.at \in {"idle", "send"} => dest.tokens = <<>> /\ ~dest.asked
  /\ rpc.at \in {"parsed", "decide"} /\ yy.eof = 0 => dest.tokens = <<>> /\ ~dest.asked

GxParsed ==
  /\ rpc.at = "parse" => yy.eof = 0
  /\ rpc.at \in {"parsed", "decide"} /\ yy.eof = 0 => yy.at = "done"
  /\ rpc.at = "decide" => report.mask = Mask /\ report.errs = yy.errs

\* While a response comes the client has what was parsed of it, of one execution,
\* and nothing before its first byte.
GxForwarded ==
  /\ ~yy.bytes => client.got = <<>>
  /\ client.up /\ yy.errs = 0 => ParseFrom("start", client.got) = yy.at
  /\ Of(client.got, RowTags) \subseteq {rpc.execs}

GxAnswered ==
  /\ IsSentence(client.got)
  /\ \E x : Of(client.got, RowTags) \subseteq {x}

GxGot ==
  /\ rpc.at = "send" => client.got = <<>>
  /\ rpc.at \in {"parse", "parsed", "decide"} => GxForwarded
  /\ rpc.at = "idle" /\ rpc.calls > 0 /\ client.up /\ ~(report.mask = 0 /\ report.errs > 0)
       => GxAnswered

GxInv == GxTyped /\ GxUnread /\ GxParsed /\ GxGot

LEMMA GxAnswerOwn ==
  ASSUME NEW n \in Nat, NEW kind \in {"rows", "params", "status", "bad"}
  PROVE  OwnTokens(Answer(kind, n), n)
<1> DEFINE named == ColumnName(BeginResultSet(FreshWriter, 1, 0))
           v == ColumnValue(named, n)
           row == EndColumnValues(ColumnValue(v, n))
           second == ColumnName(BeginResultSet(row, 2, 1))
           g == BeginMsg(second, 1)
           m == WriteMsg(g, n)
           e == EndMsg(m)
           b == BeginOutputParams(FreshWriter, 0)
           p == ParamValue(b, n)
<1>1. n \in Marks /\ n \in Int
  BY DEF Marks
<1>2. CASE kind = "rows"
  <2>1. Answer(kind, n) = EndResponse(e, n, 0, 0).out
    BY <1>2, Zenon DEF Answer
  <2>2. OwnWriter(named, n)
    BY OwnHeader
  <2> HIDE DEF named
  <2>3. OwnWriter(v, n)
    <3>1. Adds(Marks, named, v, "VAL", n)
      BY <1>1, <2>2, ColumnValueAdds, MarksFacts DEF OwnWriter
    <3> HIDE DEF v
    <3>2. QED BY <2>2, <3>1, OwnAdds
  <2> HIDE DEF v
  <2>4. OwnWriter(row, n)
    BY <1>1, <2>3, OwnRow
  <2> HIDE DEF row
  <2>5. OwnWriter(second, n)
    <3>1. Neutral(Marks, row, second)
      BY <2>4, HeaderNeutral, MarksFacts DEF OwnWriter
    <3> HIDE DEF second
    <3>2. QED BY <2>4, <3>1, OwnNeutral
  <2> HIDE DEF second
  <2>6. OwnWriter(g, n)
    <3>1. Neutral(Marks, second, g)
      BY <2>5, BeginMsgNeutral, MarksFacts DEF OwnWriter
    <3> HIDE DEF g
    <3>2. QED BY <2>5, <3>1, OwnNeutral
  <2> HIDE DEF g
  <2>7. OwnWriter(m, n)
    <3>1. Adds(Marks, g, m, "MSG", n)
      BY <1>1, <2>6, WriteMsgAdds DEF OwnWriter
    <3> HIDE DEF m
    <3>2. /\ RowTags \in SUBSET ValueTags /\ {"EOT"} \in SUBSET ValueTags
          /\ "MSG" \notin RowTags /\ "MSG" \notin {"EOT"}
      BY DEF ValueTags, RowTags
    <3>3. Of(m.out, RowTags) = Of(g.out, RowTags) /\ Of(m.out, {"EOT"}) = Of(g.out, {"EOT"})
      BY <3>1, <3>2 DEF Adds
    <3>4. QED BY <2>6, <3>1, <3>3 DEF OwnWriter, Adds
  <2> HIDE DEF m
  <2>8. OwnWriter(e, n)
    <3>1. Neutral(Marks, m, e)
      BY <2>7, EndMsgNeutral, MarksFacts DEF OwnWriter
    <3> HIDE DEF e
    <3>2. QED BY <2>7, <3>1, OwnNeutral
  <2> HIDE DEF e
  <2>9. QED BY <1>1, <2>1, <2>8, OwnEnd
<1>3. CASE kind = "params"
  <2>1. Answer(kind, n) = EndResponse(p, n, 0, 0).out
    BY <1>3, Zenon DEF Answer
  <2>2. Neutral(Marks, FreshWriter, b)
    BY FreshFacts, BeginParamsNeutral, MarksFacts
  <2> HIDE DEF b
  <2>3. OwnWriter(b, n)
    BY <2>2, OwnFresh, OwnNeutral
  <2>4. Adds(Marks, b, p, "PARAM", n)
    BY <1>1, <2>3, ParamValueAdds DEF OwnWriter
  <2> HIDE DEF p
  <2>5. OwnWriter(p, n)
    BY <2>3, <2>4, OwnAdds
  <2>6. QED BY <1>1, <2>1, <2>5, OwnEnd
<1>4. CASE kind = "status"
  <2>1. Answer(kind, n) = EndResponse(FreshWriter, n, 0, 0).out
    BY <1>4, Zenon DEF Answer
  <2>2. QED BY <1>1, <2>1, OwnFresh, OwnEnd
<1>5. CASE kind = "bad"
  <2>1. Answer(kind, n) = <<Tag("RESPONSE"), Tag("ROW"), <<"VAL", n>>, <<"STATUS", n>>,
                            Tag("/RESPONSE"), Tag("EOT")>>
    BY <1>5, Zenon DEF Answer
  <2>2. QED BY <1>1, <2>1, BadAnswerOwn
<1>6. QED BY <1>2, <1>3, <1>4, <1>5

LEMMA GxInitInv == GxInit => GxInv
<1> SUFFICES ASSUME GxInit PROVE GxInv
  OBVIOUS
<1>1. <<>> \in Tokens(Marks)
  BY DEF Tokens
<1>2. GxTyped
  BY <1>1 DEF GxInit, GxTyped, Parser, NewResp
<1>3. GxUnread
  BY OwnNothing DEF GxInit, GxUnread
<1>4. GxParsed /\ GxGot
  BY DEF GxInit, GxParsed, GxGot
<1>5. QED BY <1>2, <1>3, <1>4 DEF GxInv

GxClients == [up : BOOLEAN, failed : BOOLEAN, got : Tokens(Marks)]

\* A status is all of an answer.
LEMMA ReplyAnswers ==
  ASSUME client \in GxClients, client.got = <<>>, NEW stat \in Int, Reply(stat)
  PROVE  /\ client' \in GxClients
         /\ client'.up = client.up /\ client'.failed = client.failed
         /\ client.up => GxAnswered'
<1> DEFINE e == EndResponse(FreshWriter, stat, 0, 0)
           o == e.out
           joined == client.got \o o
<1>1. /\ e \in Writers(Marks) /\ Of(o, RowTags) = {} /\ IsSentence(o)
  BY MarksFacts, StatusWrites, StatusParses
<1>2. client' = IF client.up THEN [client EXCEPT !.got = joined] ELSE client
  BY DEF Reply
<1> HIDE DEF e
<1>3. o \in Tokens(Marks)
  BY <1>1 DEF Writers
<1> HIDE DEF o
<1>4. joined = o
  BY <1>3 DEF Tokens
<1> HIDE DEF joined
<1>5. client' \in GxClients /\ client'.up = client.up /\ client'.failed = client.failed
  BY <1>2, <1>3, <1>4 DEF GxClients
<1>6. ASSUME client.up PROVE GxAnswered'
  <2>1. client'.got = o
    BY <1>2, <1>4, <1>6 DEF GxClients
  <2>2. QED BY <1>1, <2>1 DEF GxAnswered
<1>7. QED BY <1>5, <1>6

LEMMA GxStatusesAreInt ==
  DS_NOT_AVAIL \in Int /\ DS_RPC_TIMEOUT \in Int /\ DS_FAIL_CANNOT_RETRY \in Int
  BY DEF DS_NOT_AVAIL, DS_RPC_TIMEOUT, DS_FAIL_CANNOT_RETRY

\* The link, new or closed.
GxRests(d) ==
  /\ d \in [up : BOOLEAN, asked : BOOLEAN, tokens : Tokens(Marks), reply : {d.reply}, gaps : Nat]
  /\ d.tokens = <<>> /\ ~d.asked

LEMMA LinkFacts == ASSUME GxTyped PROVE GxRests(Link) /\ GxRests(GxClosed)
<1>1. <<>> \in Tokens(Marks)
  BY DEF Tokens
<1>2. QED BY <1>1 DEF GxTyped, GxRests, Link, GxClosed

\* A call that ends has nothing left of it on the link.
LEMMA GxEndsKeeps ==
  ASSUME GxInv, GxEnds, yy' = yy, resp' = resp, GxRests(dest)',
         client' \in GxClients, client'.failed => ~client'.up,
         client'.up /\ ~(report'.mask = 0 /\ report'.errs > 0) => GxAnswered'
  PROVE  GxInv'
<1>1. rpc' \in [at : {"idle", "send", "parse", "parsed", "decide"}, tries : Nat, calls : Nat,
                execs : Nat] /\ rpc'.at = "idle"
  BY DEF GxEnds, GxInv, GxTyped
<1>2. GxTyped'
  BY <1>1 DEF GxInv, GxTyped, GxRests, GxClients
<1>3. GxUnread'
  BY <1>1, OwnNothing DEF GxUnread, GxRests
<1>4. GxParsed' /\ GxGot'
  BY <1>1 DEF GxParsed, GxGot
<1>5. QED BY <1>2, <1>3, <1>4 DEF GxInv

LEMMA GxGivesUpKeeps ==
  ASSUME GxInv, NEW stat \in {DS_NOT_AVAIL, DS_RPC_TIMEOUT}, GxGivesUp(stat)
  PROVE  GxInv'
<1>1. /\ rpc.at = "send" /\ GxEnds /\ Reply(stat) /\ dest' = dest /\ yy' = yy /\ resp' = resp
  BY DEF GxGivesUp
<1>2. client.got = <<>> /\ stat \in Int /\ client \in GxClients /\ (client.failed => ~client.up)
  BY <1>1, GxStatusesAreInt DEF GxInv, GxGot, GxTyped, GxClients
<1>3. /\ client' \in GxClients /\ client'.up = client.up /\ client'.failed = client.failed
      /\ client.up => GxAnswered'
  BY <1>1, <1>2, ReplyAnswers
<1>4. GxRests(dest)'
  BY <1>1 DEF GxInv, GxTyped, GxUnread, GxRests
<1>5. QED BY <1>1, <1>2, <1>3, <1>4, GxEndsKeeps

LEMMA GxTooLateKeeps ==
  ASSUME GxInv, GxTooLate
  PROVE  GxInv'
<1>1. /\ rpc.at = "parse" /\ yy = Parser /\ GxEnds /\ Reply(DS_FAIL_CANNOT_RETRY)
      /\ dest' = GxClosed /\ yy' = yy /\ resp' = resp
  BY DEF GxTooLate
<1>2. client.got = <<>> /\ client \in GxClients /\ (client.failed => ~client.up)
  BY <1>1 DEF GxInv, GxGot, GxForwarded, GxTyped, Parser, GxClients
<1>3. /\ client' \in GxClients /\ client'.up = client.up /\ client'.failed = client.failed
      /\ client.up => GxAnswered'
  BY <1>1, <1>2, GxStatusesAreInt, ReplyAnswers
<1>4. GxRests(GxClosed)
  BY LinkFacts DEF GxInv
<1>5. GxRests(dest)'
  BY <1>1, <1>4 DEF GxRests
<1>6. QED BY <1>1, <1>2, <1>3, <1>5, GxEndsKeeps

LEMMA MaskFacts ==
  ASSUME GxTyped
  PROVE  /\ Mask = 0 <=> yy.eof = 0
         /\ Mask \in {1, 2} => ~yy.bytes
         /\ Mask \in {0, 1, 2, 5, 6}
<1>1. yy.eof \in {0, 1, 2} /\ yy.bytes \in BOOLEAN
  BY DEF GxTyped
<1>2. QED BY <1>1 DEF Mask

LEMMA GxCompleteKeeps ==
  ASSUME GxInv, GxComplete
  PROVE  GxInv'
<1>1. /\ rpc.at = "decide" /\ report.mask = 0 /\ GxEnds
      /\ dest' = (IF client.failed THEN GxClosed ELSE dest)
      /\ client' = [client EXCEPT !.up = @ /\ ~client.failed]
      /\ yy' = yy /\ resp' = resp /\ report' = report
  BY DEF GxComplete
<1>2. /\ GxTyped /\ Mask = 0 /\ report.errs = yy.errs
  BY <1>1 DEF GxInv, GxParsed
<1>3. yy.eof = 0
  BY <1>2, MaskFacts
<1>4. yy.at = "done" /\ dest.tokens = <<>> /\ ~dest.asked
  BY <1>1, <1>3 DEF GxInv, GxParsed, GxUnread
<1>5. GxRests(dest) /\ GxRests(GxClosed)
  BY <1>2, <1>4, LinkFacts DEF GxTyped, GxRests
<1>6. GxRests(dest)'
  BY <1>1, <1>5 DEF GxRests
<1>7. /\ client' \in GxClients /\ client'.got = client.got
      /\ client'.failed => ~client'.up
      /\ client'.up => client.up
  BY <1>1, <1>2 DEF GxTyped, GxClients
<1>8. ASSUME client'.up, ~(report'.mask = 0 /\ report'.errs > 0) PROVE GxAnswered'
  <2>1. yy.errs = 0
    BY <1>1, <1>2, <1>8 DEF GxTyped
  <2>2. GxForwarded /\ client.up
    BY <1>1, <1>7, <1>8 DEF GxInv, GxGot
  <2>3. IsSentence(client.got)
    BY <1>4, <2>1, <2>2 DEF GxForwarded, IsSentence
  <2>4. Of(client.got, RowTags) \subseteq {rpc.execs}
    BY <2>2 DEF GxForwarded
  <2>5. QED BY <1>7, <2>3, <2>4 DEF GxAnswered
<1>9. QED BY <1>1, <1>6, <1>7, <1>8, GxEndsKeeps

LEMMA GxIncompleteKeeps ==
  ASSUME GxInv, GxIncomplete
  PROVE  GxInv'
<1>1. /\ rpc.at = "decide" /\ report.mask # 0 /\ GxEnds /\ dest' = GxClosed
      /\ yy' = yy /\ resp' = resp /\ report' = report
      /\ CASE report.mask \in {5, 6} -> client' = [client EXCEPT !.up = FALSE]
           [] report.mask = 1 -> Reply(DS_NOT_AVAIL)
           [] OTHER -> Reply(DS_RPC_TIMEOUT)
  BY DEF GxIncomplete
<1>2. /\ GxTyped /\ report.mask = Mask /\ client \in GxClients /\ (client.failed => ~client.up)
  BY <1>1 DEF GxInv, GxParsed, GxTyped, GxClients
<1>3. GxRests(GxClosed)
  BY <1>2, LinkFacts
<1>3a. GxRests(dest)'
  BY <1>1, <1>3 DEF GxRests
<1>4. /\ client' \in GxClients /\ (client'.failed => ~client'.up)
      /\ client'.up => GxAnswered'
  <2>1. CASE report.mask \in {5, 6}
    <3>1. client' = [client EXCEPT !.up = FALSE]
      BY <1>1, <2>1
    <3>2. QED BY <1>2, <3>1 DEF GxClients
  <2>2. CASE report.mask \notin {5, 6}
    <3>1. report.mask \in {1, 2}
      BY <1>1, <1>2, <2>2, MaskFacts
    <3>2. client.got = <<>>
      BY <1>1, <1>2, <3>1, MaskFacts DEF GxInv, GxGot, GxForwarded
    <3>3. PICK stat \in Int : Reply(stat)
      <4>1. Reply(DS_NOT_AVAIL) \/ Reply(DS_RPC_TIMEOUT)
        BY <1>1, <3>1
      <4>2. QED BY <4>1, GxStatusesAreInt
    <3>4. /\ client' \in GxClients /\ client'.up = client.up /\ client'.failed = client.failed
          /\ client.up => GxAnswered'
      BY <1>2, <3>2, <3>3, ReplyAnswers
    <3>5. QED BY <1>2, <3>4
  <2>3. QED BY <2>1, <2>2
<1>5. QED BY <1>1, <1>3a, <1>4, GxEndsKeeps

LEMMA GxRetryKeeps ==
  ASSUME GxInv, NEW connected \in BOOLEAN, GxRetry(connected)
  PROVE  GxInv'
<1>1. /\ rpc.at = "decide" /\ report.mask = 1 /\ yy' = yy /\ resp' = resp /\ report' = report
  BY DEF GxRetry, Repeats
<1>2. /\ GxTyped /\ report.mask = Mask /\ client \in GxClients /\ (client.failed => ~client.up)
  BY <1>1 DEF GxInv, GxParsed, GxTyped, GxClients
<1>3. client.got = <<>>
  BY <1>1, <1>2, MaskFacts DEF GxInv, GxGot, GxForwarded
<1>3a. GxRests(Link) /\ GxRests(GxClosed)
  BY <1>2, LinkFacts
<1>4. CASE connected
  <2>1. /\ rpc' = [rpc EXCEPT !.at = "send", !.tries = @ + 1] /\ dest' = Link /\ client' = client
    BY <1>4 DEF GxRetry
  <2>2. /\ rpc' \in [at : {"idle", "send", "parse", "parsed", "decide"}, tries : Nat, calls : Nat,
                     execs : Nat] /\ rpc'.at = "send"
    <3> DEFINE n == rpc.tries + 1
    <3>1. n \in Nat /\ rpc' = [rpc EXCEPT !.at = "send", !.tries = n]
      BY <1>2, <2>1 DEF GxTyped
    <3> HIDE DEF n
    <3>2. QED BY <1>2, <3>1 DEF GxTyped
  <2>3. GxRests(dest)'
    BY <1>3a, <2>1 DEF GxRests
  <2>4. GxTyped'
    BY <1>1, <1>2, <2>1, <2>2, <2>3 DEF GxTyped, GxRests
  <2>5. GxUnread'
    BY <2>2, <2>3, OwnNothing DEF GxUnread, GxRests
  <2>6. GxParsed' /\ GxGot'
    BY <1>3, <2>1, <2>2 DEF GxParsed, GxGot
  <2>7. QED BY <2>4, <2>5, <2>6 DEF GxInv
<1>5. CASE ~connected
  <2>1. GxEnds /\ Reply(DS_NOT_AVAIL) /\ dest' = GxClosed
    BY <1>5 DEF GxRetry
  <2>2. /\ client' \in GxClients /\ client'.up = client.up /\ client'.failed = client.failed
        /\ client.up => GxAnswered'
    BY <1>2, <1>3, <2>1, GxStatusesAreInt, ReplyAnswers
  <2>3. GxRests(dest)'
    BY <1>3a, <2>1 DEF GxRests
  <2>4. QED BY <1>1, <1>2, <2>1, <2>2, <2>3, GxEndsKeeps
<1>6. QED BY <1>4, <1>5

\* A callback counts what is wrong, and goes on.
CountsWrong(r) == "manip" \in DOMAIN r /\ r.manip \in Nat

LEMMA NotedCounts == ASSUME NEW r, CountsWrong(r), NEW wrong PROVE CountsWrong(Noted(r, wrong))
  BY DEF CountsWrong, Noted

LEMMA CallbackCounts ==
  ASSUME NEW r, CountsWrong(r), NEW token
  PROVE  CountsWrong(Callback(r, token))
<1>1. CountsWrong(ParseBegin(r))
  BY DEF CountsWrong, ParseBegin, NewResp
<1>2. CountsWrong(ResultSetBegin(r))
  <2> DEFINE b == Noted(r, r.names # NULL \/ r.rows # NULL)
  <2>1. CountsWrong(b)
    BY NotedCounts
  <2>2. ResultSetBegin(r) = [b EXCEPT !.names = NewPyList, !.rows = NewPyList, !.nbRows = 0]
    BY DEF ResultSetBegin
  <2> HIDE DEF b
  <2>3. QED BY <2>1, <2>2 DEF CountsWrong
<1>3. CountsWrong(AddColName(r))
  <2> DEFINE b == Noted(r, r.names = NULL)
  <2>1. CountsWrong(b)
    BY NotedCounts
  <2>2. AddColName(r) = [b EXCEPT !.names = Appended(@, "column")]
    BY DEF AddColName
  <2> HIDE DEF b
  <2>3. QED BY <2>1, <2>2 DEF CountsWrong
<1>4. CountsWrong(RowBegin(r))
  <2> DEFINE b == Noted(r, r.row # NULL)
  <2>1. CountsWrong(b)
    BY NotedCounts
  <2>2. RowBegin(r) = [b EXCEPT !.row = NewPyList]
    BY DEF RowBegin
  <2> HIDE DEF b
  <2>3. QED BY <2>1, <2>2 DEF CountsWrong
<1>5. ASSUME NEW v PROVE CountsWrong(AddRowElem(r, v))
  <2> DEFINE b == Noted(r, r.row = NULL)
  <2>1. CountsWrong(b)
    BY NotedCounts
  <2>2. AddRowElem(r, v) = [b EXCEPT !.row = Appended(@, v)]
    BY DEF AddRowElem
  <2> HIDE DEF b
  <2>3. QED BY <2>1, <2>2 DEF CountsWrong
<1>6. CountsWrong(RowEnd(r))
  <2>1. CountsWrong(Noted(r, TRUE))
    BY NotedCounts
  <2>2. CountsWrong([r EXCEPT !.rows = Appended(@, Pointed(r.row)), !.row = NULL])
    BY DEF CountsWrong
  <2>3. QED BY <2>1, <2>2 DEF RowEnd
<1>7. CountsWrong(ResultSetEnd(r))
  <2>1. CountsWrong(Noted(r, TRUE))
    BY NotedCounts
  <2>2. CountsWrong([r EXCEPT !.sets = Appended(@, <<Pointed(r.rows), r.nbRows>>), !.names = NULL,
                              !.rows = NULL, !.nbRows = 0])
    BY DEF CountsWrong
  <2>3. QED BY <2>1, <2>2 DEF ResultSetEnd
<1>8. ASSUME NEW v PROVE CountsWrong(AddParam(r, v))
  BY DEF CountsWrong, AddParam
<1>9. ASSUME NEW v PROVE CountsWrong(AddMsg(r, v))
  <2> DEFINE b == Noted(r, r.msgs = NULL)
  <2>1. CountsWrong(b)
    BY NotedCounts
  <2>2. AddMsg(r, v) = [b EXCEPT !.msgs = Appended(@, v)]
    BY DEF AddMsg
  <2> HIDE DEF b
  <2>3. QED BY <2>1, <2>2 DEF CountsWrong
<1>10. ASSUME NEW v PROVE CountsWrong([r EXCEPT !.nbRows = v]) /\ CountsWrong([r EXCEPT !.status = v])
  BY DEF CountsWrong
<1>11. QED BY <1>1, <1>2, <1>3, <1>4, <1>5, <1>6, <1>7, <1>8, <1>9, <1>10 DEF Callback

\* One token is read: it is of the execution under way, the client has it when it
\* is there, and behind the last one the parse is done.
LEMMA GxReadKeeps ==
  ASSUME GxInv, GxRead
  PROVE  GxInv'
<1> DEFINE token == Head(dest.tokens)
           ok == Shift(yy.at, token[1]) # "error"
           to == IF ok THEN Shift(yy.at, token[1]) ELSE SkipFrom(yy.at)
           filled == IF ok THEN Callback(resp, token) ELSE resp
           left == Tail(dest.tokens)
           more == IF ok THEN filled.manip - resp.manip ELSE 1
           gets == client.up /\ ~client.failed
           got == IF gets THEN Append(client.got, token) ELSE client.got
<1>1. /\ rpc.at = "parse" /\ dest.tokens # <<>>
      /\ yy' = [yy EXCEPT !.at = to, !.bytes = TRUE, !.errs = @ + more]
      /\ resp' = [filled EXCEPT !.manip = 0]
      /\ client' = [client EXCEPT !.failed = @ \/ ~client.up, !.got = got]
      /\ rpc' = (IF to = "done" THEN [rpc EXCEPT !.at = "parsed"] ELSE rpc)
      /\ dest' = [dest EXCEPT !.tokens = left]
      /\ report' = report
  BY DEF GxRead
<1>2. /\ GxTyped /\ GxForwarded /\ yy.eof = 0 /\ OwnTokens(dest.tokens, rpc.execs) /\ ~dest.asked
  BY <1>1 DEF GxInv, GxUnread, GxParsed, GxGot, GxTyped
<1>3. /\ OwnTokens(left, rpc.execs)
      /\ token[1] \in RowTags => token[2] = rpc.execs
      /\ token[1] = "EOT" => left = <<>>
  BY <1>1, <1>2, OwnTail
<1>4. token \in Token(Marks)
  BY <1>1, <1>2 DEF OwnTokens, Tokens
<1>5. to = "done" => token[1] = "EOT"
  <2>1. CASE ok
    BY <2>1, ShiftFacts DEF Accepted
  <2>2. CASE ~ok
    BY <2>2, SkipFacts
  <2>3. QED BY <2>1, <2>2
<1>6. more \in Nat /\ (more = 0 => ok)
  <2>1. CASE ok
    <3>1. CountsWrong(Callback(resp, token))
      BY <1>2, CallbackCounts DEF CountsWrong, GxTyped
    <3>2. resp.manip = 0
      BY <1>2 DEF GxTyped
    <3>3. QED BY <2>1, <3>1, <3>2 DEF CountsWrong
  <2>2. CASE ~ok
    BY <2>2
  <2>3. QED BY <2>1, <2>2
<1>7. "manip" \in DOMAIN filled
  <2>1. CountsWrong(resp)
    BY <1>2 DEF CountsWrong, GxTyped
  <2>2. CountsWrong(Callback(resp, token))
    BY <2>1, CallbackCounts
  <2>3. QED BY <2>1, <2>2 DEF CountsWrong
<1>8. ok => to = Shift(yy.at, token[1])
  OBVIOUS
<1> HIDE DEF to, filled, more
<1>9. /\ client.got \in Tokens(Marks) /\ client.up \in BOOLEAN /\ client.failed \in BOOLEAN
      /\ client.failed => ~client.up
  BY <1>2 DEF GxTyped
<1> DEFINE appended == Append(client.got, token)
<1>10. /\ appended \in Tokens(Marks)
       /\ ParseFrom("start", appended) = Shift(ParseFrom("start", client.got), token[1])
       /\ Of(appended, RowTags) =
            Of(client.got, RowTags) \cup (IF token[1] \in RowTags THEN {token[2]} ELSE {})
  <2>1. appended \in Tokens(Marks)
    BY <1>4, <1>9 DEF Tokens
  <2>2. ParseFrom("start", appended) = Shift(ParseFrom("start", client.got), token[1])
    BY <1>4, <1>9, ParseAppend
  <2>3. Of(appended, RowTags) =
          Of(client.got, RowTags) \cup (IF token[1] \in RowTags THEN {token[2]} ELSE {})
    BY <1>4, <1>9, OfAppend
  <2>4. QED BY <2>1, <2>2, <2>3
<1>11. /\ got = IF gets THEN appended ELSE client.got
       /\ client.up => gets
  BY <1>9
<1> HIDE DEF ok, appended, got, left
<1>12. /\ client' \in [up : BOOLEAN, failed : BOOLEAN, got : Tokens(Marks)]
       /\ client'.got = got /\ client'.up = client.up
       /\ client'.failed => ~client'.up
  BY <1>1, <1>2, <1>9, <1>10, <1>11 DEF GxTyped
<1>13. /\ yy' \in [at : {to}, errs : Nat, bytes : BOOLEAN, eof : 0..2]
       /\ yy'.at = to /\ yy'.bytes = TRUE /\ yy'.eof = 0
       /\ (yy'.errs = 0 => yy.errs = 0 /\ ok)
  <2> DEFINE n == yy.errs + more
  <2>1. n \in Nat /\ (n = 0 => yy.errs = 0 /\ ok)
    BY <1>2, <1>6 DEF GxTyped
  <2>2. yy' = [yy EXCEPT !.at = to, !.bytes = TRUE, !.errs = n]
    BY <1>1
  <2> HIDE DEF n
  <2>3. QED BY <1>2, <2>1, <2>2 DEF GxTyped
<1>14. /\ rpc' \in [at : {"idle", "send", "parse", "parsed", "decide"}, tries : Nat, calls : Nat,
                    execs : Nat]
       /\ rpc'.execs = rpc.execs /\ rpc'.at = (IF to = "done" THEN "parsed" ELSE "parse")
  BY <1>1, <1>2 DEF GxTyped
<1>15. /\ dest' \in [up : BOOLEAN, asked : BOOLEAN, tokens : Tokens(Marks), reply : {dest'.reply},
                     gaps : Nat]
       /\ dest'.tokens = left /\ dest'.asked = dest.asked
  BY <1>1, <1>2, <1>3 DEF GxTyped, OwnTokens
<1>16. "manip" \in DOMAIN resp' /\ resp'.manip = 0
  BY <1>1, <1>7
<1>17. GxTyped'
  BY <1>12, <1>13, <1>14, <1>15, <1>16 DEF GxTyped
<1>18. GxUnread'
  <2>1. OwnTokens(dest'.tokens, rpc'.execs)
    BY <1>3, <1>14, <1>15
  <2>2. ~dest'.asked
    BY <1>2, <1>15
  <2>3. rpc'.at # "parse" => dest'.tokens = <<>>
    BY <1>3, <1>5, <1>14, <1>15
  <2>4. QED BY <2>1, <2>2, <2>3, <1>14 DEF GxUnread
<1>19. GxParsed'
  BY <1>13, <1>14 DEF GxParsed
<1>20. GxForwarded'
  <2>1. ASSUME client'.up, yy'.errs = 0 PROVE ParseFrom("start", client'.got) = yy'.at
    <3>1. gets /\ yy.errs = 0 /\ ok /\ client.up
      BY <1>11, <1>12, <1>13, <2>1
    <3>2. ParseFrom("start", client.got) = yy.at
      BY <1>2, <3>1 DEF GxForwarded
    <3>3. client'.got = appended
      BY <1>11, <1>12, <3>1
    <3>4. QED BY <1>8, <1>10, <1>13, <3>1, <3>2, <3>3
  <2>2. Of(client.got, RowTags) \subseteq {rpc.execs}
    BY <1>2 DEF GxForwarded
  <2>3. Of(client'.got, RowTags) \subseteq {rpc'.execs}
    <3>1. CASE gets
      <4>1. client'.got = appended
        BY <1>11, <1>12, <3>1
      <4>2. QED BY <1>3, <1>10, <1>14, <2>2, <4>1
    <3>2. CASE ~gets
      BY <1>11, <1>12, <1>14, <2>2, <3>2
    <3>3. QED BY <3>1, <3>2
  <2>4. QED BY <1>13, <2>1, <2>3 DEF GxForwarded
<1>21. GxGot'
  BY <1>14, <1>20 DEF GxGot
<1>22. QED BY <1>17, <1>18, <1>19, <1>21 DEF GxInv

LEMMA GxCallKeeps ==
  ASSUME GxInv, GxCall
  PROVE  GxInv'
<1> DEFINE n == rpc.calls + 1
<1>1. /\ rpc.at = "idle"
      /\ rpc' = [rpc EXCEPT !.at = "send", !.tries = 0, !.calls = @ + 1]
      /\ dest' = (IF dest.up THEN dest ELSE Link)
      /\ client' = [client EXCEPT !.got = <<>>, !.failed = FALSE]
      /\ yy' = yy /\ resp' = resp
  BY DEF GxCall
<1>2. GxTyped /\ <<>> \in Tokens(Marks)
  BY DEF GxInv, Tokens
<1>3. n \in Nat /\ rpc' = [rpc EXCEPT !.at = "send", !.tries = 0, !.calls = n]
  BY <1>1, <1>2 DEF GxTyped
<1> HIDE DEF n
<1>4. /\ rpc' \in [at : {"idle", "send", "parse", "parsed", "decide"}, tries : Nat, calls : Nat,
                   execs : Nat] /\ rpc'.at = "send"
  BY <1>2, <1>3 DEF GxTyped
<1>5. GxRests(dest) /\ GxRests(Link)
  BY <1>1, <1>2, LinkFacts DEF GxInv, GxTyped, GxUnread, GxRests
<1>6. GxRests(dest)'
  BY <1>1, <1>5 DEF GxRests
<1>7. /\ client' \in [up : BOOLEAN, failed : BOOLEAN, got : Tokens(Marks)]
      /\ client'.got = <<>> /\ ~client'.failed
  BY <1>1, <1>2 DEF GxTyped
<1>8. GxTyped'
  BY <1>1, <1>2, <1>4, <1>6, <1>7 DEF GxTyped, GxRests
<1>9. GxUnread'
  BY <1>4, <1>6, OwnNothing DEF GxUnread, GxRests
<1>10. GxParsed' /\ GxGot'
  BY <1>4, <1>7 DEF GxParsed, GxGot
<1>11. QED BY <1>8, <1>9, <1>10 DEF GxInv

LEMMA GxSendKeeps ==
  ASSUME GxInv, NEW connected \in BOOLEAN, GxSend(connected)
  PROVE  GxInv'
<1> DEFINE n == rpc.execs + 1
           d == IF dest.up THEN dest ELSE Link
<1>1. /\ rpc.at = "send" /\ rpc' = [rpc EXCEPT !.at = "parse", !.execs = @ + 1]
      /\ dest' = [d EXCEPT !.asked = TRUE]
      /\ yy' = Parser /\ resp' = resp /\ client' = client
  BY DEF GxSend
<1>2. GxTyped
  BY DEF GxInv
<1>3. n \in Nat /\ rpc' = [rpc EXCEPT !.at = "parse", !.execs = n]
  BY <1>1, <1>2 DEF GxTyped
<1> HIDE DEF n
<1>4. /\ rpc' \in [at : {"idle", "send", "parse", "parsed", "decide"}, tries : Nat, calls : Nat,
                   execs : Nat] /\ rpc'.at = "parse"
  BY <1>2, <1>3 DEF GxTyped
<1>5. GxRests(dest) /\ GxRests(Link)
  BY <1>1, <1>2, LinkFacts DEF GxInv, GxTyped, GxUnread, GxRests
<1>6. GxRests(d)
  BY <1>5
<1> HIDE DEF d
<1>7. /\ dest' \in [up : BOOLEAN, asked : BOOLEAN, tokens : Tokens(Marks), reply : {dest'.reply},
                    gaps : Nat]
      /\ dest'.tokens = <<>>
  BY <1>1, <1>6 DEF GxRests
<1>8. client.got = <<>>
  BY <1>1 DEF GxInv, GxGot
<1>9. /\ yy' \in [at : {yy'.at}, errs : Nat, bytes : BOOLEAN, eof : 0..2]
      /\ yy'.at = "start" /\ yy'.eof = 0
  BY <1>1 DEF Parser
<1>10. GxTyped'
  BY <1>1, <1>2, <1>4, <1>7, <1>9 DEF GxTyped
<1>11. GxUnread'
  BY <1>4, <1>7, OwnNothing DEF GxUnread
<1>12. GxParsed'
  BY <1>4, <1>9 DEF GxParsed
<1>13. ParseFrom("start", <<>>) = "start" /\ Of(<<>>, RowTags) = {}
  BY ParseEmpty, OfEmpty
<1>14. GxForwarded'
  BY <1>1, <1>8, <1>9, <1>13 DEF GxForwarded
<1>15. GxGot'
  BY <1>4, <1>14 DEF GxGot
<1>16. QED BY <1>10, <1>11, <1>12, <1>15 DEF GxInv

LEMMA GxReadFailsKeeps ==
  ASSUME GxInv, NEW eof \in 1..2, GxReadFails(eof)
  PROVE  GxInv'
<1> DEFINE n == yy.errs + 1
<1>1. /\ rpc.at = "parse" /\ rpc' = [rpc EXCEPT !.at = "parsed"]
      /\ yy' = [yy EXCEPT !.eof = eof, !.errs = @ + 1]
      /\ dest' = dest /\ resp' = resp /\ client' = client
  BY DEF GxReadFails
<1>2. GxTyped /\ GxForwarded /\ eof \in 0..2 /\ eof # 0
  BY <1>1 DEF GxInv, GxGot
<1>3. n \in Nat /\ n # 0 /\ yy' = [yy EXCEPT !.eof = eof, !.errs = n]
  BY <1>1, <1>2 DEF GxTyped
<1> HIDE DEF n
<1>4. /\ yy' \in [at : {yy'.at}, errs : Nat, bytes : BOOLEAN, eof : 0..2]
      /\ yy'.errs # 0 /\ yy'.eof # 0 /\ yy'.bytes = yy.bytes
  BY <1>2, <1>3 DEF GxTyped
<1>5. /\ rpc' \in [at : {"idle", "send", "parse", "parsed", "decide"}, tries : Nat, calls : Nat,
                   execs : Nat] /\ rpc'.at = "parsed" /\ rpc'.execs = rpc.execs
  BY <1>1, <1>2 DEF GxTyped
<1>6. GxTyped'
  BY <1>1, <1>2, <1>4, <1>5 DEF GxTyped
<1>7. GxUnread'
  BY <1>1, <1>4, <1>5 DEF GxInv, GxUnread
<1>8. GxParsed'
  BY <1>4, <1>5 DEF GxParsed
<1>9. GxForwarded'
  BY <1>1, <1>2, <1>4, <1>5 DEF GxForwarded
<1>10. GxGot'
  BY <1>5, <1>9 DEF GxGot
<1>11. QED BY <1>6, <1>7, <1>8, <1>10 DEF GxInv

LEMMA GxReturnKeeps ==
  ASSUME GxInv, GxReturn
  PROVE  GxInv'
<1>1. /\ rpc.at = "parsed" /\ rpc' = [rpc EXCEPT !.at = "decide"]
      /\ report'.mask = Mask /\ report'.errs = yy.errs
      /\ resp' = [resp EXCEPT !.sets = NULL, !.params = NULL, !.msgs = NULL]
      /\ dest' = dest /\ yy' = yy /\ client' = client
  BY DEF GxReturn
<1>2. GxTyped /\ GxForwarded
  BY <1>1 DEF GxInv, GxGot
<1>3. /\ rpc' \in [at : {"idle", "send", "parse", "parsed", "decide"}, tries : Nat, calls : Nat,
                   execs : Nat] /\ rpc'.at = "decide" /\ rpc'.execs = rpc.execs
  BY <1>1, <1>2 DEF GxTyped
<1>4. "manip" \in DOMAIN resp' /\ resp'.manip = 0
  BY <1>1, <1>2 DEF GxTyped
<1>5. GxTyped'
  BY <1>1, <1>2, <1>3, <1>4 DEF GxTyped
<1>6. GxUnread'
  BY <1>1, <1>3 DEF GxInv, GxUnread
<1>7. Mask' = Mask
  BY <1>1 DEF Mask
<1>8. GxParsed'
  BY <1>1, <1>3, <1>7 DEF GxInv, GxParsed
<1>9. GxForwarded'
  BY <1>1, <1>2, <1>3 DEF GxForwarded
<1>10. GxGot'
  BY <1>3, <1>9 DEF GxGot
<1>11. QED BY <1>5, <1>6, <1>8, <1>10 DEF GxInv

\* What the destination, its link and the client do meanwhile.
LEMMA GxAroundKeeps ==
  ASSUME GxInv, DestAnswers \/ DestBreaks \/ ClientGoes
  PROVE  GxInv'
<1>1. rpc' = rpc /\ yy' = yy /\ resp' = resp /\ report' = report /\ GxTyped /\ Mask' = Mask
  BY DEF DestAnswers, DestBreaks, ClientGoes, GxInv, Mask
<1>2. ASSUME client' = client,
             dest' \in [up : BOOLEAN, asked : BOOLEAN, tokens : Tokens(Marks),
                        reply : {dest'.reply}, gaps : Nat],
             OwnTokens(dest'.tokens, rpc.execs), ~dest'.asked,
             dest.tokens = <<>> /\ ~dest.asked => dest'.tokens = <<>>
      PROVE  GxInv'
  <2>1. GxTyped'
    BY <1>1, <1>2 DEF GxTyped
  <2>2. GxUnread'
    BY <1>1, <1>2 DEF GxInv, GxUnread
  <2>3. GxParsed' /\ GxGot'
    BY <1>1, <1>2 DEF GxInv, GxParsed, GxGot, GxForwarded, GxAnswered
  <2>4. QED BY <2>1, <2>2, <2>3 DEF GxInv
<1>3. CASE DestAnswers
  <2>1. PICK kind \in Replies :
          dest' = [dest EXCEPT !.asked = FALSE, !.reply = kind,
                               !.tokens = @ \o Answer(kind, rpc.execs)]
    BY <1>3 DEF DestAnswers
  <2>2. dest.asked /\ client' = client /\ dest.tokens = <<>>
    BY <1>3 DEF DestAnswers, GxInv, GxUnread
  <2>3. kind \in {"rows", "params", "status", "bad"} /\ rpc.execs \in Nat
    BY <1>1, GxResponseAssumption DEF GxTyped
  <2> DEFINE o == Answer(kind, rpc.execs)
             joined == dest.tokens \o o
  <2>4. OwnTokens(o, rpc.execs)
    BY <2>3, GxAnswerOwn
  <2>5. dest' = [dest EXCEPT !.asked = FALSE, !.reply = kind, !.tokens = joined]
    BY <2>1
  <2> HIDE DEF o
  <2>6. joined = o /\ o \in Tokens(Marks)
    BY <2>2, <2>4 DEF OwnTokens, Tokens
  <2> HIDE DEF joined
  <2>7. /\ dest' \in [up : BOOLEAN, asked : BOOLEAN, tokens : Tokens(Marks),
                      reply : {dest'.reply}, gaps : Nat]
        /\ dest'.tokens = o /\ ~dest'.asked
    BY <1>1, <2>5, <2>6 DEF GxTyped
  <2>8. QED BY <1>2, <2>2, <2>4, <2>7
<1>4. CASE DestBreaks
  <2>1. PICK k \in 0..Len(dest.tokens) :
          dest' = [dest EXCEPT !.up = FALSE, !.asked = FALSE, !.gaps = @ + 1,
                               !.tokens = SubSeq(@, 1, k)]
    BY <1>4 DEF DestBreaks
  <2> DEFINE o == SubSeq(dest.tokens, 1, k)
             n == dest.gaps + 1
  <2>2. OwnTokens(o, rpc.execs)
    BY OwnPrefix DEF GxInv, GxUnread
  <2>3. dest.tokens = <<>> => o = <<>>
    <3>1. dest.tokens = <<>> => k = 0
      OBVIOUS
    <3>2. QED BY <3>1
  <2>4. n \in Nat /\ dest' = [dest EXCEPT !.up = FALSE, !.asked = FALSE, !.gaps = n, !.tokens = o]
    BY <1>1, <2>1 DEF GxTyped
  <2> HIDE DEF o, n
  <2>5. o \in Tokens(Marks)
    BY <2>2 DEF OwnTokens
  <2>6. /\ dest' \in [up : BOOLEAN, asked : BOOLEAN, tokens : Tokens(Marks),
                      reply : {dest'.reply}, gaps : Nat]
        /\ dest'.tokens = o /\ ~dest'.asked
    BY <1>1, <2>4, <2>5 DEF GxTyped
  <2>7. client' = client
    BY <1>4 DEF DestBreaks
  <2>8. QED BY <1>2, <2>2, <2>3, <2>6, <2>7
<1>5. CASE ClientGoes
  <2>1. client' = [client EXCEPT !.up = FALSE] /\ dest' = dest
    BY <1>5 DEF ClientGoes
  <2>2. /\ client' \in [up : BOOLEAN, failed : BOOLEAN, got : Tokens(Marks)]
        /\ client'.got = client.got /\ ~client'.up
    BY <1>1, <2>1 DEF GxTyped
  <2>3. GxTyped'
    BY <1>1, <2>1, <2>2 DEF GxTyped
  <2>4. GxUnread' /\ GxParsed'
    BY <1>1, <2>1 DEF GxInv, GxUnread, GxParsed
  <2>5. GxGot'
    BY <1>1, <2>2 DEF GxInv, GxGot, GxForwarded
  <2>6. QED BY <2>3, <2>4, <2>5 DEF GxInv
<1>6. QED BY <1>3, <1>4, <1>5

LEMMA GxStep == GxInv /\ [GxNext]_gxVars => GxInv'
<1> SUFFICES ASSUME GxInv, [GxNext]_gxVars PROVE GxInv'
  OBVIOUS
<1>1. CASE UNCHANGED gxVars
  BY <1>1 DEF gxVars, GxInv, GxTyped, GxUnread, GxParsed, GxGot, GxForwarded, GxAnswered, Mask
<1>2. CASE GxCall
  BY <1>2, GxCallKeeps
<1>3. CASE DestAnswers \/ DestBreaks \/ ClientGoes
  BY <1>3, GxAroundKeeps
<1>4. CASE GxSteps
  BY <1>4, GxSendKeeps, GxRetryKeeps, GxGivesUpKeeps, GxReadFailsKeeps, GxTooLateKeeps, GxReadKeeps,
     GxReturnKeeps, GxCompleteKeeps, GxIncompleteKeeps DEF GxSteps
<1>5. QED BY <1>1, <1>2, <1>3, <1>4 DEF GxNext

LEMMA GxOfLib == [LibNext]_libVars => [GxNext]_gxVars
  BY DEF libVars, responseVars, dataVars, LibNext, SybPart, ClientPart, GatewayPart, ReaderPart,
     ListPart, ArrayPart, ConfigPart, SocketPart, TextPart, QueuePart, ForwardPart

LEMMA GxInvShows == GxInv => GxClientWhole
<1> SUFFICES ASSUME GxInv, rpc.at = "idle", rpc.calls > 0, client.up,
                    ~(report.mask = 0 /\ report.errs > 0)
             PROVE  /\ IsSentence(client.got)
                    /\ Cardinality(Of(client.got, RowTags)) <= 1
  BY DEF GxClientWhole, Of, RowTags
<1>1. GxAnswered
  BY DEF GxInv, GxGot
<1>2. QED BY <1>1, AtMostOne DEF GxAnswered

-----------------------------------------------------------------------------
(* What a caller is answered is a sentence                                 *)

ResponsesInv == SybInv /\ SybRows /\ SybParse /\ GxInv

\* Whatever CT10 reports while xml2syb executes a call, and however it goes on, the
\* answer is a response that the grammar accepts, exactly unless a row or the list of
\* the output parameters was left half-written; and whatever the destination of the gateway
\* sends before it breaks or is late, a client that is still connected got one
\* response, of one execution (a response that does not parse is forwarded as it
\* is): for any number of result sets, rows, messages, calls, tries and breaks,
\* without statuses that are to be retried.
THEOREM EveryResponseParses ==
  ASSUME RetryStatus = {}
  PROVE  LibSpec => []ResponsesParse
<1>1. LibInit => ResponsesInv
  <2> SUFFICES ASSUME LibInit PROVE ResponsesInv
    OBVIOUS
  <2>1. SybInv /\ SybRows
    BY OneInvInit DEF OneInv
  <2>2. SybParse /\ GxInv
    BY SybParseInit, GxInitInv DEF LibInit
  <2>3. QED BY <2>1, <2>2 DEF ResponsesInv
<1>2. ResponsesInv /\ [LibNext]_libVars => ResponsesInv'
  BY SybStep, SybRowsStep, SybParseStep, SybOfLib, GxStep, GxOfLib DEF ResponsesInv
<1>3. ResponsesInv => ResponsesParse
  BY GxInvShows DEF ResponsesInv, SybParse, ResponsesParse
<1>4. QED BY <1>1, <1>2, <1>3, PTL DEF LibSpec

=============================================================================
