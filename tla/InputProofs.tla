----------------------------- MODULE InputProofs -----------------------------
(***************************************************************************)
(* Proofs about what the programs of Libraries take in: the lists that the *)
(* gateway makes of a response are those of the answer to the call, and    *)
(* what a program finds in its configuration is what the file defines.     *)
(* With the reader (MessagesProofs) and the texts of calls                 *)
(* (UtilitiesProofs), that is InputIsTrue.                                 *)
(***************************************************************************)
EXTENDS UtilitiesProofs, MessagesProofs

-----------------------------------------------------------------------------
(* The gateway: what the lists of a response are, token by token           *)

\* The numbers of the tokens with a tag, up to each of them.
Numbers(f, s, tag) ==
  f = [i \in 0..Len(s) |->
         IF i = 0 THEN <<>>
         ELSE IF s[i][1] = tag THEN Append(f[i - 1], s[i][2]) ELSE f[i - 1]]

NumbersUpTo(s, tag) == CHOOSE f : Numbers(f, s, tag)

LEMMA NumbersExist ==
  ASSUME NEW s, NEW tag, Len(s) \in Nat
  PROVE  \E f : Numbers(f, s, tag)
<1> DEFINE P(f, n) == f = [i \in 0..n |->
                             IF i = 0 THEN <<>>
                             ELSE IF s[i][1] = tag THEN Append(f[i - 1], s[i][2]) ELSE f[i - 1]]
           S == {n \in Nat : \E f : P(f, n)}
<1>1. 0 \in S
  <2> DEFINE f0 == [i \in 0..0 |-> <<>>]
  <2>1. f0 = [i \in 0..0 |->
                IF i = 0 THEN <<>>
                ELSE IF s[i][1] = tag THEN Append(f0[i - 1], s[i][2]) ELSE f0[i - 1]]
    OBVIOUS
  <2>2. P(f0, 0)
    BY <2>1
  <2>3. QED BY <2>2
<1>2. ASSUME NEW n \in Nat, n \in S PROVE n + 1 \in S
  <2>1. PICK f : P(f, n)
    BY <1>2
  <2> DEFINE last == IF s[n + 1][1] = tag THEN Append(f[n], s[n + 1][2]) ELSE f[n]
             g == [i \in 0..(n + 1) |-> IF i = n + 1 THEN last ELSE f[i]]
  <2>2. ASSUME NEW i \in 0..(n + 1)
        PROVE  g[i] = IF i = 0 THEN <<>>
                      ELSE IF s[i][1] = tag THEN Append(g[i - 1], s[i][2]) ELSE g[i - 1]
    <3>1. CASE i = n + 1
      <4>1. i # 0 /\ n \in 0..(n + 1) /\ n # n + 1 /\ i - 1 = n
        BY <3>1
      <4>2. g[i] = last /\ g[n] = f[n]
        BY <3>1, <4>1
      <4>3. QED BY <3>1, <4>1, <4>2
    <3>2. CASE i # n + 1
      <4>1. i \in 0..n
        BY <3>2
      <4>2. g[i] = f[i]
        BY <3>2
      <4>3. i # 0 => i - 1 \in 0..(n + 1) /\ i - 1 # n + 1
        BY <4>1
      <4>4. i # 0 => g[i - 1] = f[i - 1]
        BY <4>3
      <4>5. f[i] = IF i = 0 THEN <<>>
                   ELSE IF s[i][1] = tag THEN Append(f[i - 1], s[i][2]) ELSE f[i - 1]
        BY <2>1, <4>1
      <4> HIDE DEF g, P
      <4>6. QED BY <4>2, <4>4, <4>5
    <3>3. QED BY <3>1, <3>2
  <2>3. g = [i \in 0..(n + 1) |-> g[i]]
    OBVIOUS
  <2> HIDE DEF g
  <2>4. P(g, n + 1)
    BY <2>2, <2>3
  <2> HIDE DEF P
  <2>5. \E h : P(h, n + 1)
    BY <2>4
  <2>6. QED BY <2>5
<1> HIDE DEF S
<1>3. Nat \subseteq S
  BY <1>1, <1>2, AllNumbers
<1> USE DEF S
<1>4. Len(s) \in S
  BY <1>3
<1>5. QED BY <1>4 DEF Numbers

LEMMA NumbersFacts ==
  ASSUME NEW s, NEW tag, Len(s) \in Nat
  PROVE  /\ NumbersUpTo(s, tag)[0] = <<>>
         /\ \A k \in 0..(Len(s) - 1) :
              NumbersUpTo(s, tag)[k + 1] =
                IF s[k + 1][1] = tag THEN Append(NumbersUpTo(s, tag)[k], s[k + 1][2])
                ELSE NumbersUpTo(s, tag)[k]
         /\ NumbersOf(s, tag) = NumbersUpTo(s, tag)[Len(s)]
<1> DEFINE f == NumbersUpTo(s, tag)
<1>1. Numbers(f, s, tag)
  BY NumbersExist DEF NumbersUpTo
<1>2. NumbersOf(s, tag) = f[Len(s)]
  BY Zenon DEF NumbersOf, NumbersUpTo, Numbers
<1> HIDE DEF f
<1>3. \A i \in 0..Len(s) : f[i] = IF i = 0 THEN <<>>
                                  ELSE IF s[i][1] = tag THEN Append(f[i - 1], s[i][2])
                                       ELSE f[i - 1]
  BY <1>1 DEF Numbers
<1>4. f[0] = <<>>
  BY <1>3
<1>5. ASSUME NEW k \in 0..(Len(s) - 1)
      PROVE  f[k + 1] = IF s[k + 1][1] = tag THEN Append(f[k], s[k + 1][2]) ELSE f[k]
  <2>1. k + 1 \in 0..Len(s) /\ k + 1 # 0 /\ (k + 1) - 1 = k
    OBVIOUS
  <2>2. QED BY <1>3, <2>1
<1>6. QED BY <1>2, <1>4, <1>5 DEF f

\* The rows of the set under way, up to a token.
RowsUpTo(s, k) == {i \in 1..k : s[i][1] = "/ROW" /\ \A j \in i..k : s[j][1] # "SET"}
RowCount(s, k) == Cardinality(RowsUpTo(s, k))

LEMMA RowsFacts ==
  ASSUME NEW s, NEW k \in Nat
  PROVE  /\ RowCount(s, k) \in Nat
         /\ s[k + 1][1] = "SET" => RowCount(s, k + 1) = 0
         /\ s[k + 1][1] = "/ROW" => RowCount(s, k + 1) = RowCount(s, k) + 1
         /\ s[k + 1][1] \notin {"SET", "/ROW"} => RowCount(s, k + 1) = RowCount(s, k)
<1> DEFINE R == RowsUpTo(s, k)
           Q == RowsUpTo(s, k + 1)
<1>1. IsFiniteSet(R) /\ k + 1 \notin R
  <2>1. R \subseteq 1..k
    BY DEF RowsUpTo
  <2>2. IsFiniteSet(1..k)
    BY FS_Interval
  <2>3. k + 1 \notin 1..k
    OBVIOUS
  <2> HIDE DEF R
  <2>4. QED BY <2>1, <2>2, <2>3, FS_Subset
<1>2. /\ s[k + 1][1] = "SET" => Q = {}
      /\ s[k + 1][1] = "/ROW" => Q = R \cup {k + 1}
      /\ s[k + 1][1] \notin {"SET", "/ROW"} => Q = R
  <2>1. ASSUME s[k + 1][1] = "SET" PROVE Q = {}
    <3>1. \A i \in 1..(k + 1) : k + 1 \in i..(k + 1)
      OBVIOUS
    <3>2. QED BY <2>1, <3>1 DEF RowsUpTo
  <2>2. ASSUME s[k + 1][1] # "SET"
        PROVE  Q = {i \in 1..(k + 1) : i \in R \/ (i = k + 1 /\ s[k + 1][1] = "/ROW")}
    <3>1. ASSUME NEW i \in 1..k PROVE i \in Q <=> i \in R
      <4>1. (\A j \in i..(k + 1) : s[j][1] # "SET") <=> \A j \in i..k : s[j][1] # "SET"
        BY <2>2
      <4>2. QED BY <4>1 DEF RowsUpTo
    <3>2. k + 1 \in Q <=> s[k + 1][1] = "/ROW"
      <4>1. \A j \in (k + 1)..(k + 1) : s[j][1] # "SET"
        BY <2>2
      <4>2. QED BY <4>1 DEF RowsUpTo
    <3>3. Q \subseteq 1..(k + 1) /\ R \subseteq 1..k /\ k + 1 \notin 1..k
      BY DEF RowsUpTo
    <3>4. \A i \in 1..(k + 1) : i \in 1..k \/ i = k + 1
      OBVIOUS
    <3> HIDE DEF Q, R
    <3>5. QED BY <3>1, <3>2, <3>3, <3>4
  <2>3. R \subseteq 1..(k + 1) /\ k + 1 \in 1..(k + 1)
    BY DEF RowsUpTo
  <2> HIDE DEF Q, R
  <2>4. QED BY <2>1, <2>2, <2>3
<1>3. Cardinality({}) = 0 /\ Cardinality(R \cup {k + 1}) = Cardinality(R) + 1
      /\ Cardinality(R) \in Nat
  <2> HIDE DEF R
  <2>1. QED BY <1>1, FS_EmptySet, FS_AddElement, FS_CardinalityType
<1> HIDE DEF R, Q
<1>4. QED BY <1>2, <1>3 DEF RowCount, R, Q

LEMMA RowsSame ==
  ASSUME NEW s, NEW u, NEW k \in Nat, \A i \in 1..k : s[i] = u[i]
  PROVE  RowCount(s, k) = RowCount(u, k)
<1>1. ASSUME NEW i \in 1..k PROVE i \in RowsUpTo(s, k) <=> i \in RowsUpTo(u, k)
  <2>1. \A j \in i..k : s[j] = u[j]
    OBVIOUS
  <2>2. QED BY <2>1 DEF RowsUpTo
<1>2. RowsUpTo(s, k) \subseteq 1..k /\ RowsUpTo(u, k) \subseteq 1..k
  BY DEF RowsUpTo
<1>3. RowsUpTo(s, k) = RowsUpTo(u, k)
  BY <1>1, <1>2
<1>4. QED BY <1>3 DEF RowCount

LEMMA NoRows == ASSUME NEW s PROVE RowCount(s, 0) = 0
<1>1. RowsUpTo(s, 0) = {}
  BY DEF RowsUpTo
<1>2. QED BY <1>1, FS_EmptySet DEF RowCount

-----------------------------------------------------------------------------
(* The gateway: the rows that an answer counts are the rows it has         *)

\* The numbers of rows that were written are true, the status is n, and the set
\* under way has k rows.
TokensTold(s, n) ==
  \A j \in 1..Len(s) : /\ s[j][1] = "NBROWS" => s[j][2] = RowCount(s, j)
                       /\ s[j][1] = "STATUS" => s[j][2] = n
Told(a, n, k) ==
  /\ a \in Writers(Int)
  /\ TokensTold(a.out, n)
  /\ RowCount(a.out, Len(a.out)) = k

RowsBehind(k, tag) == CASE tag = "SET" -> 0 [] tag = "/ROW" -> k + 1 [] OTHER -> k

LEMMA ToldSame ==
  ASSUME NEW a, NEW n, NEW k, Told(a, n, k), NEW b \in Writers(Int), b.out = a.out
  PROVE  Told(b, n, k)
  BY DEF Told

LEMMA ToldOne ==
  ASSUME NEW a, NEW n, NEW k, Told(a, n, k), NEW t \in Token(Int),
         t[1] = "NBROWS" => t[2] = k, t[1] = "STATUS" => t[2] = n
  PROVE  Told(One(a, t), n, RowsBehind(k, t[1]))
<1> DEFINE b == One(a, t)
           s == a.out
           u == b.out
           m == Len(s)
<1>1. a \in Writers(Int) /\ TokensTold(s, n) /\ RowCount(s, m) = k
  BY DEF Told
<1>2. b \in Writers(Int) /\ u = Append(s, t)
  BY <1>1, OneFacts
<1>3. s \in Tokens(Int)
  BY <1>1 DEF Writers
<1> HIDE DEF b, s
<1>4. m \in Nat /\ Len(u) = m + 1 /\ u[m + 1] = t /\ \A i \in 1..m : u[i] = s[i]
  BY <1>2, <1>3, AppendProperties DEF Tokens
<1> HIDE DEF u
<1>5. \A j \in 0..m : RowCount(u, j) = RowCount(s, j)
  <2>1. SUFFICES ASSUME NEW j \in 0..m PROVE RowCount(u, j) = RowCount(s, j)
    OBVIOUS
  <2>2. j \in Nat /\ \A i \in 1..j : u[i] = s[i]
    BY <1>4
  <2> HIDE DEF m
  <2>3. QED BY <2>2, RowsSame
<1> HIDE DEF m
<1>6. RowCount(u, m + 1) = RowsBehind(k, t[1])
  <2>1. RowCount(u, m) = k
    BY <1>1, <1>4, <1>5
  <2>2. /\ t[1] = "SET" => RowCount(u, m + 1) = 0
        /\ t[1] = "/ROW" => RowCount(u, m + 1) = RowCount(u, m) + 1
        /\ t[1] \notin {"SET", "/ROW"} => RowCount(u, m + 1) = RowCount(u, m)
    BY <1>4, RowsFacts
  <2>3. QED BY <2>1, <2>2 DEF RowsBehind
<1>7. TokensTold(u, n)
  <2>1. SUFFICES ASSUME NEW j \in 1..(m + 1)
                 PROVE  /\ u[j][1] = "NBROWS" => u[j][2] = RowCount(u, j)
                        /\ u[j][1] = "STATUS" => u[j][2] = n
    BY <1>4 DEF TokensTold
  <2>2. CASE j = m + 1
    <3>1. t[1] = "NBROWS" => RowsBehind(k, t[1]) = k
      BY DEF RowsBehind
    <3>2. QED BY <1>4, <1>6, <2>2, <3>1
  <2>3. CASE j # m + 1
    <3>1. j \in 1..m /\ j \in 0..m
      BY <1>4, <2>3
    <3>2. u[j] = s[j] /\ RowCount(u, j) = RowCount(s, j)
      BY <1>4, <1>5, <3>1
    <3>3. QED BY <1>1, <3>1, <3>2 DEF TokensTold, m
  <2>4. QED BY <2>2, <2>3
<1>8. QED BY <1>2, <1>4, <1>6, <1>7 DEF Told, u, b

\* Tags that say nothing of rows or of the status.
Other(tag) == tag \notin {"SET", "/ROW", "NBROWS", "STATUS"}

LEMMA ToldTag ==
  ASSUME NEW a, NEW n, NEW k, Told(a, n, k), NEW tag \in Plain
  PROVE  /\ Other(tag) => Told(One(a, Tag(tag)), n, k)
         /\ tag = "SET" => Told(One(a, Tag(tag)), n, 0)
         /\ tag = "/ROW" => Told(One(a, Tag(tag)), n, k + 1)
<1> DEFINE t == Tag(tag)
<1>1. t \in Token(Int) /\ t[1] = tag
  BY PlainTag DEF Tag
<1> HIDE DEF t
<1>2. tag \notin {"NBROWS", "STATUS"} => Told(One(a, t), n, RowsBehind(k, tag))
  BY <1>1, ToldOne
<1>3. QED BY <1>2 DEF Other, RowsBehind, t

LEMMA ToldMarked ==
  ASSUME NEW a, NEW n, NEW k, Told(a, n, k), NEW tag \in Plain \cup ValueTags, NEW v \in Int,
         tag \notin {"SET", "/ROW"}, tag = "NBROWS" => v = k, tag = "STATUS" => v = n
  PROVE  Told(One(a, MarkedTag(tag, v)), n, k)
<1> DEFINE t == MarkedTag(tag, v)
<1>1. t \in Token(Int) /\ t[1] = tag /\ t[2] = v
  BY DEF MarkedTag, Token
<1> HIDE DEF t
<1>2. Told(One(a, t), n, RowsBehind(k, tag))
  BY <1>1, ToldOne
<1>3. RowsBehind(k, tag) = k
  BY DEF RowsBehind
<1>4. QED BY <1>2, <1>3 DEF t

LEMMA BeginResponseTold ==
  ASSUME NEW a, NEW n, NEW k, Told(a, n, k)
  PROVE  LET e == BeginResponseIfNotDone(a)
         IN Told(e, n, k) /\ e.sets = a.sets /\ e.rows = a.rows /\ e.setNo = a.setNo
<1> DEFINE b == [a EXCEPT !.header = TRUE]
           c == One(b, Tag("RESPONSE"))
           e == BeginResponseIfNotDone(a)
<1>1. a \in Writers(Int)
  BY DEF Told
<1>2. /\ b \in Writers(Int) /\ b.out = a.out /\ b.sets = a.sets /\ b.rows = a.rows
      /\ b.setNo = a.setNo
  BY <1>1 DEF Writers
<1>3. e = IF a.header THEN a ELSE c
  BY Zenon DEF BeginResponseIfNotDone, One
<1> HIDE DEF b, e
<1>4. Told(b, n, k) /\ "RESPONSE" \in Plain /\ Other("RESPONSE")
  BY <1>2, ToldSame DEF Plain, Other
<1>5. Told(c, n, k)
  BY <1>4, ToldTag
<1>6. c.sets = b.sets /\ c.rows = b.rows /\ c.setNo = b.setNo
  <2>1. Tag("RESPONSE") \in Token(Int)
    BY <1>4, PlainTag
  <2>2. QED BY <1>2, <2>1, OneFacts
<1> HIDE DEF c
<1>7. QED BY <1>2, <1>3, <1>5, <1>6 DEF e

LEMMA EndPreviousTold ==
  ASSUME NEW a, NEW n, NEW k, Told(a, n, k), NEW nb \in Int, a.rows => nb = k, ~a.rows => k = 0
  PROVE  Told(EndPreviousResultSet(a, nb), n, k)
<1> DEFINE b == [a EXCEPT !.rows = FALSE]
           g1 == Tag("/COLNAMES")
           g2 == Tag("ROWS")
           g3 == Tag("/ROWS")
           g4 == MarkedTag("NBROWS", nb)
           g0 == MarkedTag("NBROWS", 0)
           g5 == Tag("/SET")
           r3 == Three(b, g3, g4, g5)
           r5 == Five(a, g1, g2, g3, g0, g5)
           e == EndPreviousResultSet(a, nb)
<1>1. a \in Writers(Int) /\ b \in Writers(Int) /\ b.out = a.out
  BY DEF Writers, Told
<1>2. e = IF a.rows THEN r3 ELSE r5
  BY Zenon DEF EndPreviousResultSet, Three, Five, MarkedTag
<1>3. /\ "/COLNAMES" \in Plain /\ "ROWS" \in Plain /\ "/ROWS" \in Plain /\ "NBROWS" \in Plain
      /\ "/SET" \in Plain /\ 0 \in Int
      /\ Other("/COLNAMES") /\ Other("ROWS") /\ Other("/ROWS") /\ Other("/SET")
  BY DEF Plain, Other
<1>4. /\ g1 \in Token(Int) /\ g2 \in Token(Int) /\ g3 \in Token(Int) /\ g5 \in Token(Int)
  BY <1>3, PlainTag
<1>5. g4 \in Token(Int) /\ g0 \in Token(Int)
  BY <1>3 DEF MarkedTag, Token
<1> HIDE DEF b, e
<1>6. CASE a.rows
  <2> DEFINE b1 == One(b, g3)
             b2 == One(b1, g4)
             b3 == One(b2, g5)
  <2>1. Told(b, n, k)
    BY <1>1, ToldSame
  <2>2. Told(b1, n, k)
    BY <1>3, <2>1, ToldTag
  <2> HIDE DEF b1
  <2>3. Told(b2, n, k)
    BY <1>3, <1>6, <2>2, ToldMarked
  <2> HIDE DEF b2
  <2>4. Told(b3, n, k)
    BY <1>3, <2>3, ToldTag
  <2> HIDE DEF b3
  <2>5. r3 = b3
    <3> HIDE DEF g3, g4, g5
    <3>1. r3 = One(One(One(b, g3), g4), g5)
      BY <1>1, <1>4, <1>5, Steps
    <3>2. QED BY <3>1, Zenon DEF b3, b2, b1
  <2>6. e = b3
    BY <1>2, <1>6, <2>5
  <2>7. QED BY <2>4, <2>6 DEF e
<1>7. CASE ~a.rows
  <2> DEFINE b1 == One(a, g1)
             b2 == One(b1, g2)
             b3 == One(b2, g3)
             b4 == One(b3, g0)
             b5 == One(b4, g5)
  <2>1. Told(b1, n, k)
    BY <1>3, ToldTag
  <2> HIDE DEF b1
  <2>2. Told(b2, n, k)
    BY <1>3, <2>1, ToldTag
  <2> HIDE DEF b2
  <2>3. Told(b3, n, k)
    BY <1>3, <2>2, ToldTag
  <2> HIDE DEF b3
  <2>4. Told(b4, n, k)
    BY <1>3, <1>7, <2>3, ToldMarked
  <2> HIDE DEF b4
  <2>5. Told(b5, n, k)
    BY <1>3, <2>4, ToldTag
  <2> HIDE DEF b5
  <2>6. r5 = b5
    <3> HIDE DEF g1, g2, g3, g0, g5
    <3>1. r5 = One(One(One(One(One(a, g1), g2), g3), g0), g5)
      BY <1>1, <1>4, <1>5, Steps
    <3>2. QED BY <3>1, Zenon DEF b5, b4, b3, b2, b1
  <2>7. e = b5
    BY <1>2, <1>7, <2>6
  <2>8. QED BY <2>5, <2>7 DEF e
<1>8. QED BY <1>6, <1>7

\* The number that ends the result set of a writer is that of its rows.
TrueCount(a, k, nb) == a.sets => (a.rows => nb = k) /\ (~a.rows => k = 0)

LEMMA BeginSetTold ==
  ASSUME NEW a, NEW n, NEW k, Told(a, n, k), NEW s \in Int, NEW nb \in Int, TrueCount(a, k, nb)
  PROVE  Told(BeginResultSet(a, s, nb), n, 0)
<1> DEFINE w1 == BeginResponseIfNotDone(a)
           p == EndPreviousResultSet(w1, nb)
           w2 == IF w1.sets /\ w1.setNo # s THEN p ELSE w1
           b == [w2 EXCEPT !.sets = TRUE]
           w3 == BeginSetsIfNotDone(w2)
           w4 == [w3 EXCEPT !.setNo = s]
           e == Two(w4, Tag("SET"), Tag("COLNAMES"))
<1>1. BeginResultSet(a, s, nb) = e
  BY Zenon DEF BeginResultSet, Two
<1>2. w3 = IF w2.sets THEN w2 ELSE One(b, Tag("SETS"))
  BY Zenon DEF BeginSetsIfNotDone, One
<1>3. /\ "SETS" \in Plain /\ "SET" \in Plain /\ "COLNAMES" \in Plain
      /\ Other("SETS") /\ Other("COLNAMES")
  BY DEF Plain, Other
<1> HIDE DEF w3
<1>4. Told(w1, n, k) /\ w1.sets = a.sets /\ w1.rows = a.rows
  BY BeginResponseTold, Zenon
<1> HIDE DEF w1
<1>5. w1.sets => Told(p, n, k)
  BY <1>4, EndPreviousTold DEF TrueCount
<1> HIDE DEF p
<1>6. Told(w2, n, k)
  BY <1>4, <1>5
<1> HIDE DEF w2
<1>7. b \in Writers(Int) /\ b.out = w2.out
  BY <1>6 DEF Told, Writers
<1> HIDE DEF b
<1>8. Told(One(b, Tag("SETS")), n, k)
  BY <1>3, <1>6, <1>7, ToldSame, ToldTag
<1>9. Told(w3, n, k)
  BY <1>2, <1>6, <1>8
<1>10. w4 \in Writers(Int) /\ w4.out = w3.out
  BY <1>9 DEF Told, Writers
<1> HIDE DEF w4
<1> DEFINE c1 == One(w4, Tag("SET"))
           c2 == One(c1, Tag("COLNAMES"))
<1>11. Told(w4, n, k)
  BY <1>9, <1>10, ToldSame
<1>12. Told(c1, n, 0)
  BY <1>3, <1>11, ToldTag
<1> HIDE DEF c1
<1>13. Told(c2, n, 0)
  BY <1>3, <1>12, ToldTag
<1> HIDE DEF c2
<1>14. e = c2
  <2>1. Tag("SET") \in Token(Int) /\ Tag("COLNAMES") \in Token(Int)
    BY <1>3, PlainTag
  <2>2. e = One(One(w4, Tag("SET")), Tag("COLNAMES"))
    BY <1>10, <2>1, Steps
  <2>3. QED BY <2>2, Zenon DEF c1, c2
<1> HIDE DEF e
<1>15. QED BY <1>1, <1>13, <1>14

LEMMA ColumnValueTold ==
  ASSUME NEW a, NEW n, NEW k, Told(a, n, k), NEW v \in Int
  PROVE  Told(ColumnValue(a, v), n, k)
<1> DEFINE b1 == [a EXCEPT !.rows = TRUE, !.inRow = FALSE]
           g1 == Tag("/COLNAMES")
           g2 == Tag("ROWS")
           w1 == IF a.rows THEN a ELSE Two(b1, g1, g2)
           b2 == [w1 EXCEPT !.inRow = TRUE]
           w2 == IF w1.inRow THEN w1 ELSE One(b2, Tag("ROW"))
<1>1. ColumnValue(a, v) = One(w2, MarkedTag("VAL", v))
  BY Zenon DEF ColumnValue, One, Two, MarkedTag
<1>2. /\ "/COLNAMES" \in Plain /\ "ROWS" \in Plain /\ "ROW" \in Plain /\ "VAL" \in ValueTags
      /\ Other("/COLNAMES") /\ Other("ROWS") /\ Other("ROW")
  BY DEF Plain, ValueTags, Other
<1>3. Told(w1, n, k)
  <2>1. b1 \in Writers(Int) /\ b1.out = a.out
    BY DEF Writers, Told
  <2> HIDE DEF b1
  <2> DEFINE c1 == One(b1, g1)
             c2 == One(c1, g2)
  <2>2. Told(c1, n, k)
    BY <1>2, <2>1, ToldSame, ToldTag
  <2> HIDE DEF c1
  <2>3. Told(c2, n, k)
    BY <1>2, <2>2, ToldTag
  <2> HIDE DEF c2
  <2>4. Two(b1, g1, g2) = c2
    <3>1. g1 \in Token(Int) /\ g2 \in Token(Int)
      BY <1>2, PlainTag
    <3> HIDE DEF g1, g2
    <3>2. Two(b1, g1, g2) = One(One(b1, g1), g2)
      BY <2>1, <3>1, Steps
    <3>3. QED BY <3>2, Zenon DEF c1, c2
  <2>5. QED BY <2>3, <2>4
<1> HIDE DEF w1
<1>4. Told(w2, n, k)
  <2>1. b2 \in Writers(Int) /\ b2.out = w1.out
    BY <1>3 DEF Writers, Told
  <2> HIDE DEF b2
  <2>2. Told(One(b2, Tag("ROW")), n, k)
    BY <1>2, <1>3, <2>1, ToldSame, ToldTag
  <2>3. QED BY <1>3, <2>2
<1> HIDE DEF w2
<1>5. Told(One(w2, MarkedTag("VAL", v)), n, k)
  BY <1>2, <1>4, ToldMarked
<1>6. QED BY <1>1, <1>5

LEMMA EndColumnValuesTold ==
  ASSUME NEW a, NEW n, NEW k, Told(a, n, k)
  PROVE  Told(EndColumnValues(a), n, k + 1)
<1> DEFINE b == [a EXCEPT !.inRow = FALSE]
<1>1. EndColumnValues(a) = One(b, Tag("/ROW"))
  BY Zenon DEF EndColumnValues, One
<1>2. b \in Writers(Int) /\ b.out = a.out /\ "/ROW" \in Plain
  BY DEF Writers, Told, Plain
<1> HIDE DEF b
<1>3. QED BY <1>1, <1>2, ToldSame, ToldTag

LEMMA EndRowsTold ==
  ASSUME NEW a, NEW n, NEW k, Told(a, n, k), NEW nb \in Int, TrueCount(a, k, nb)
  PROVE  Told(EndRowsIfStarted(a, nb), n, k)
<1> DEFINE b == [a EXCEPT !.sets = FALSE]
           p == EndPreviousResultSet(b, nb)
<1>1. EndRowsIfStarted(a, nb) = IF a.sets THEN One(p, Tag("/SETS")) ELSE a
  BY Zenon DEF EndRowsIfStarted, One
<1>2. b \in Writers(Int) /\ b.out = a.out /\ b.rows = a.rows /\ "/SETS" \in Plain /\ Other("/SETS")
  BY DEF Writers, Told, Plain, Other
<1> HIDE DEF b
<1>3. ASSUME a.sets PROVE Told(One(p, Tag("/SETS")), n, k)
  <2>1. Told(b, n, k) /\ (b.rows => nb = k) /\ (~b.rows => k = 0)
    BY <1>2, <1>3, ToldSame DEF TrueCount
  <2>2. Told(p, n, k)
    BY <2>1, EndPreviousTold
  <2> HIDE DEF p
  <2>3. QED BY <1>2, <2>2, ToldTag
<1>4. QED BY <1>1, <1>3

LEMMA EndParamsTold ==
  ASSUME NEW a, NEW n, NEW k, Told(a, n, k)
  PROVE  Told(EndOutputParamsIfStarted(a), n, k)
<1> DEFINE b == [a EXCEPT !.params = FALSE]
<1>1. EndOutputParamsIfStarted(a) = IF a.params THEN One(b, Tag("/OUTPARAMS")) ELSE a
  BY Zenon DEF EndOutputParamsIfStarted, One
<1>2. b \in Writers(Int) /\ b.out = a.out /\ "/OUTPARAMS" \in Plain /\ Other("/OUTPARAMS")
  BY DEF Writers, Told, Plain, Other
<1> HIDE DEF b
<1>3. QED BY <1>1, <1>2, ToldSame, ToldTag

LEMMA ListsClosedTold ==
  ASSUME NEW a, NEW n, NEW k, Told(a, n, k), NEW nb \in Int, TrueCount(a, k, nb)
  PROVE  Told(ListsClosed(a, nb), n, k)
<1> DEFINE h == BeginResponseIfNotDone(a)
           r == EndRowsIfStarted(h, nb)
<1>1. ListsClosed(a, nb) = EndOutputParamsIfStarted(r)
  BY Zenon DEF ListsClosed
<1>2. Told(h, n, k) /\ h.sets = a.sets /\ h.rows = a.rows
  BY BeginResponseTold, Zenon
<1> HIDE DEF h
<1>3. Told(r, n, k)
  BY <1>2, EndRowsTold DEF TrueCount
<1> HIDE DEF r
<1>4. QED BY <1>1, <1>3, EndParamsTold

LEMMA BeginParamsTold ==
  ASSUME NEW a, NEW n, NEW k, Told(a, n, k), NEW nb \in Int, TrueCount(a, k, nb)
  PROVE  Told(BeginOutputParams(a, nb), n, k)
<1> DEFINE h == BeginResponseIfNotDone(a)
           e == EndRowsIfStarted(h, nb)
           b == [e EXCEPT !.params = TRUE]
<1>1. BeginOutputParams(a, nb) = IF e.params THEN e ELSE One(b, Tag("OUTPARAMS"))
  BY Zenon DEF BeginOutputParams, One
<1>2. Told(h, n, k) /\ h.sets = a.sets /\ h.rows = a.rows
  BY BeginResponseTold, Zenon
<1> HIDE DEF h
<1>3. Told(e, n, k)
  BY <1>2, EndRowsTold DEF TrueCount
<1> HIDE DEF e
<1>4. b \in Writers(Int) /\ b.out = e.out /\ "OUTPARAMS" \in Plain /\ Other("OUTPARAMS")
  BY <1>3 DEF Writers, Told, Plain, Other
<1> HIDE DEF b
<1>5. Told(One(b, Tag("OUTPARAMS")), n, k)
  BY <1>3, <1>4, ToldSame, ToldTag
<1>6. QED BY <1>1, <1>3, <1>5

LEMMA MessagesTold ==
  ASSUME NEW a, NEW n, NEW k, Told(a, n, k), NEW nb \in Int, NEW v \in Int
  PROVE  /\ TrueCount(a, k, nb) => Told(BeginMsg(a, nb), n, k)
         /\ Told(WriteMsg(a, v), n, k) /\ Told(EndMsg(a), n, k)
         /\ Told(ParamValue(a, v), n, k) /\ Told(ColumnName(a), n, k)
<1>1. /\ "MSGLIST" \in Plain /\ "/MSGLIST" \in Plain /\ "COL" \in Plain /\ Other("MSGLIST")
      /\ Other("/MSGLIST") /\ Other("COL") /\ "MSG" \in ValueTags /\ "PARAM" \in ValueTags
  BY DEF Plain, ValueTags, Other
<1>2. ASSUME TrueCount(a, k, nb) PROVE Told(BeginMsg(a, nb), n, k)
  <2>1. BeginMsg(a, nb) = One(ListsClosed(a, nb), Tag("MSGLIST"))
    BY Zenon DEF BeginMsg, One, ListsClosed
  <2>2. Told(ListsClosed(a, nb), n, k)
    BY <1>2, ListsClosedTold
  <2>3. QED BY <1>1, <2>1, <2>2, ToldTag
<1>3. WriteMsg(a, v) = One(a, MarkedTag("MSG", v)) /\ ParamValue(a, v) = One(a, MarkedTag("PARAM", v))
  BY Zenon DEF WriteMsg, ParamValue, One, MarkedTag
<1>4. EndMsg(a) = One(a, Tag("/MSGLIST")) /\ ColumnName(a) = One(a, Tag("COL"))
  BY Zenon DEF EndMsg, ColumnName, One
<1>5. Told(WriteMsg(a, v), n, k) /\ Told(ParamValue(a, v), n, k)
  BY <1>1, <1>3, ToldMarked
<1>6. Told(EndMsg(a), n, k) /\ Told(ColumnName(a), n, k)
  BY <1>1, <1>4, ToldTag
<1>7. QED BY <1>2, <1>5, <1>6

LEMMA EndResponseTold ==
  ASSUME NEW a, NEW n \in Int, NEW k, Told(a, n, k), NEW nb \in Int, TrueCount(a, k, nb)
  PROVE  TokensTold(EndResponse(a, n, 0, nb).out, n)
<1> DEFINE c == ListsClosed(a, nb)
           t1 == MarkedTag("STATUS", n)
           t2 == Tag("/RESPONSE")
           t3 == MarkedTag("EOT", 0)
           r1 == One(c, t1)
           r2 == One(r1, t2)
           r3 == One(r2, t3)
<1>1. EndResponse(a, n, 0, nb) = Three(c, t1, t2, t3)
  <2>1. ~(0 <= -1)
    OBVIOUS
  <2>2. QED BY <2>1, ZenonT(60) DEF EndResponse, Three, ListsClosed, MarkedTag, Tag
<1>2. Told(c, n, k)
  BY ListsClosedTold
<1> HIDE DEF c
<1>3. /\ "STATUS" \in Plain /\ "/RESPONSE" \in Plain /\ "EOT" \in ValueTags /\ Other("/RESPONSE")
      /\ 0 \in Int
  BY DEF Plain, ValueTags, Other
<1>4. t1 \in Token(Int) /\ t2 \in Token(Int) /\ t3 \in Token(Int)
  BY <1>3, PlainTag DEF MarkedTag, Token
<1>5. Three(c, t1, t2, t3) = r3
  <2> HIDE DEF t1, t2, t3
  <2>1. Three(c, t1, t2, t3) = One(One(One(c, t1), t2), t3)
    BY <1>2, <1>4, Steps DEF Told
  <2>2. QED BY <2>1, Zenon DEF r1, r2, r3
<1>6. Told(r1, n, k)
  BY <1>2, <1>3, ToldMarked
<1> HIDE DEF r1
<1>7. Told(r2, n, k)
  BY <1>3, <1>6, ToldTag
<1> HIDE DEF r2
<1>8. Told(r3, n, k)
  BY <1>3, <1>7, ToldMarked
<1> HIDE DEF r3
<1>9. QED BY <1>1, <1>5, <1>8 DEF Told

LEMMA FreshTold == ASSUME NEW n PROVE Told(FreshWriter, n, 0)
<1>1. FreshWriter \in Writers(Int) /\ FreshWriter.out = <<>>
  BY FreshFacts DEF FreshWriter
<1>2. Len(<<>>) = 0
  OBVIOUS
<1>3. RowCount(<<>>, 0) = 0
  BY NoRows
<1>4. QED BY <1>1, <1>2, <1>3 DEF Told, TokensTold

\* What a destination counts in an answer is what it has.
LEMMA AnswerTold ==
  ASSUME NEW n \in Nat, NEW kind \in {"rows", "params", "status", "bad"}
  PROVE  TokensTold(Answer(kind, n), n)
<1> DEFINE f == BeginResultSet(FreshWriter, 1, 0)
           named == ColumnName(f)
           v == ColumnValue(named, n)
           v2 == ColumnValue(v, n)
           row == EndColumnValues(v2)
           g == BeginResultSet(row, 2, 1)
           second == ColumnName(g)
           b == BeginMsg(second, 1)
           m == WriteMsg(b, n)
           e == EndMsg(m)
           o == BeginOutputParams(FreshWriter, 0)
           p == ParamValue(o, n)
<1>1. n \in Int /\ 0 \in Int /\ 1 \in Int /\ 2 \in Int /\ 1 # 2
  OBVIOUS
<1>2. /\ Told(FreshWriter, n, 0) /\ Stands(FreshWriter, "start")
      /\ TrueCount(FreshWriter, 0, 0) /\ TrueCount(FreshWriter, 0, 1)
  BY FreshTold, FreshStands DEF TrueCount, FreshWriter
<1>3. CASE kind = "rows"
  <2>1. Answer(kind, n) = EndResponse(e, n, 0, 0).out
    BY <1>3, Zenon DEF Answer
  <2>2. Told(f, n, 0) /\ Stands(f, "names") /\ f.setNo = 1
    BY <1>1, <1>2, BeginSetTold, BeginSetStands
  <2> HIDE DEF f
  <2>3. Told(named, n, 0) /\ Stands(named, "columns") /\ named.setNo = 1
    BY <1>1, <2>2, MessagesTold, ColumnNameStands
  <2> HIDE DEF named
  <2>4. Told(v, n, 0) /\ Stands(v, "values") /\ v.setNo = 1
    BY <1>1, <2>3, ColumnValueTold, ColumnValueStands
  <2> HIDE DEF v
  <2>5. Told(v2, n, 0) /\ Stands(v2, "values") /\ v2.setNo = 1
    BY <1>1, <2>4, ColumnValueTold, ColumnValueStands
  <2> HIDE DEF v2
  <2>6. Told(row, n, 1) /\ Stands(row, "rows") /\ row.setNo = 1
    <3>1. Told(row, n, 0 + 1) /\ 0 + 1 = 1
      BY <2>5, EndColumnValuesTold
    <3>2. Stands(row, "rows") /\ row.setNo = 1
      BY <2>5, EndColumnValuesStands
    <3> HIDE DEF row
    <3>3. QED BY <3>1, <3>2
  <2> HIDE DEF row
  <2>7. Told(g, n, 0) /\ Stands(g, "names")
    <3>1. TrueCount(row, 1, 1)
      BY <2>6 DEF TrueCount, Stands
    <3>2. Told(g, n, 0)
      BY <1>1, <2>6, <3>1, BeginSetTold
    <3>3. Stands(g, "names")
      BY <1>1, <2>6, BeginSetStands
    <3>4. QED BY <3>2, <3>3
  <2> HIDE DEF g
  <2>8. Told(second, n, 0) /\ Stands(second, "columns")
    BY <1>1, <2>7, MessagesTold, ColumnNameStands
  <2> HIDE DEF second
  <2>9. Told(b, n, 0) /\ Stands(b, "msgs")
    <3>1. TrueCount(second, 0, 1)
      BY <2>8 DEF TrueCount, Stands
    <3>2. Told(b, n, 0)
      BY <1>1, <2>8, <3>1, MessagesTold
    <3>3. Stands(b, "msgs")
      BY <1>1, <2>8, BeginMsgStands DEF Composing
    <3>4. QED BY <3>2, <3>3
  <2> HIDE DEF b
  <2>10. Told(m, n, 0) /\ Stands(m, "more msgs")
    BY <1>1, <2>9, MessagesTold, WriteMsgStands
  <2> HIDE DEF m
  <2>11. Told(e, n, 0) /\ Stands(e, "totals")
    BY <1>1, <2>10, MessagesTold, EndMsgStands
  <2> HIDE DEF e
  <2>12. TrueCount(e, 0, 0)
    BY <2>11 DEF TrueCount, Stands
  <2>13. QED BY <1>1, <2>1, <2>11, <2>12, EndResponseTold
<1>4. CASE kind = "params"
  <2>1. Answer(kind, n) = EndResponse(p, n, 0, 0).out
    BY <1>4, Zenon DEF Answer
  <2>2. Told(o, n, 0) /\ Stands(o, "params")
    BY <1>1, <1>2, BeginParamsTold, BeginParamsStands
  <2> HIDE DEF o
  <2>3. Told(p, n, 0) /\ Stands(p, "values of params")
    BY <1>1, <2>2, MessagesTold, ParamValueStands
  <2> HIDE DEF p
  <2>4. TrueCount(p, 0, 0)
    BY <2>3 DEF TrueCount, Stands
  <2>5. QED BY <1>1, <2>1, <2>3, <2>4, EndResponseTold
<1>5. CASE kind = "status"
  <2>1. Answer(kind, n) = EndResponse(FreshWriter, n, 0, 0).out
    BY <1>5, Zenon DEF Answer
  <2>2. QED BY <1>1, <1>2, <2>1, EndResponseTold
<1>6. CASE kind = "bad"
  <2> DEFINE t1 == Tag("RESPONSE")
             t2 == Tag("ROW")
             t3 == <<"VAL", n>>
             t4 == <<"STATUS", n>>
             t5 == Tag("/RESPONSE")
             t6 == Tag("EOT")
             s == <<t1, t2, t3, t4, t5, t6>>
  <2>1. Answer(kind, n) = s
    BY <1>6, Zenon DEF Answer
  <2>2. /\ t1[1] = "RESPONSE" /\ t2[1] = "ROW" /\ t3[1] = "VAL" /\ t4[1] = "STATUS" /\ t4[2] = n
        /\ t5[1] = "/RESPONSE" /\ t6[1] = "EOT"
    BY DEF Tag
  <2> HIDE DEF t1, t2, t3, t4, t5, t6
  <2>3. Len(s) = 6 /\ s[1] = t1 /\ s[2] = t2 /\ s[3] = t3 /\ s[4] = t4 /\ s[5] = t5 /\ s[6] = t6
    OBVIOUS
  <2> HIDE DEF s
  <2>4. ASSUME NEW i \in 1..6
        PROVE  s[i][1] # "NBROWS" /\ (s[i][1] = "STATUS" => s[i][2] = n)
    <3>1. i = 1 \/ i = 2 \/ i = 3 \/ i = 4 \/ i = 5 \/ i = 6
      OBVIOUS
    <3>2. QED BY <2>2, <2>3, <3>1
  <2>5. TokensTold(s, n)
    BY <2>3, <2>4 DEF TokensTold
  <2>6. QED BY <2>1, <2>5
<1>7. QED BY <1>3, <1>4, <1>5, <1>6

-----------------------------------------------------------------------------
(* The gateway: what a token makes of the lists                            *)

\* The lists of a response: of values, of rows, and of result sets with their counts.
ValueLists == Seq(Marks)
RowLists == Seq(ValueLists)
SetLists == Seq(RowLists \X Marks)

\* The pointers to them.
ValuePtr == SUBSET ValueLists
RowPtr == SUBSET RowLists
SetPtr == SUBSET SetLists
NamePtr == SUBSET Seq({"column"})

Resps ==
  [sets : SetPtr, names : NamePtr, rows : RowPtr, row : ValuePtr, msgs : ValuePtr,
   params : ValuePtr, nbRows : Marks, status : Marks, capture : BOOLEAN, manip : Nat]

LEMMA AppendedFacts ==
  ASSUME NEW S, NEW pointer \in SUBSET Seq(S), NEW e \in S
  PROVE  Appended(pointer, e) \in SUBSET Seq(S)
  BY AppendProperties DEF Appended

LEMMA PointedFacts ==
  ASSUME NEW S, NEW pointer \in SUBSET Seq(S)
  PROVE  /\ Pointed(pointer) \in Seq(S)
         /\ pointer # NULL => Pointed(pointer) \in pointer
<1>1. <<>> \in Seq(S)
  OBVIOUS
<1>2. pointer # {} => (CHOOSE x \in pointer : TRUE) \in pointer
  OBVIOUS
<1>3. QED BY <1>1, <1>2, Zenon DEF Pointed, NULL

LEMMA PointedIs == ASSUME NEW x PROVE Pointed({x}) = x /\ Pointed(NULL) = <<>>
  BY DEF Pointed, NULL

LEMMA ListsExist ==
  /\ NewPyList \in SetPtr /\ NewPyList \in RowPtr
  /\ NewPyList \in ValuePtr /\ NewPyList \in NamePtr
  /\ NULL \in SetPtr /\ NULL \in RowPtr
  /\ NULL \in ValuePtr /\ NULL \in NamePtr
  /\ 0 \in Marks /\ -995 \in Marks
<1>1. <<>> \in SetLists /\ <<>> \in RowLists /\ <<>> \in ValueLists /\ <<>> \in Seq({"column"})
  BY DEF SetLists, RowLists, ValueLists
<1>2. 0 \in Marks /\ -995 \in Marks
  BY DEF Marks
<1>3. QED BY <1>1, <1>2, Zenon DEF NewPyList, NULL, SetPtr, RowPtr, ValuePtr, NamePtr

LEMMA NewRespTyped == NewResp \in Resps
<1>1. NULL \in SetPtr /\ NULL \in RowPtr /\ NULL \in ValuePtr
      /\ NULL \in NamePtr /\ 0 \in Marks /\ -995 \in Marks
  BY ListsExist
<1>2. QED BY <1>1 DEF NewResp, Resps

LEMMA NotedTyped ==
  ASSUME NEW r \in Resps, NEW wrong \in BOOLEAN
  PROVE  /\ Noted(r, wrong) \in Resps
         /\ Noted(r, wrong).manip = 0 => ~wrong
         /\ ~wrong => Noted(r, wrong) = r
  BY DEF Noted, Resps

\* What a callback that finds nothing wrong makes of the lists.
Fills(r, f, tag, v) ==
  IF tag = "RESPONSE"
  THEN /\ f.capture = TRUE /\ f.msgs = NewPyList /\ f.sets = NewPyList
       /\ f.params = NULL /\ f.rows = NULL
  ELSE /\ f.capture = r.capture
       /\ f.msgs = IF tag = "MSG" THEN Appended(r.msgs, v) ELSE r.msgs
       /\ f.params = IF tag = "PARAM" /\ r.capture
                     THEN Appended(IF r.params = NULL THEN NewPyList ELSE r.params, v)
                     ELSE r.params
       /\ f.status = IF tag = "STATUS" THEN v ELSE r.status
       /\ f.nbRows = CASE tag = "NBROWS" -> v [] tag \in {"SET", "/SET"} -> 0
                       [] OTHER -> r.nbRows
       /\ f.rows = CASE tag = "SET" -> NewPyList [] tag = "/SET" -> NULL
                     [] tag = "/ROW" -> Appended(r.rows, Pointed(r.row)) [] OTHER -> r.rows
       /\ f.sets = IF tag = "/SET" THEN Appended(r.sets, <<Pointed(r.rows), r.nbRows>>)
                   ELSE r.sets
       /\ tag = "/SET" => r.rows # NULL

LEMMA CallbackFills ==
  ASSUME NEW r \in Resps, r.manip = 0, NEW token \in Token(Marks)
  PROVE  /\ Callback(r, token) \in Resps
         /\ Callback(r, token).manip = 0 => Fills(r, Callback(r, token), token[1], token[2])
<1> DEFINE tag == token[1]
           v == token[2]
           c == Callback(r, token)
<1>1. v \in Marks
  BY DEF Token
<1> HIDE DEF tag, v, c
<1>2. CASE tag = "RESPONSE"
  <2> DEFINE f == [NewResp EXCEPT !.sets = NewPyList, !.msgs = NewPyList, !.capture = TRUE]
  <2>1. c = f
    BY <1>2, Zenon DEF Callback, ParseBegin, c, tag
  <2>0. NewPyList \in SetPtr /\ NewPyList \in ValuePtr
    BY ListsExist
  <2>2. f \in Resps
    BY <2>0, NewRespTyped DEF Resps
  <2>3. Fills(r, f, tag, v)
    BY <1>2 DEF Fills, NewResp
  <2> HIDE DEF f
  <2>4. QED BY <2>1, <2>2, <2>3 DEF c, tag, v
<1>3. CASE tag = "SET"
  <2> DEFINE wrong == r.names # NULL \/ r.rows # NULL
             b == Noted(r, wrong)
             f == [b EXCEPT !.names = NewPyList, !.rows = NewPyList, !.nbRows = 0]
  <2>1. c = f
    BY <1>3 DEF Callback, ResultSetBegin, c, tag
  <2>2. b \in Resps /\ (b.manip = 0 => b = r)
    BY NotedTyped
  <2> HIDE DEF b
  <2>0. NewPyList \in NamePtr /\ NewPyList \in RowPtr /\ 0 \in Marks
    BY ListsExist
  <2>3. f \in Resps /\ f.manip = b.manip
    BY <2>0, <2>2 DEF Resps
  <2>4. b = r => Fills(r, f, tag, v)
    BY <1>3, <2>2 DEF Fills, Resps
  <2> HIDE DEF f
  <2>5. QED BY <2>1, <2>2, <2>3, <2>4 DEF c, tag, v
<1>4. CASE tag = "COL"
  <2> DEFINE b == Noted(r, r.names = NULL)
             names == Appended(b.names, "column")
             f == [b EXCEPT !.names = names]
  <2>1. c = f
    BY <1>4 DEF Callback, AddColName, c, tag
  <2>2. b \in Resps /\ (b.manip = 0 => b = r)
    BY NotedTyped
  <2> HIDE DEF b
  <2>3. names \in NamePtr
    BY <2>2, AppendedFacts DEF Resps, NamePtr
  <2> HIDE DEF names
  <2>4. f \in Resps /\ f.manip = b.manip
    BY <2>2, <2>3 DEF Resps
  <2>5. b = r => Fills(r, f, tag, v)
    BY <1>4, <2>2 DEF Fills, Resps
  <2> HIDE DEF f
  <2>6. QED BY <2>1, <2>2, <2>4, <2>5 DEF c, tag, v
<1>5. CASE tag = "ROW"
  <2> DEFINE b == Noted(r, r.row # NULL)
             f == [b EXCEPT !.row = NewPyList]
  <2>1. c = f
    BY <1>5 DEF Callback, RowBegin, c, tag
  <2>2. b \in Resps /\ (b.manip = 0 => b = r)
    BY NotedTyped
  <2> HIDE DEF b
  <2>3. f \in Resps /\ f.manip = b.manip
    BY <2>2, ListsExist DEF Resps
  <2>4. b = r => Fills(r, f, tag, v)
    BY <1>5, <2>2 DEF Fills, Resps
  <2> HIDE DEF f
  <2>5. QED BY <2>1, <2>2, <2>3, <2>4 DEF c, tag, v
<1>6. CASE tag = "VAL"
  <2> DEFINE b == Noted(r, r.row = NULL)
             row == Appended(b.row, v)
             f == [b EXCEPT !.row = row]
  <2>1. c = f
    BY <1>6 DEF Callback, AddRowElem, c, tag, v
  <2>2. b \in Resps /\ (b.manip = 0 => b = r)
    BY NotedTyped
  <2> HIDE DEF b
  <2>3. row \in ValuePtr
    BY <1>1, <2>2, AppendedFacts DEF Resps, ValueLists, ValuePtr
  <2> HIDE DEF row
  <2>4. f \in Resps /\ f.manip = b.manip
    BY <2>2, <2>3 DEF Resps
  <2>5. b = r => Fills(r, f, tag, v)
    BY <1>6, <2>2 DEF Fills, Resps
  <2> HIDE DEF f
  <2>6. QED BY <2>1, <2>2, <2>4, <2>5 DEF c, tag, v
<1>7. CASE tag = "/ROW"
  <2> DEFINE rows == Appended(r.rows, Pointed(r.row))
             f == [r EXCEPT !.rows = rows, !.row = NULL]
  <2>1. c = IF NULL \in {r.rows, r.row} THEN Noted(r, TRUE) ELSE f
    BY <1>7 DEF Callback, RowEnd, c, tag
  <2>2. Noted(r, TRUE) \in Resps /\ Noted(r, TRUE).manip # 0
    BY NotedTyped
  <2>3. rows \in RowPtr
    <3>1. Pointed(r.row) \in ValueLists
      BY PointedFacts DEF Resps, ValueLists, ValuePtr
    <3>2. QED BY <3>1, AppendedFacts DEF Resps, RowLists, RowPtr
  <2>4. Fills(r, [r EXCEPT !.rows = Appended(r.rows, Pointed(r.row)), !.row = NULL], tag, v)
    BY <1>7 DEF Fills, Resps
  <2> HIDE DEF rows
  <2>0. NULL \in ValuePtr
    BY ListsExist
  <2>5. f \in Resps
    BY <2>0, <2>3 DEF Resps
  <2>6. Fills(r, f, tag, v)
    BY <2>4 DEF rows
  <2> HIDE DEF f
  <2>7. QED BY <2>1, <2>2, <2>5, <2>6 DEF c, tag, v
<1>8. CASE tag = "NBROWS"
  <2> DEFINE f == [r EXCEPT !.nbRows = v]
  <2>1. c = f
    BY <1>8 DEF Callback, c, tag, v
  <2>2. f \in Resps
    BY <1>1 DEF Resps
  <2>3. Fills(r, f, tag, v)
    BY <1>8 DEF Fills, Resps
  <2> HIDE DEF f
  <2>4. QED BY <2>1, <2>2, <2>3 DEF c, tag, v
<1>9. CASE tag = "/SET"
  <2> DEFINE set == <<Pointed(r.rows), r.nbRows>>
             sets == Appended(r.sets, set)
             f == [r EXCEPT !.sets = sets, !.names = NULL, !.rows = NULL, !.nbRows = 0]
  <2>1. c = IF NULL \in {r.names, r.rows, r.sets} THEN Noted(r, TRUE) ELSE f
    BY <1>9 DEF Callback, ResultSetEnd, c, tag
  <2>2. Noted(r, TRUE) \in Resps /\ Noted(r, TRUE).manip # 0
    BY NotedTyped
  <2>3. sets \in SetPtr
    <3>1. set \in RowLists \X Marks
      <4>1. Pointed(r.rows) \in RowLists
        BY PointedFacts DEF Resps, RowLists, RowPtr
      <4>2. QED BY <4>1 DEF Resps
    <3> HIDE DEF set
    <3>2. QED BY <3>1, AppendedFacts DEF Resps, SetLists, SetPtr
  <2> HIDE DEF set
  <2>4. r.rows # NULL =>
          Fills(r, [r EXCEPT !.sets = Appended(r.sets, set), !.names = NULL, !.rows = NULL,
                             !.nbRows = 0], tag, v)
    BY <1>9 DEF Fills, Resps, set
  <2> HIDE DEF sets
  <2>0. NULL \in NamePtr /\ NULL \in RowPtr /\ 0 \in Marks
    BY ListsExist
  <2>5. f \in Resps
    BY <2>0, <2>3 DEF Resps
  <2>6. r.rows # NULL => Fills(r, f, tag, v)
    BY <2>4 DEF sets
  <2> HIDE DEF f
  <2>7. QED BY <2>1, <2>2, <2>5, <2>6 DEF c, tag, v
<1>10. CASE tag = "PARAM"
  <2> DEFINE old == IF r.params = NULL THEN NewPyList ELSE r.params
             outs == Appended(old, v)
             f == [r EXCEPT !.params = outs]
  <2>1. c = IF ~r.capture THEN r ELSE f
    BY <1>10 DEF Callback, AddParam, c, tag, v
  <2>2. outs \in ValuePtr
    <3>1. old \in ValuePtr
      BY ListsExist DEF Resps
    <3> HIDE DEF old
    <3>2. QED BY <1>1, <3>1, AppendedFacts DEF ValueLists, ValuePtr
  <2>3. r.capture => Fills(r, [r EXCEPT !.params = Appended(old, v)], tag, v)
    BY <1>10 DEF Fills, Resps
  <2>4. ~r.capture => Fills(r, r, tag, v)
    BY <1>10 DEF Fills
  <2> HIDE DEF outs
  <2>5. f \in Resps
    BY <2>2 DEF Resps
  <2>6. r.capture => Fills(r, f, tag, v)
    BY <2>3 DEF outs
  <2> HIDE DEF f
  <2>7. QED BY <2>1, <2>4, <2>5, <2>6 DEF c, tag, v
<1>11. CASE tag = "MSG"
  <2> DEFINE b == Noted(r, r.msgs = NULL)
             msgs == Appended(b.msgs, v)
             f == [b EXCEPT !.msgs = msgs]
  <2>1. c = f
    BY <1>11 DEF Callback, AddMsg, c, tag, v
  <2>2. b \in Resps /\ (b.manip = 0 => b = r)
    BY NotedTyped
  <2> HIDE DEF b
  <2>3. msgs \in ValuePtr
    BY <1>1, <2>2, AppendedFacts DEF Resps, ValueLists, ValuePtr
  <2>4. Fills(r, [r EXCEPT !.msgs = Appended(r.msgs, v)], tag, v)
    BY <1>11 DEF Fills, Resps
  <2>5. b = r => Fills(r, f, tag, v)
    BY <2>4
  <2> HIDE DEF msgs
  <2>6. f \in Resps /\ f.manip = b.manip
    BY <2>2, <2>3 DEF Resps
  <2> HIDE DEF f
  <2>7. QED BY <2>1, <2>2, <2>5, <2>6 DEF c, tag, v
<1>12. CASE tag = "STATUS"
  <2> DEFINE f == [r EXCEPT !.status = v]
  <2>1. c = f
    BY <1>12 DEF Callback, c, tag, v
  <2>2. f \in Resps
    BY <1>1 DEF Resps
  <2>3. Fills(r, f, tag, v)
    BY <1>12 DEF Fills, Resps
  <2> HIDE DEF f
  <2>4. QED BY <2>1, <2>2, <2>3 DEF c, tag, v
<1>13. CASE tag \notin {"RESPONSE", "SET", "COL", "ROW", "VAL", "/ROW", "NBROWS", "/SET", "PARAM",
                       "MSG", "STATUS"}
  <2>1. c = r
    BY <1>13 DEF Callback, c, tag
  <2>2. Fills(r, r, tag, v)
    BY <1>13 DEF Fills
  <2>3. QED BY <2>1, <2>2 DEF c, tag, v
<1>14. QED BY <1>2, <1>3, <1>4, <1>5, <1>6, <1>7, <1>8, <1>9, <1>10, <1>11, <1>12, <1>13

\* A token that is accepted, and where.
LEMMA RuleSource ==
  ASSUME NEW r \in Rules \cup Sync, r[1] \notin Skipping
  PROVE  /\ r[1] = "start" => r[2] = "RESPONSE"
         /\ r[2] = "RESPONSE" => r[1] = "start"
         /\ r[1] = "closing" => r[2] = "/SET"
         /\ r[2] = "/SET" => r[1] = "closing"
         /\ r[2] = "/RESPONSE" => r[1] = "end"
         /\ r[2] = "EOT" => r[1] = "eot"
<1>1. PICK a, b, c : r = <<a, b, c>>
  <2>1. CASE r \in FixedRules
    BY <2>1, Zenon DEF FixedRules
  <2>2. CASE r \in OpenRules
    BY <2>2, Zenon DEF OpenRules
  <2>3. CASE r \in Sync
    BY <2>3, Zenon DEF Sync
  <2>4. QED BY <2>1, <2>2, <2>3, RulesAre
<1>2. r[1] = a /\ r[2] = b /\ r[3] = c
  BY <1>1
<1>3. /\ a = "start" <=> b = "RESPONSE"
      /\ a = "closing" <=> b = "/SET"
      /\ b = "/RESPONSE" => a = "end"
      /\ b = "EOT" => a = "eot"
  <2>1. CASE <<a, b, c>> \in FixedRules
    <3>1. a = "start" <=> b = "RESPONSE"
      BY <2>1 DEF FixedRules
    <3>2. a = "closing" <=> b = "/SET"
      BY <2>1 DEF FixedRules
    <3>3. b = "/RESPONSE" => a = "end"
      BY <2>1 DEF FixedRules
    <3>4. b = "EOT" => a = "eot"
      BY <2>1 DEF FixedRules
    <3>5. QED BY <3>1, <3>2, <3>3, <3>4
  <2>2. CASE <<a, b, c>> \in OpenRules
    <3>1. /\ b \in {"OUTPARAMS", "MSGLIST", "TOTALROWS", "STATUS"}
          /\ a \in {"response", "results", "trailer", "totals"}
      BY <2>2 DEF OpenRules
    <3>2. QED BY <3>1
  <2>3. CASE <<a, b, c>> \in Sync
    <3>1. a \in Skipping
      BY <2>3 DEF Sync, Skipping
    <3>2. QED BY <1>2, <3>1
  <2>4. QED BY <1>1, <2>1, <2>2, <2>3, RulesAre
<1>4. QED BY <1>2, <1>3

LEMMA BehindTells ==
  ASSUME NEW tag
  PROVE  /\ Behind(tag) = "closing" <=> tag = "NBROWS"
         /\ Behind(tag) = "end" <=> tag = "STATUS"
         /\ Behind(tag) = "eot" <=> tag = "/RESPONSE"
         /\ Behind(tag) = "done" <=> tag = "EOT"
         /\ Behind(tag) # "start" /\ Behind(tag) \notin Skipping
<1>1. Behind(tag) = "closing" <=> tag = "NBROWS"
  BY DEF Behind
<1>2. Behind(tag) = "end" <=> tag = "STATUS"
  BY DEF Behind
<1>3. Behind(tag) = "eot" <=> tag = "/RESPONSE"
  BY DEF Behind
<1>4. Behind(tag) = "done" <=> tag = "EOT"
  BY DEF Behind
<1>5. Behind(tag) # "start" /\ Behind(tag) \notin Skipping
  BY DEF Behind, Skipping
<1>6. QED BY <1>1, <1>2, <1>3, <1>4, <1>5

\* A token that is accepted behind another one.
LEMMA AcceptedTells ==
  ASSUME NEW state, state \notin Skipping, NEW tag, Accepted(state, tag)
  PROVE  /\ Shift(state, tag) = Behind(tag)
         /\ state = "start" <=> tag = "RESPONSE"
         /\ state = "closing" <=> tag = "/SET"
         /\ tag = "/RESPONSE" => state = "end"
         /\ tag = "EOT" => state = "eot"
<1>1. PICK r \in Rules \cup Sync : r[1] = state /\ r[2] = tag /\ r[3] = Shift(state, tag)
  BY ShiftIs
<1>2. QED BY <1>1, RuleSource, RuleTarget

-----------------------------------------------------------------------------
(* The gateway: the lists of a response are those of its answer            *)

\* The result sets that are complete are those whose rows were counted, but for
\* one whose count came last; each has as many rows as it says.
SetsListed(sets, r, s, k) ==
  LET counts == [i \in 1..Len(sets) |-> sets[i][2]]
  IN /\ NumbersUpTo(s, "NBROWS")[k] =
          IF s[k][1] = "NBROWS" THEN Append(counts, r.nbRows) ELSE counts
     /\ \A i \in 1..Len(sets) : Len(sets[i][1]) = sets[i][2]

\* The lists of r are those of the first k tokens of s, whose status is n.
ListsAre(r, s, n, k) ==
  /\ r.capture = TRUE
  /\ r.msgs = {NumbersUpTo(s, "MSG")[k]}
  /\ \/ r.params = {NumbersUpTo(s, "PARAM")[k]}
     \/ r.params = NULL /\ NumbersUpTo(s, "PARAM")[k] = <<>>
  /\ \E sets \in SetLists : r.sets = {sets} /\ SetsListed(sets, r, s, k)
  /\ \A rows \in r.rows : Len(rows) = RowCount(s, k)
  /\ s[k][1] = "NBROWS" => r.nbRows = RowCount(s, k)
  /\ s[k][1] \in {"STATUS", "/RESPONSE", "EOT"} => r.status = n

LEMMA AppendedIs == ASSUME NEW x, NEW e PROVE Appended({x}, e) = {Append(x, e)}
  BY DEF Appended

LEMMA ListsBegin ==
  ASSUME NEW r, NEW f, NEW s \in Tokens(Marks), NEW n, NEW v, Len(s) >= 1, s[1][1] = "RESPONSE",
         Fills(r, f, "RESPONSE", v)
  PROVE  ListsAre(f, s, n, 1)
<1>1. Len(s) \in Nat /\ 0 \in 0..(Len(s) - 1) /\ 0 + 1 = 1
  BY DEF Tokens
<1>2. \A tag \in {"MSG", "PARAM", "NBROWS"} : NumbersUpTo(s, tag)[1] = <<>>
  <2>1. SUFFICES ASSUME NEW tag \in {"MSG", "PARAM", "NBROWS"} PROVE NumbersUpTo(s, tag)[1] = <<>>
    OBVIOUS
  <2>2. NumbersUpTo(s, tag)[0] = <<>>
    BY <1>1, NumbersFacts
  <2>3. NumbersUpTo(s, tag)[0 + 1] = NumbersUpTo(s, tag)[0]
    BY <1>1, NumbersFacts
  <2>4. QED BY <1>1, <2>2, <2>3
<1>3. /\ f.capture = TRUE /\ f.msgs = {<<>>} /\ f.sets = {<<>>} /\ f.params = NULL /\ f.rows = {}
  BY DEF Fills, NewPyList, NULL
<1>4. SetsListed(<<>>, f, s, 1) /\ <<>> \in SetLists
  <2>1. [i \in 1..Len(<<>>) |-> <<>>[i][2]] = <<>>
    OBVIOUS
  <2>2. \A i \in 1..Len(<<>>) : FALSE
    OBVIOUS
  <2>3. <<>> \in SetLists
    BY DEF SetLists
  <2>4. QED BY <1>2, <2>1, <2>2, <2>3 DEF SetsListed
<1>5. \E sets \in SetLists : f.sets = {sets} /\ SetsListed(sets, f, s, 1)
  BY <1>3, <1>4
<1>6. QED BY <1>2, <1>3, <1>5 DEF ListsAre

\* The counts of a list of result sets grow with it.
LEMMA MarksAppended ==
  ASSUME NEW old, NEW sets, Len(old) \in Nat, Len(sets) = Len(old) + 1,
         \A i \in 1..Len(old) : sets[i] = old[i]
  PROVE  [i \in 1..Len(sets) |-> sets[i][2]]
           = Append([i \in 1..Len(old) |-> old[i][2]], sets[Len(old) + 1][2])
<1> DEFINE counts == [i \in 1..Len(old) |-> old[i][2]]
           counted == [i \in 1..Len(sets) |-> sets[i][2]]
           t == sets[Len(old) + 1][2]
           S == {sets[i][2] : i \in 1..Len(sets)}
<1>1. \A i \in 1..Len(old) : i \in 1..Len(sets) /\ old[i][2] = sets[i][2]
  OBVIOUS
<1>2. \A i \in 1..Len(sets) : sets[i][2] \in S
  OBVIOUS
<1>3. t \in S
  BY <1>2
<1> HIDE DEF S, t
<1>4. counts \in Seq(S) /\ Len(counts) = Len(old)
  BY <1>1, <1>2
<1>5. counted \in Seq(S) /\ Len(counted) = Len(counts) + 1
  BY <1>2, <1>4
<1>6. \A i \in 1..Len(counts) : counted[i] = counts[i]
  BY <1>1, <1>4
<1>7. counted[Len(counted)] = t
  <2>1. Len(old) + 1 \in 1..Len(sets)
    OBVIOUS
  <2>2. counted[Len(old) + 1] = t
    BY <2>1 DEF t
  <2> HIDE DEF counted
  <2>3. QED BY <1>4, <1>5, <2>2
<1> HIDE DEF counts, counted
<1>8. Append(counts, t) = counted
  BY <1>3, <1>4, <1>5, <1>6, <1>7, AppendIs
<1>9. QED BY <1>8 DEF counts, counted, t

LEMMA ListsStep ==
  ASSUME NEW r \in Resps, NEW f, NEW s \in Tokens(Marks), NEW n, TokensTold(s, n),
         NEW k \in 1..(Len(s) - 1), ListsAre(r, s, n, k),
         Fills(r, f, s[k + 1][1], s[k + 1][2]), s[k + 1][1] # "RESPONSE",
         s[k][1] = "NBROWS" <=> s[k + 1][1] = "/SET",
         s[k + 1][1] = "/RESPONSE" => s[k][1] = "STATUS",
         s[k + 1][1] = "EOT" => s[k][1] = "/RESPONSE"
  PROVE  ListsAre(f, s, n, k + 1)
<1> DEFINE tag == s[k + 1][1]
           v == s[k + 1][2]
           m == NumbersUpTo(s, "MSG")
           p == NumbersUpTo(s, "PARAM")
           c == NumbersUpTo(s, "NBROWS")
<1>1. /\ Len(s) \in Nat /\ k \in 0..(Len(s) - 1) /\ k \in Nat /\ k + 1 \in 1..Len(s)
      /\ k + 1 \in Nat
  BY DEF Tokens
<1>2. /\ m[k + 1] = IF tag = "MSG" THEN Append(m[k], v) ELSE m[k]
      /\ p[k + 1] = IF tag = "PARAM" THEN Append(p[k], v) ELSE p[k]
      /\ c[k + 1] = IF tag = "NBROWS" THEN Append(c[k], v) ELSE c[k]
  BY <1>1, NumbersFacts
<1>3. /\ tag = "SET" => RowCount(s, k + 1) = 0
      /\ tag = "/ROW" => RowCount(s, k + 1) = RowCount(s, k) + 1
      /\ tag \notin {"SET", "/ROW"} => RowCount(s, k + 1) = RowCount(s, k)
  BY <1>1, RowsFacts
<1>4. /\ tag = "NBROWS" => v = RowCount(s, k + 1)
      /\ tag = "STATUS" => v = n
  BY <1>1 DEF TokensTold
<1>5. Fills(r, f, tag, v) /\ tag # "RESPONSE"
  OBVIOUS
<1>6. /\ s[k][1] = "NBROWS" <=> tag = "/SET"
      /\ tag = "/RESPONSE" => s[k][1] = "STATUS"
      /\ tag = "EOT" => s[k][1] = "/RESPONSE"
      /\ s[k + 1][1] = tag
  OBVIOUS
<1> HIDE DEF m, p, c, tag, v
<1>7. f.capture = TRUE /\ r.capture = TRUE
  BY <1>5 DEF Fills, ListsAre
<1>8. f.msgs = {m[k + 1]}
  <2>1. r.msgs = {m[k]}
    BY DEF ListsAre, m
  <2>2. f.msgs = IF tag = "MSG" THEN Appended(r.msgs, v) ELSE r.msgs
    BY <1>5 DEF Fills
  <2>3. Appended({m[k]}, v) = {Append(m[k], v)}
    BY AppendedIs
  <2>4. QED BY <1>2, <2>1, <2>2, <2>3
<1>9. f.params = {p[k + 1]} \/ (f.params = NULL /\ p[k + 1] = <<>>)
  <2>1. r.params = {p[k]} \/ (r.params = NULL /\ p[k] = <<>>)
    BY DEF ListsAre, p
  <2>2. f.params = IF tag = "PARAM"
                   THEN Appended(IF r.params = NULL THEN NewPyList ELSE r.params, v)
                   ELSE r.params
    BY <1>5, <1>7 DEF Fills
  <2>3. CASE r.params = {p[k]}
    <3>1. {p[k]} # NULL /\ Appended({p[k]}, v) = {Append(p[k], v)}
      BY AppendedIs DEF NULL
    <3>2. QED BY <1>2, <2>2, <2>3, <3>1
  <2>4. CASE r.params = NULL /\ p[k] = <<>>
    <3>1. Appended({<<>>}, v) = {Append(<<>>, v)} /\ NewPyList = {<<>>}
      BY AppendedIs DEF NewPyList
    <3>2. QED BY <1>2, <2>2, <2>4, <3>1
  <2>5. QED BY <2>1, <2>3, <2>4
<1>10. \A rows \in f.rows : Len(rows) = RowCount(s, k + 1)
  <2>1. SUFFICES ASSUME NEW rows \in f.rows PROVE Len(rows) = RowCount(s, k + 1)
    OBVIOUS
  <2>2. f.rows = CASE tag = "SET" -> NewPyList [] tag = "/SET" -> NULL
                   [] tag = "/ROW" -> Appended(r.rows, Pointed(r.row)) [] OTHER -> r.rows
    BY <1>5 DEF Fills
  <2>3. CASE tag = "SET"
    BY <1>3, <2>2, <2>3 DEF NewPyList
  <2>4. CASE tag = "/SET"
    BY <2>2, <2>4 DEF NULL
  <2>5. CASE tag = "/ROW"
    <3> DEFINE e == Pointed(r.row)
    <3>1. e \in ValueLists
      BY PointedFacts DEF Resps, ValueLists, ValuePtr
    <3> HIDE DEF e
    <3>2. f.rows = Appended(r.rows, e)
      BY <2>2, <2>5 DEF e
    <3>3. PICK old \in r.rows : rows = Append(old, e)
      BY <3>2 DEF Appended
    <3>4. old \in RowLists /\ Len(old) = RowCount(s, k)
      BY DEF Resps, RowPtr, ListsAre
    <3>5. Len(Append(old, e)) = Len(old) + 1
      BY <3>1, <3>4, AppendProperties DEF RowLists
    <3>6. QED BY <1>3, <2>5, <3>3, <3>4, <3>5
  <2>6. CASE tag \notin {"SET", "/SET", "/ROW"}
    <3>1. f.rows = r.rows
      BY <2>2, <2>6
    <3>2. QED BY <1>3, <2>6, <3>1 DEF ListsAre
  <2>7. QED BY <2>3, <2>4, <2>5, <2>6
<1>11. tag = "NBROWS" => f.nbRows = RowCount(s, k + 1)
  BY <1>4, <1>5 DEF Fills
<1>12. tag \in {"STATUS", "/RESPONSE", "EOT"} => f.status = n
  <2>1. f.status = IF tag = "STATUS" THEN v ELSE r.status
    BY <1>5 DEF Fills
  <2>2. tag \in {"/RESPONSE", "EOT"} => r.status = n
    BY <1>6 DEF ListsAre
  <2>3. QED BY <1>4, <2>1, <2>2
<1>13. \E sets \in SetLists : f.sets = {sets} /\ SetsListed(sets, f, s, k + 1)
  <2>1. PICK old \in SetLists : r.sets = {old} /\ SetsListed(old, r, s, k)
    BY DEF ListsAre
  <2> DEFINE counts == [i \in 1..Len(old) |-> old[i][2]]
  <2>2. /\ c[k] = IF s[k][1] = "NBROWS" THEN Append(counts, r.nbRows) ELSE counts
        /\ \A i \in 1..Len(old) : Len(old[i][1]) = old[i][2]
    BY <2>1, Zenon DEF SetsListed, c
  <2>3. f.sets = IF tag = "/SET" THEN Appended(r.sets, <<Pointed(r.rows), r.nbRows>>) ELSE r.sets
    BY <1>5 DEF Fills
  <2>4. CASE tag = "/SET"
    <3> DEFINE rows == Pointed(r.rows)
               set == <<rows, r.nbRows>>
               sets == Append(old, set)
               counted == [i \in 1..Len(sets) |-> sets[i][2]]
    <3>1. rows \in r.rows /\ rows \in RowLists
      <4>1. r.rows # NULL
        BY <1>5, <2>4 DEF Fills
      <4>2. QED BY <4>1, PointedFacts DEF Resps, RowLists, RowPtr
    <3> HIDE DEF rows
    <3>2. s[k][1] = "NBROWS" /\ Len(rows) = RowCount(s, k) /\ r.nbRows = RowCount(s, k)
      BY <1>6, <2>4, <3>1 DEF ListsAre
    <3>3. set \in RowLists \X Marks /\ set[1] = rows /\ set[2] = r.nbRows
      BY <3>1 DEF Resps
    <3> HIDE DEF set
    <3>4. f.sets = {sets}
      BY <2>1, <2>3, <2>4, AppendedIs DEF set, rows
    <3>5. /\ sets \in SetLists /\ Len(old) \in Nat /\ Len(sets) = Len(old) + 1
          /\ sets[Len(old) + 1] = set /\ \A i \in 1..Len(old) : sets[i] = old[i]
      BY <3>3, AppendProperties DEF SetLists
    <3> HIDE DEF sets
    <3>6. ASSUME NEW i \in 1..Len(sets) PROVE Len(sets[i][1]) = sets[i][2]
      <4>1. CASE i = Len(old) + 1
        BY <3>2, <3>3, <3>5, <4>1
      <4>2. CASE i # Len(old) + 1
        <5>1. i \in 1..Len(old)
          BY <3>5, <4>2
        <5>2. QED BY <2>2, <3>5, <5>1
      <4>3. QED BY <4>1, <4>2
    <3>7. counted = Append(counts, r.nbRows)
      <4>1. counted = Append(counts, sets[Len(old) + 1][2])
        BY <3>5, MarksAppended, Zenon
      <4>2. sets[Len(old) + 1][2] = r.nbRows
        BY <3>3, <3>5
      <4> HIDE DEF counts, counted
      <4>3. QED BY <4>1, <4>2
    <3>8. c[k + 1] = counted /\ s[k + 1][1] # "NBROWS"
      BY <1>2, <1>6, <2>2, <2>4, <3>2, <3>7
    <3>9. SetsListed(sets, f, s, k + 1)
      BY <3>6, <3>8, Zenon DEF SetsListed, c
    <3>10. QED BY <3>4, <3>5, <3>9
  <2>5. CASE tag # "/SET"
    <3>1. f.sets = {old} /\ s[k][1] # "NBROWS"
      BY <1>6, <2>1, <2>3, <2>5
    <3>2. tag = "NBROWS" => f.nbRows = v
      BY <1>5 DEF Fills
    <3> HIDE DEF counts
    <3>3. c[k + 1] = IF s[k + 1][1] = "NBROWS" THEN Append(counts, f.nbRows) ELSE counts
      BY <1>2, <1>6, <2>2, <3>1, <3>2
    <3>4. SetsListed(old, f, s, k + 1)
      BY <2>2, <3>3, Zenon DEF SetsListed, c, counts
    <3>5. QED BY <3>1, <3>4
  <2>6. QED BY <2>4, <2>5
<1>14. QED BY <1>6, <1>7, <1>8, <1>9, <1>10, <1>11, <1>12, <1>13 DEF ListsAre, m, p

\* What the destination sends for the execution under way, and what was read of it.
GxSent == Answer(dest.reply, rpc.execs)

GxTaken(k) ==
  /\ dest.asked => k = 0
  /\ k > 0 \/ dest.tokens # <<>> =>
       /\ dest.reply \in Replies
       /\ k + Len(dest.tokens) <= Len(GxSent)
       /\ \A i \in 1..Len(dest.tokens) : dest.tokens[i] = GxSent[k + i]

GxFilled(k) ==
  yy.errs = 0 =>
    /\ k = 0 => yy.at = "start"
    /\ k > 0 => yy.at = Behind(GxSent[k][1]) /\ ListsAre(resp, GxSent, rpc.execs, k)

GxReading ==
  /\ resp \in Resps
  /\ rpc.at = "parse" \/ (rpc.at = "parsed" /\ yy.eof = 0) =>
       \E k \in Nat : GxTaken(k) /\ GxFilled(k)

GxListed == GxReading /\ GxReportIsOwn

LEMMA GxSentIs ==
  ASSUME GxTyped, dest.reply \in Replies
  PROVE  GxSent \in Tokens(Marks) /\ TokensTold(GxSent, rpc.execs)
         /\ OwnTokens(GxSent, rpc.execs) /\ Len(GxSent) \in Nat
<1>1. dest.reply \in {"rows", "params", "status", "bad"} /\ rpc.execs \in Nat
  BY GxResponseAssumption DEF GxTyped
<1>2. OwnTokens(GxSent, rpc.execs) /\ TokensTold(GxSent, rpc.execs)
  BY <1>1, GxAnswerOwn, AnswerTold DEF GxSent
<1>3. GxSent \in Tokens(Marks)
  BY <1>2 DEF OwnTokens
<1>4. QED BY <1>2, <1>3 DEF Tokens

\* A token that is read is the next one of the answer, and the lists are filled
\* with it.
LEMMA GxReadLists ==
  ASSUME GxInv, GxListed, GxRead
  PROVE  GxListed'
<1> DEFINE token == Head(dest.tokens)
           tag == token[1]
           ok == Shift(yy.at, tag) # "error"
           to == IF ok THEN Shift(yy.at, tag) ELSE SkipFrom(yy.at)
           filled == IF ok THEN Callback(resp, token) ELSE resp
           more == IF ok THEN filled.manip - resp.manip ELSE 1
           s == GxSent
           n == rpc.execs
<1>1. /\ rpc.at = "parse" /\ dest.tokens # <<>>
      /\ yy' = [yy EXCEPT !.at = to, !.bytes = TRUE, !.errs = @ + more]
      /\ resp' = [filled EXCEPT !.manip = 0]
      /\ rpc' = (IF to = "done" THEN [rpc EXCEPT !.at = "parsed"] ELSE rpc)
      /\ dest' = [dest EXCEPT !.tokens = Tail(@)]
  BY DEF GxRead
<1>2. GxTyped /\ resp \in Resps /\ resp.manip = 0 /\ ~dest.asked
  BY <1>1 DEF GxInv, GxTyped, GxUnread, GxListed, GxReading
<1>3. PICK k \in Nat : GxTaken(k) /\ GxFilled(k)
  BY <1>1 DEF GxListed, GxReading
<1>4. /\ dest.reply \in Replies
      /\ k + Len(dest.tokens) <= Len(s)
      /\ \A i \in 1..Len(dest.tokens) : dest.tokens[i] = s[k + i]
  BY <1>1, <1>3 DEF GxTaken
<1>5. s \in Tokens(Marks) /\ TokensTold(s, n) /\ Len(s) \in Nat
  BY <1>2, <1>4, GxSentIs
<1>6. /\ dest.tokens \in Seq(Token(Marks)) /\ Len(dest.tokens) \in Nat \ {0}
      /\ token = dest.tokens[1]
      /\ Len(Tail(dest.tokens)) = Len(dest.tokens) - 1
      /\ \A i \in 1..(Len(dest.tokens) - 1) : Tail(dest.tokens)[i] = dest.tokens[i + 1]
  <2>1. dest.tokens \in Seq(Token(Marks))
    BY <1>2 DEF GxTyped, Tokens
  <2> DEFINE u == dest.tokens
             S == Token(Marks)
  <2>2. u \in Seq(S) /\ u # <<>>
    BY <1>1, <2>1
  <2> HIDE DEF u, S
  <2>3. Len(u) \in Nat \ {0} /\ Head(u) = u[1] /\ Len(Tail(u)) = Len(u) - 1
    BY <2>2
  <2>4. \A i \in 1..(Len(u) - 1) : Tail(u)[i] = u[i + 1]
    BY <2>2, HeadTailProperties
  <2>5. QED BY <2>1, <2>3, <2>4 DEF u
<1>7. token \in Token(Marks) /\ token = s[k + 1] /\ k + 1 \in 1..Len(s)
  <2>1. 1 \in 1..Len(dest.tokens)
    BY <1>6
  <2>2. dest.tokens[1] \in Token(Marks) /\ dest.tokens[1] = s[k + 1]
    BY <1>4, <1>6, <2>1
  <2>3. k + 1 \in 1..Len(s)
    BY <1>4, <1>5, <1>6
  <2>4. QED BY <1>6, <2>2, <2>3
<1>8. /\ Callback(resp, token) \in Resps
      /\ Callback(resp, token).manip = 0 => Fills(resp, Callback(resp, token), tag, token[2])
  BY <1>2, <1>7, CallbackFills
<1>9. filled \in Resps /\ (more = 0 => ok /\ filled.manip = 0) /\ more \in Nat
  <2>1. CASE ok
    <3>1. filled = Callback(resp, token)
      BY <2>1
    <3> HIDE DEF filled
    <3>2. filled \in Resps /\ filled.manip \in Nat
      BY <1>8, <3>1 DEF Resps
    <3>3. more = filled.manip
      BY <1>2, <2>1, <3>2
    <3>4. QED BY <2>1, <3>2, <3>3
  <2>2. CASE ~ok
    BY <1>2, <2>2
  <2>3. QED BY <2>1, <2>2
<1>10. ok => filled = Callback(resp, token) /\ to = Shift(yy.at, tag)
  OBVIOUS
<1> HIDE DEF filled, more, to
<1>11. resp' \in Resps /\ (filled.manip = 0 => resp' = filled)
  BY <1>1, <1>9 DEF Resps
<1>12. /\ rpc'.at \in {"parse", "parsed"} /\ rpc'.execs = n
       /\ dest'.reply = dest.reply /\ dest'.asked = dest.asked /\ dest'.tokens = Tail(dest.tokens)
       /\ yy'.at = to /\ (yy'.errs = 0 => yy.errs = 0 /\ more = 0)
  <2>1. rpc'.at \in {"parse", "parsed"} /\ rpc'.execs = n
    BY <1>1, <1>2 DEF GxTyped
  <2>2. dest'.reply = dest.reply /\ dest'.asked = dest.asked /\ dest'.tokens = Tail(dest.tokens)
    BY <1>1, <1>2 DEF GxTyped
  <2> DEFINE m == yy.errs + more
  <2>3. m \in Nat /\ (m = 0 => yy.errs = 0 /\ more = 0)
    BY <1>2, <1>9 DEF GxTyped
  <2>4. yy' = [yy EXCEPT !.at = to, !.bytes = TRUE, !.errs = m]
    BY <1>1
  <2> HIDE DEF m
  <2>5. yy'.at = to /\ yy'.errs = m
    BY <1>2, <2>4 DEF GxTyped
  <2>6. QED BY <2>1, <2>2, <2>3, <2>5
<1>13. GxSent' = s
  BY <1>12 DEF GxSent
<1> HIDE DEF s, n, ok, tag
<1>14. GxTaken(k + 1)'
  <2>1. (k + 1) + Len(dest'.tokens) <= Len(s)
    <3>1. Len(dest'.tokens) = Len(dest.tokens) - 1
      BY <1>6, <1>12
    <3> DEFINE before == Len(dest.tokens)
               after == Len(dest'.tokens)
               all == Len(s)
    <3>2. before \in Nat /\ all \in Nat /\ k + before <= all /\ after = before - 1
      BY <1>4, <1>5, <1>6, <3>1
    <3> HIDE DEF before, after, all
    <3>3. (k + 1) + after <= all
      BY <3>2
    <3>4. QED BY <3>3 DEF after, all
  <2>2. ASSUME NEW i \in 1..Len(dest'.tokens) PROVE dest'.tokens[i] = s[(k + 1) + i]
    <3>1. i \in 1..(Len(dest.tokens) - 1) /\ i + 1 \in 1..Len(dest.tokens)
          /\ k + (i + 1) = (k + 1) + i
      BY <1>6, <1>12
    <3>2. QED BY <1>4, <1>6, <1>12, <3>1
  <2>3. QED BY <1>2, <1>4, <1>12, <1>13, <2>1, <2>2 DEF GxTaken
<1>15. GxFilled(k + 1)'
  <2>1. SUFFICES ASSUME yy'.errs = 0
                 PROVE  yy'.at = Behind(s[k + 1][1]) /\ ListsAre(resp', s, n, k + 1)
    BY <1>12, <1>13 DEF GxFilled
  <2>2. yy.errs = 0 /\ ok /\ filled.manip = 0
    BY <1>9, <1>12, <2>1
  <2>3. /\ Fills(resp, resp', tag, token[2]) /\ tag = s[k + 1][1] /\ token[2] = s[k + 1][2]
        /\ yy'.at = Shift(yy.at, tag) /\ Accepted(yy.at, tag)
    BY <1>7, <1>8, <1>10, <1>11, <1>12, <2>2 DEF Accepted, ok, tag
  <2>4. CASE k = 0
    <3>1. yy.at = "start" /\ "start" \notin Skipping
      BY <1>3, <2>2, <2>4 DEF GxFilled, Skipping
    <3>2. tag = "RESPONSE" /\ yy'.at = Behind(tag)
      BY <2>3, <3>1, AcceptedTells
    <3>3. Len(s) >= 1 /\ s[1][1] = "RESPONSE" /\ k + 1 = 1
      BY <1>5, <1>7, <2>3, <2>4, <3>2
    <3>4. ListsAre(resp', s, n, 1)
      BY <1>5, <2>3, <3>2, <3>3, ListsBegin
    <3>5. QED BY <2>3, <3>2, <3>3, <3>4
  <2>5. CASE k # 0
    <3> DEFINE last == s[k][1]
    <3>1. yy.at = Behind(last) /\ ListsAre(resp, s, n, k)
      BY <1>3, <2>2, <2>5 DEF GxFilled, s, n
    <3> HIDE DEF last
    <3>2. yy.at # "start" /\ yy.at \notin Skipping
      BY <3>1, BehindTells
    <3>3. /\ yy'.at = Behind(tag) /\ tag # "RESPONSE"
          /\ yy.at = "closing" <=> tag = "/SET"
          /\ tag = "/RESPONSE" => yy.at = "end"
          /\ tag = "EOT" => yy.at = "eot"
      BY <2>3, <3>2, AcceptedTells
    <3>4. /\ last = "NBROWS" <=> tag = "/SET"
          /\ tag = "/RESPONSE" => last = "STATUS"
          /\ tag = "EOT" => last = "/RESPONSE"
      BY <3>1, <3>3, BehindTells
    <3>5. k \in 1..(Len(s) - 1)
      BY <1>5, <1>7, <2>5
    <3>6. ListsAre(resp', s, n, k + 1)
      BY <1>2, <1>5, <2>3, <3>1, <3>3, <3>4, <3>5, ListsStep DEF last
    <3>7. QED BY <2>3, <3>3, <3>6
  <2>6. QED BY <2>4, <2>5
<1>16. k + 1 \in Nat
  OBVIOUS
<1>17. GxReading'
  BY <1>11, <1>14, <1>15, <1>16 DEF GxReading
<1>18. GxReportIsOwn'
  BY <1>12 DEF GxReportIsOwn
<1>19. QED BY <1>17, <1>18 DEF GxListed

\* Behind the last token the lists are those of the whole answer.
LEMMA GxReturnLists ==
  ASSUME GxInv, GxListed, GxReturn
  PROVE  GxListed'
<1>1. /\ rpc.at = "parsed" /\ rpc' = [rpc EXCEPT !.at = "decide"]
      /\ report' = [sets |-> Pointed(resp.sets), params |-> Pointed(resp.params),
                    msgs |-> Pointed(resp.msgs), status |-> resp.status, errs |-> yy.errs,
                    mask |-> Mask]
      /\ resp' = [resp EXCEPT !.sets = NULL, !.params = NULL, !.msgs = NULL]
      /\ dest' = dest
  BY DEF GxReturn
<1>2. GxTyped /\ resp \in Resps
  BY DEF GxInv, GxListed, GxReading
<1>3. rpc'.at = "decide" /\ rpc'.execs = rpc.execs
  BY <1>1, <1>2 DEF GxTyped
<1>4. resp' \in Resps
  <2>1. NULL \in SetPtr /\ NULL \in ValuePtr
    BY ListsExist
  <2>2. QED BY <1>1, <1>2, <2>1 DEF Resps
<1>5. GxReportIsOwn'
  <2> DEFINE s == GxSent
             n == rpc.execs
  <2>1. SUFFICES ASSUME Mask = 0, yy.errs = 0
                 PROVE  /\ resp.status = n
                        /\ Pointed(resp.params) = NumbersOf(s, "PARAM")
                        /\ Pointed(resp.msgs) = NumbersOf(s, "MSG")
                        /\ [i \in DOMAIN Pointed(resp.sets) |-> Pointed(resp.sets)[i][2]]
                             = NumbersOf(s, "NBROWS")
                        /\ \A i \in DOMAIN Pointed(resp.sets) :
                             Len(Pointed(resp.sets)[i][1]) = Pointed(resp.sets)[i][2]
    BY <1>1, <1>3 DEF GxReportIsOwn, GxSent
  <2>2. yy.eof = 0 /\ yy.at = "done"
    BY <1>1, <1>2, <2>1, MaskFacts DEF GxInv, GxParsed
  <2>3. PICK k \in Nat : GxTaken(k) /\ GxFilled(k)
    BY <1>1, <2>2 DEF GxListed, GxReading
  <2>4. k > 0 /\ "done" = Behind(s[k][1]) /\ ListsAre(resp, s, n, k)
    BY <2>1, <2>2, <2>3 DEF GxFilled
  <2>5. s[k][1] = "EOT"
    BY <2>4, BehindTells
  <2>6. dest.reply \in Replies /\ k + Len(dest.tokens) <= Len(s)
    BY <2>3, <2>4 DEF GxTaken
  <2>7. OwnTokens(s, n) /\ Len(s) \in Nat
    BY <1>2, <2>6, GxSentIs
  <2>8. Len(dest.tokens) \in Nat
    BY <1>2 DEF GxTyped, Tokens
  <2> HIDE DEF s, n
  <2>9. k = Len(s)
    <3>1. k \in 1..Len(s)
      BY <2>4, <2>6, <2>7, <2>8
    <3>2. QED BY <2>5, <2>7, <3>1 DEF OwnTokens
  <2>10. \A tag \in {"PARAM", "MSG", "NBROWS"} : NumbersOf(s, tag) = NumbersUpTo(s, tag)[k]
    BY <2>7, <2>9, NumbersFacts
  <2>11. resp.status = n
    BY <2>4, <2>5 DEF ListsAre
  <2>12. Pointed(resp.params) = NumbersOf(s, "PARAM") /\ Pointed(resp.msgs) = NumbersOf(s, "MSG")
    <3> DEFINE p == NumbersUpTo(s, "PARAM")[k]
               m == NumbersUpTo(s, "MSG")[k]
    <3>1. resp.msgs = {m} /\ (resp.params = {p} \/ (resp.params = NULL /\ p = <<>>))
      BY <2>4 DEF ListsAre
    <3>2. NumbersOf(s, "PARAM") = p /\ NumbersOf(s, "MSG") = m
      BY <2>10
    <3> HIDE DEF p, m
    <3>3. Pointed({m}) = m /\ Pointed({p}) = p /\ Pointed(NULL) = <<>>
      BY PointedIs
    <3>4. QED BY <3>1, <3>2, <3>3
  <2>13. PICK sets \in SetLists : resp.sets = {sets} /\ SetsListed(sets, resp, s, k)
    BY <2>4 DEF ListsAre
  <2>14. Pointed(resp.sets) = sets /\ DOMAIN sets = 1..Len(sets)
    <3>1. Pointed({sets}) = sets
      BY PointedIs
    <3>2. sets \in Seq(RowLists \X Marks)
      BY <2>13 DEF SetLists
    <3> DEFINE S == RowLists \X Marks
    <3> HIDE DEF S
    <3>3. sets \in Seq(S)
      BY <3>2 DEF S
    <3>4. DOMAIN sets = 1..Len(sets)
      BY <3>3
    <3>5. QED BY <2>13, <3>1, <3>4
  <2>15. /\ NumbersUpTo(s, "NBROWS")[k] = [i \in 1..Len(sets) |-> sets[i][2]]
         /\ \A i \in 1..Len(sets) : Len(sets[i][1]) = sets[i][2]
    BY <2>5, <2>13 DEF SetsListed
  <2>16. QED BY <2>10, <2>11, <2>12, <2>14, <2>15
<1>6. GxReading'
  BY <1>3, <1>4 DEF GxReading
<1>7. QED BY <1>5, <1>6 DEF GxListed

\* Nothing is parsed.
LEMMA GxRestLists ==
  ASSUME GxListed, resp' = resp, rpc'.at \in {"idle", "send"} \/ (rpc'.at = "parsed" /\ yy'.eof # 0)
  PROVE  GxListed'
  BY DEF GxListed, GxReading, GxReportIsOwn

LEMMA GxSendLists ==
  ASSUME GxInv, GxListed, NEW connected \in BOOLEAN, GxSend(connected)
  PROVE  GxListed'
<1> DEFINE d == IF dest.up THEN dest ELSE Link
<1>1. /\ rpc.at = "send" /\ rpc' = [rpc EXCEPT !.at = "parse", !.execs = @ + 1]
      /\ dest' = [d EXCEPT !.asked = TRUE] /\ yy' = Parser /\ resp' = resp
  BY DEF GxSend
<1>2. GxTyped
  BY DEF GxInv
<1>3. rpc'.at = "parse"
  BY <1>1, <1>2 DEF GxTyped
<1>4. GxRests(dest) /\ GxRests(Link)
  BY <1>1, <1>2, LinkFacts DEF GxInv, GxTyped, GxUnread, GxRests
<1>5. GxRests(d)
  BY <1>4
<1> HIDE DEF d
<1>6. dest'.tokens = <<>>
  BY <1>1, <1>5 DEF GxRests
<1>7. GxTaken(0)'
  BY <1>6 DEF GxTaken
<1>8. GxFilled(0)'
  BY <1>1 DEF GxFilled, Parser
<1>9. 0 \in Nat /\ resp' \in Resps
  BY <1>1 DEF GxListed, GxReading
<1>10. GxReading' /\ GxReportIsOwn'
  BY <1>3, <1>7, <1>8, <1>9 DEF GxReading, GxReportIsOwn
<1>11. QED BY <1>10 DEF GxListed

LEMMA GxAroundLists ==
  ASSUME GxInv, GxListed, DestAnswers \/ DestBreaks \/ ClientGoes
  PROVE  GxListed'
<1>1. rpc' = rpc /\ yy' = yy /\ resp' = resp /\ report' = report /\ GxTyped
  BY DEF DestAnswers, DestBreaks, ClientGoes, GxInv
<1>2. rpc.at = "decide" /\ report.mask = 0 => ~dest.asked
  BY <1>1, MaskFacts DEF GxInv, GxParsed, GxUnread
<1>3. rpc.at = "parsed" /\ yy.eof = 0 => ~dest.asked
  BY DEF GxInv, GxUnread
<1>4. ASSUME dest'.reply = dest.reply,
             \A k \in Nat : GxTaken(k) => GxTaken(k)'
      PROVE  GxListed'
  <2>1. GxSent' = GxSent
    BY <1>1, <1>4 DEF GxSent
  <2>2. \A k \in Nat : GxFilled(k) => GxFilled(k)'
    BY <1>1, <2>1 DEF GxFilled
  <2>3. GxReading'
    BY <1>1, <1>4, <2>2 DEF GxListed, GxReading
  <2>4. GxReportIsOwn'
    BY <1>1, <1>4 DEF GxListed, GxReportIsOwn
  <2>5. QED BY <2>3, <2>4 DEF GxListed
<1>5. CASE ClientGoes
  <2>1. dest' = dest
    BY <1>5 DEF ClientGoes
  <2>2. \A k \in Nat : GxTaken(k) => GxTaken(k)'
    BY <1>1, <2>1 DEF GxTaken, GxSent
  <2>3. QED BY <1>4, <2>1, <2>2
<1>6. CASE DestBreaks
  <2> DEFINE u == dest.tokens
             S == Token(Marks)
  <2>1. PICK m \in 0..Len(dest.tokens) :
          dest' = [dest EXCEPT !.up = FALSE, !.asked = FALSE, !.gaps = @ + 1,
                               !.tokens = SubSeq(@, 1, m)]
    BY <1>6 DEF DestBreaks
  <2>2. dest'.reply = dest.reply /\ ~dest'.asked /\ dest'.tokens = SubSeq(u, 1, m)
    BY <1>1, <2>1 DEF GxTyped
  <2>3. u \in Seq(S)
    BY <1>1 DEF GxTyped, Tokens
  <2> HIDE DEF u, S
  <2>4. m \in 0..Len(u) /\ Len(u) \in Nat
    BY <2>3 DEF u
  <2>5. /\ Len(SubSeq(u, 1, m)) = m /\ \A i \in 1..m : SubSeq(u, 1, m)[i] = u[i]
        /\ u = <<>> => SubSeq(u, 1, m) = <<>>
    <3>1. \A i \in 1..m : u[i] \in S
      BY <2>3, <2>4
    <3>2. Len(SubSeq(u, 1, m)) = m /\ \A i \in 1..m : SubSeq(u, 1, m)[i] = u[i]
      BY <2>3, <2>4, <3>1
    <3>3. u = <<>> => m = 0
      BY <2>4
    <3>4. QED BY <3>2, <3>3
  <2>6. GxSent' = GxSent
    BY <1>1, <2>2 DEF GxSent
  <2>7. ASSUME NEW k \in Nat, GxTaken(k) PROVE GxTaken(k)'
    <3>1. SUFFICES ASSUME k > 0 \/ dest'.tokens # <<>>
                   PROVE  /\ dest.reply \in Replies
                          /\ k + Len(dest'.tokens) <= Len(GxSent)
                          /\ \A i \in 1..Len(dest'.tokens) : dest'.tokens[i] = GxSent[k + i]
      BY <2>2, <2>6 DEF GxTaken
    <3>2. k > 0 \/ u # <<>>
      BY <2>2, <2>5, <3>1
    <3>3. /\ dest.reply \in Replies /\ k + Len(u) <= Len(GxSent)
          /\ \A i \in 1..Len(u) : u[i] = GxSent[k + i]
      BY <2>7, <3>2 DEF GxTaken, u
    <3>4. Len(GxSent) \in Nat
      BY <1>1, <3>3, GxSentIs
    <3>5. k + m <= Len(GxSent)
      BY <2>4, <3>3, <3>4
    <3>6. QED BY <2>2, <2>4, <2>5, <3>3, <3>5
  <2>8. QED BY <1>4, <2>2, <2>7
<1>7. CASE DestAnswers
  <2>1. PICK kind \in Replies :
          dest' = [dest EXCEPT !.asked = FALSE, !.reply = kind,
                               !.tokens = @ \o Answer(kind, rpc.execs)]
    BY <1>7 DEF DestAnswers
  <2> DEFINE o == Answer(kind, rpc.execs)
             joined == dest.tokens \o o
  <2>2. dest.asked /\ dest.tokens = <<>> /\ o \in Seq(Token(Marks))
    <3>1. kind \in {"rows", "params", "status", "bad"} /\ rpc.execs \in Nat
      BY <1>1, GxResponseAssumption DEF GxTyped
    <3>2. OwnTokens(o, rpc.execs)
      BY <3>1, GxAnswerOwn
    <3>3. dest.asked /\ dest.tokens = <<>>
      BY <1>7 DEF DestAnswers, GxInv, GxUnread
    <3> HIDE DEF o
    <3>4. QED BY <3>2, <3>3 DEF OwnTokens, Tokens
  <2>3. dest' = [dest EXCEPT !.asked = FALSE, !.reply = kind, !.tokens = joined]
    BY <2>1
  <2> HIDE DEF o
  <2>4. joined = o
    BY <2>2
  <2> HIDE DEF joined
  <2>5. ~dest'.asked /\ dest'.reply = kind /\ dest'.tokens = o
    BY <1>1, <2>3, <2>4 DEF GxTyped
  <2>6. GxSent' = o
    BY <1>1, <2>5, Zenon DEF GxSent, o
  <2>7. GxReportIsOwn'
    BY <1>1, <1>2, <2>2 DEF GxReportIsOwn
  <2>8. CASE rpc.at = "parse"
    <3>1. PICK k \in Nat : GxTaken(k) /\ GxFilled(k)
      BY <2>8 DEF GxListed, GxReading
    <3>2. k = 0
      BY <2>2, <3>1 DEF GxTaken
    <3>3. GxTaken(0)'
      <4>1. Len(o) \in Nat /\ 0 + Len(o) <= Len(o) /\ \A i \in 1..Len(o) : 0 + i = i
        BY <2>2
      <4>2. QED BY <2>5, <2>6, <4>1 DEF GxTaken
    <3>4. GxFilled(0)'
      BY <1>1, <3>1, <3>2 DEF GxFilled
    <3>5. 0 \in Nat /\ resp' \in Resps
      BY <1>1 DEF GxListed, GxReading
    <3>6. GxReading'
      BY <3>3, <3>4, <3>5 DEF GxReading
    <3>7. QED BY <2>7, <3>6 DEF GxListed
  <2>9. CASE rpc.at # "parse"
    <3>1. GxReading'
      BY <1>1, <1>3, <2>2, <2>9 DEF GxListed, GxReading
    <3>2. QED BY <2>7, <3>1 DEF GxListed
  <2>10. QED BY <2>8, <2>9
<1>8. QED BY <1>5, <1>6, <1>7

LEMMA GxListedStep == GxInv /\ GxListed /\ [GxNext]_gxVars => GxListed'
<1> SUFFICES ASSUME GxInv, GxListed, [GxNext]_gxVars PROVE GxListed'
  OBVIOUS
<1>1. GxTyped
  BY DEF GxInv
<1>2. CASE UNCHANGED gxVars
  BY <1>2 DEF gxVars, GxListed, GxReading, GxTaken, GxFilled, GxSent, GxReportIsOwn
<1>3. CASE GxCall
  <2>1. rpc'.at = "send" /\ resp' = resp
    BY <1>1, <1>3 DEF GxCall, GxTyped
  <2>2. QED BY <2>1, GxRestLists
<1>4. CASE DestAnswers \/ DestBreaks \/ ClientGoes
  BY <1>4, GxAroundLists
<1>5. CASE \E connected \in BOOLEAN : GxSend(connected)
  BY <1>5, GxSendLists
<1>6. CASE \E connected \in BOOLEAN : GxRetry(connected)
  <2>1. rpc'.at \in {"idle", "send"} /\ resp' = resp
    BY <1>1, <1>6 DEF GxRetry, GxEnds, GxTyped
  <2>2. QED BY <2>1, GxRestLists
<1>7. CASE \E stat \in {DS_NOT_AVAIL, DS_RPC_TIMEOUT} : GxGivesUp(stat)
  <2>1. rpc'.at = "idle" /\ resp' = resp
    BY <1>1, <1>7 DEF GxGivesUp, GxEnds, GxTyped
  <2>2. QED BY <2>1, GxRestLists
<1>8. CASE \E eof \in 1..2 : GxReadFails(eof)
  <2>1. PICK eof \in 1..2 : GxReadFails(eof)
    BY <1>8
  <2>2. rpc'.at = "parsed" /\ yy'.eof = eof /\ resp' = resp
    BY <1>1, <2>1 DEF GxReadFails, GxTyped
  <2>3. eof # 0
    OBVIOUS
  <2>4. QED BY <2>2, <2>3, GxRestLists
<1>9. CASE GxTooLate \/ GxComplete \/ GxIncomplete
  <2>1. rpc'.at = "idle" /\ resp' = resp
    BY <1>1, <1>9 DEF GxTooLate, GxComplete, GxIncomplete, GxEnds, GxTyped
  <2>2. QED BY <2>1, GxRestLists
<1>10. CASE GxRead
  BY <1>10, GxReadLists
<1>11. CASE GxReturn
  BY <1>11, GxReturnLists
<1>12. QED
  BY <1>2, <1>3, <1>4, <1>5, <1>6, <1>7, <1>8, <1>9, <1>10, <1>11 DEF GxNext, GxSteps

LEMMA GxListedInit == GxInit => GxListed
<1>1. GxInit => resp \in Resps
  BY NewRespTyped DEF GxInit
<1>2. GxInit => GxReportIsOwn
  BY DEF GxInit, GxReportIsOwn
<1>3. QED BY <1>1, <1>2 DEF GxListed, GxReading, GxInit

\* The lists that an interceptor is given for a response that was parsed without an
\* error are those of the execution that it asked for, with nothing missing in them:
\* its parameters, its messages, its status, and for each result set as many rows as
\* the destination counted; whatever an earlier response left in the structure, and
\* however the destination broke, was late, or was asked again.
THEOREM GxReportIsOwnHolds == LibSpec => []GxReportIsOwn
<1>1. LibInit => GxInv /\ GxListed
  BY GxInitInv, GxListedInit DEF LibInit
<1>2. GxInv /\ GxListed /\ [LibNext]_libVars => (GxInv /\ GxListed)'
  BY GxStep, GxListedStep, GxOfLib
<1>3. GxListed => GxReportIsOwn
  BY DEF GxListed
<1>4. QED BY <1>1, <1>2, <1>3, PTL DEF LibSpec

-----------------------------------------------------------------------------
(* The reader, one of the parts of Libraries                               *)

\* A step of Libraries is a step of the reader, or leaves it alone.
LEMMA LexOfLib == [LibNext]_libVars => [LexNext]_lexVars
  BY DEF libVars, responseVars, dataVars, LibNext, SybPart, ClientPart, GatewayPart, ReaderPart,
     ListPart, ArrayPart, ConfigPart, SocketPart, TextPart, QueuePart, ForwardPart

\* The reader in Libraries runs as it does on its own: what is proved of LexSpec
\* holds of it.
THEOREM ReaderRuns == LibSpec => LexSpec
<1>1. LibInit => LexInit
  BY DEF LibInit
<1>2. QED BY <1>1, LexOfLib, PTL DEF LibSpec, LexSpec

-----------------------------------------------------------------------------
(* The configuration, one of the parts of Libraries                        *)

LEMMA ConfigOfLib == [LibNext]_libVars => [ConfigNext]_configVars
  BY DEF libVars, responseVars, dataVars, LibNext, SybPart, ClientPart, GatewayPart, ReaderPart,
     ListPart, ArrayPart, ConfigPart, SocketPart, TextPart, QueuePart, ForwardPart

\* The parameters that are loaded are those that the section defines, the first or
\* the last definition of each, over the earlier ones when they are to stay, and the
\* first name defined twice is kept (ucfg.c); a loop over a parameter shows the
\* values of one list, all of them, in their order (ucfg_clt.c): for files of any
\* lines and any length, and any number of openings and loops.
THEOREM ConfigIsTrueHolds == LibSpec => []ConfigIsTrue
<1>1. LibInit => CfgInv
  BY CfgInitInv DEF LibInit
<1>2. CfgInv /\ [LibNext]_libVars => CfgInv'
  BY CfgStep, ConfigOfLib
<1>3. QED BY <1>1, <1>2, CfgInvTrue, PTL DEF LibSpec

-----------------------------------------------------------------------------
(* All that the programs take in                                           *)

\* What the programs take from a stream, from a configuration or from the text of a
\* call is what is written there: the message that was written, the definitions of
\* the section, the parameters of the text, whatever was read before.
THEOREM InputIsTrueHolds == LibSpec => []InputIsTrue
<1>1. LibSpec => []ReadsWhatWasWritten
  BY ReaderRuns, ReadsWhatWasWrittenHolds
<1>2. LibSpec => []FieldsAreOwn /\ []CountIsTold /\ []KindsAreTrue
  BY FieldsAreOwnHolds, CountIsToldHolds, KindsAreTrueHolds
<1>3. ReadsWhatWasWritten /\ ConfigIsTrue /\ FieldsAreOwn /\ CountIsTold /\ KindsAreTrue => InputIsTrue
  BY DEF InputIsTrue, RpcTextIsTrue
<1>4. QED BY <1>1, <1>2, <1>3, ConfigIsTrueHolds, PTL
=============================================================================
