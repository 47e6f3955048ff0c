--------------------------- MODULE StorageProofs ----------------------------
(***************************************************************************)
(* Proofs about module Storage, for any exchanges, any of them long, and   *)
(* any number of crashes.                                                  *)
(***************************************************************************)
EXTENDS Storage, Induction, SequenceTheorems

HeadOf(e) == Piece(e, "head")
RestOf(e) == Piece(e, "rest")
NewlineOf(e) == Piece(e, "newline")

\* No text without what comes before it in its line.
Chained(s) ==
    \A i \in 1..Len(s) :
        /\ s[i].part = "rest" => i > 1 /\ s[i - 1] = HeadOf(s[i].of)
        /\ s[i].part = "newline" => i > 1 /\ s[i - 1] = RestOf(s[i].of)

\* And none without what comes after it: s is made of whole lines.
Whole(s) ==
    /\ Chained(s)
    /\ \A i \in 1..Len(s) :
        /\ s[i].part = "head" => i < Len(s) /\ s[i + 1] = RestOf(s[i].of)
        /\ s[i].part = "rest" => i < Len(s) /\ s[i + 1] = NewlineOf(s[i].of)

\* No piece is there twice.
Once(s) == \A i, j \in 1..Len(s) : s[i] = s[j] => i = j

\* What is on the medium and on its way there, but for the BufWriter.
Stream == file \o (inflight \o todo)

\* The acknowledged exchanges, and the one whose append() is under way.
Expected == IF op \in Exchanges THEN Append(promised, op) ELSE promised

\* The lines of kept are on the medium in that order.
InOrder(kept, s) ==
    \A i, j \in 1..Len(kept), p, q \in 1..Len(s) :
        s[p] = NewlineOf(kept[i]) /\ s[q] = NewlineOf(kept[j]) => (i < j <=> p < q)

\* Which buffers a backend uses, and when.
PlaceInv ==
    /\ kind # "jsonl" => todo = <<>> /\ buf = <<>> /\ inflight = <<>> /\ ~failed
    /\ kind # "sqlite" => queued = {}
    /\ kind = "sqlite" /\ op \in Exchanges => op \in queued
    /\ kind = "memory" => op = Nobody
    /\ failed => inflight = <<>> /\ faulty
    /\ todo # <<>> => op \in Large
    /\ todo # <<>> /\ buf # <<>> => todo = Line(op)
    /\ op \in Exchanges => op \in started /\ op \notin Range(promised)
    /\ queued \subseteq started
    /\ Range(promised) \subseteq started
    /\ ~up => op = Nobody /\ buf = <<>> /\ inflight = <<>> /\ ~failed /\ queued = {}

\* Lines are cut only at their end, and nothing is written twice.
LineInv ==
    /\ Chained(file)
    /\ ~failed => Chained(Stream)
    /\ Whole(buf)
    /\ Once(Stream) /\ Once(buf)
    /\ Range(Stream) \cap Range(buf) = {}
    /\ \A x \in Range(Stream) \cup Range(buf) : x.of \in started \ queued

\* An acknowledged line is on the medium; one under way is, or is on its way there
\* unless a write failed.
AckInv ==
    /\ \A e \in Range(promised) : NewlineOf(e) \in Range(file)
    /\ kind = "jsonl" /\ op \in Exchanges /\ ~failed =>
         NewlineOf(op) \in Range(Stream) \cup Range(buf)
    /\ \A i, j \in 1..Len(promised) : promised[i] = promised[j] => i = j
    /\ InOrder(Expected, file)
    /\ kind = "jsonl" =>
         \A i \in 1..fenced : \E p \in 1..synced : file[p] = NewlineOf(promised[i])

\* Without a fault, and without a long line given up, every line is whole.
Untorn ==
    \/ kind # "jsonl"
    \/ ~faulty /\ \A e \in Large \cap started : e \in Range(promised) \/ e = op

WholeInv == Untorn => Whole(Stream)

Inv == TypeOK /\ PlaceInv /\ LineInv /\ AckInv /\ WholeInv

----------------------------------------------------------------------------
\* Pieces and lines.

\* A piece is told by its exchange and its part.
LEMMA PieceFacts ==
    /\ \A e, part : Piece(e, part).of = e /\ Piece(e, part).part = part
    /\ \A x \in Pieces : /\ x = Piece(x.of, x.part) /\ x.of \in Exchanges
                         /\ x.part \in {"head", "rest", "newline"}
    /\ \A e \in Exchanges : HeadOf(e) \in Pieces /\ RestOf(e) \in Pieces /\ NewlineOf(e) \in Pieces
BY DEF Piece, Pieces, HeadOf, RestOf, NewlineOf

\* A line is a head, the rest of the text, and a newline.
LEMMA LineFacts ==
    ASSUME NEW e \in Exchanges
    PROVE  /\ Text(e) \in Seq(Pieces) /\ Len(Text(e)) = 2
           /\ Text(e)[1] = HeadOf(e) /\ Text(e)[2] = RestOf(e)
           /\ Line(e) \in Seq(Pieces) /\ Len(Line(e)) = 3
           /\ Line(e)[1] = HeadOf(e) /\ Line(e)[2] = RestOf(e) /\ Line(e)[3] = NewlineOf(e)
<1>1. /\ Text(e) \in Seq(Pieces) /\ Len(Text(e)) = 2
      /\ Text(e)[1] = HeadOf(e) /\ Text(e)[2] = RestOf(e)
  BY PieceFacts DEF Text, HeadOf, RestOf
<1>2. ASSUME NEW t \in Seq(Pieces), NEW x \in Pieces, Len(t) = 2
      PROVE  /\ Append(t, x) \in Seq(Pieces) /\ Len(Append(t, x)) = 3
             /\ Append(t, x)[1] = t[1] /\ Append(t, x)[2] = t[2] /\ Append(t, x)[3] = x
  <2>1. /\ Append(t, x) \in Seq(Pieces) /\ Len(Append(t, x)) = Len(t) + 1
        /\ \A i \in 1..Len(t) : Append(t, x)[i] = t[i]
        /\ Append(t, x)[Len(t) + 1] = x
    BY AppendProperties
  <2>2. 1 \in 1..Len(t) /\ 2 \in 1..Len(t) /\ Len(t) + 1 = 3
    BY <1>2
  <2> QED BY <2>1, <2>2
<1>3. NewlineOf(e) \in Pieces
  BY PieceFacts
<1>4. Line(e) = Append(Text(e), NewlineOf(e))
  BY DEF Line, NewlineOf
<1>5. /\ Line(e) \in Seq(Pieces) /\ Len(Line(e)) = 3
      /\ Line(e)[1] = HeadOf(e) /\ Line(e)[2] = RestOf(e) /\ Line(e)[3] = NewlineOf(e)
  <2>1. PICK t \in Seq(Pieces) : t = Text(e)
    BY <1>1
  <2>2. PICK x \in Pieces : x = NewlineOf(e)
    BY <1>3
  <2>3. Len(t) = 2 /\ t[1] = HeadOf(e) /\ t[2] = RestOf(e) /\ Line(e) = Append(t, x)
    BY <1>1, <1>4, <2>1, <2>2
  <2> QED BY <1>2, <2>2, <2>3
<1> QED BY <1>1, <1>5

----------------------------------------------------------------------------
\* load(), piece by piece.

\* One round of the reader.
ReadRound(reader, content, i) ==
    IF i = 0 THEN [line |-> <<>>, read |-> <<>>, ok |-> TRUE]
    ELSE IF content[i].part = "newline" THEN EndLine(reader)
    ELSE [reader EXCEPT !.line = Append(@, content[i])]

IsReading(f, content, n) == f = [i \in 0..n |-> ReadRound(f[i - 1], content, i)]

Reading(content) == CHOOSE f : IsReading(f, content, Len(content))

\* The loop is well defined for any number of rounds.
LEMMA ReadingExists ==
    ASSUME NEW content, NEW n \in Nat
    PROVE  \E f : IsReading(f, content, n)
<1> DEFINE S == {m \in Nat : \E f : IsReading(f, content, m)}
<1>z. \A d, e : ReadRound(d, content, 0) = ReadRound(e, content, 0)
  BY DEF ReadRound
<1>1. 0 \in S
  <2> DEFINE g == [i \in 0..0 |-> ReadRound(0, content, 0)]
  <2>1. \A i \in 0..0 : g[i] = ReadRound(g[i - 1], content, i)
    BY <1>z
  <2>2. g = [i \in 0..0 |-> g[i]]
    OBVIOUS
  <2> HIDE DEF g
  <2>3. IsReading(g, content, 0)
    BY <2>1, <2>2 DEF IsReading
  <2> QED BY <2>3
<1>2. ASSUME NEW m \in Nat, m \in S PROVE m + 1 \in S
  <2>1. PICK f : IsReading(f, content, m)
    BY <1>2
  <2> DEFINE g == [i \in 0..(m + 1) |-> IF i = m + 1 THEN ReadRound(f[m], content, m + 1) ELSE f[i]]
  <2>2. \A i \in 0..m : f[i] = ReadRound(f[i - 1], content, i)
    BY <2>1 DEF IsReading
  <2>3. \A i \in 0..(m + 1) : g[i] = ReadRound(g[i - 1], content, i)
    BY <1>z, <2>2
  <2>4. g = [i \in 0..(m + 1) |-> g[i]]
    OBVIOUS
  <2> HIDE DEF g
  <2>5. IsReading(g, content, m + 1)
    BY <2>3, <2>4 DEF IsReading
  <2> QED BY <2>5
<1> HIDE DEF S
<1>3. n \in S
  BY <1>1, <1>2, NatSetInduction
<1> QED BY <1>3 DEF S

\* load() is that loop, and what is left of the last line.
LEMMA LoadIsLoop ==
    ASSUME NEW content \in Seq(Pieces)
    PROVE  /\ \A i \in 0..Len(content) :
                Reading(content)[i] = ReadRound(Reading(content)[i - 1], content, i)
           /\ Load(content) = EndLine(Reading(content)[Len(content)])
<1>1. IsReading(Reading(content), content, Len(content))
  BY ReadingExists DEF Reading
<1>2. \A i \in 0..Len(content) :
        Reading(content)[i] = ReadRound(Reading(content)[i - 1], content, i)
  BY <1>1 DEF IsReading
<1>3. Load(content) = EndLine(Reading(content)[Len(content)])
  BY DEF Load, Reading, IsReading, ReadRound
<1> QED BY <1>2, <1>3

Readers == [line : Seq(Pieces), read : Seq(Exchanges), ok : BOOLEAN]

\* What ending a line does to the reader.
LEMMA EndLineFacts ==
    ASSUME NEW rd \in Readers
    PROVE  /\ EndLine(rd) \in Readers /\ EndLine(rd).line = <<>>
           /\ EndLine(rd).ok => rd.ok
           /\ rd.line = <<>> => EndLine(rd) = rd
           /\ rd.line # <<>> =>
                /\ rd.line[1].of \in Exchanges
                /\ EndLine(rd).read = Append(rd.read, rd.line[1].of)
                /\ EndLine(rd).ok <=> rd.ok /\ rd.line = Text(rd.line[1].of)
<1>1. rd.line \in Seq(Pieces) /\ rd.read \in Seq(Exchanges) /\ rd.ok \in BOOLEAN
  BY DEF Readers
<1>2. CASE rd.line = <<>>
  BY <1>2 DEF EndLine
<1>3. CASE rd.line # <<>>
  <2>1. Head(rd.line) = rd.line[1] /\ 1 \in 1..Len(rd.line)
    BY <1>1, <1>3
  <2>2. rd.line[1].of \in Exchanges
    BY <1>1, <2>1, PieceFacts
  <2> DEFINE e == rd.line[1].of
         good == rd.ok /\ rd.line = Text(e)
  <2>3. EndLine(rd) = [line |-> <<>>, read |-> Append(rd.read, e), ok |-> good]
    BY <1>3, <2>1 DEF EndLine
  <2>4. Append(rd.read, e) \in Seq(Exchanges)
    BY <1>1, <2>2
  <2>5. good \in BOOLEAN
    OBVIOUS
  <2> HIDE DEF good
  <2>6. EndLine(rd) \in Readers
    BY <2>3, <2>4, <2>5 DEF Readers
  <2>7. EndLine(rd).ok = good
    BY <2>3
  <2>8. EndLine(rd).ok <=> rd.ok /\ rd.line = Text(e)
    BY <2>7, Zenon DEF good
  <2> QED BY <1>3, <2>2, <2>3, <2>6, <2>8
<1> QED BY <1>2, <1>3

\* What a round does: nothing was read yet, a line ends, or one goes on.
LEMMA ReadRoundFacts ==
    ASSUME NEW content, NEW i, NEW rd
    PROVE  /\ i = 0 => ReadRound(rd, content, i) = [line |-> <<>>, read |-> <<>>, ok |-> TRUE]
           /\ i # 0 /\ content[i].part = "newline" => ReadRound(rd, content, i) = EndLine(rd)
           /\ i # 0 /\ content[i].part # "newline" /\ rd \in Readers /\ content[i] \in Pieces =>
                /\ ReadRound(rd, content, i) \in Readers
                /\ ReadRound(rd, content, i).line = Append(rd.line, content[i])
                /\ ReadRound(rd, content, i).read = rd.read
                /\ ReadRound(rd, content, i).ok = rd.ok
<1>1. i = 0 => ReadRound(rd, content, i) = [line |-> <<>>, read |-> <<>>, ok |-> TRUE]
  BY Zenon DEF ReadRound
<1>2. i # 0 /\ content[i].part = "newline" => ReadRound(rd, content, i) = EndLine(rd)
  BY Zenon DEF ReadRound
<1>3. ASSUME i # 0, content[i].part # "newline", rd \in Readers, content[i] \in Pieces
      PROVE  /\ ReadRound(rd, content, i) \in Readers
             /\ ReadRound(rd, content, i).line = Append(rd.line, content[i])
             /\ ReadRound(rd, content, i).read = rd.read
             /\ ReadRound(rd, content, i).ok = rd.ok
  <2> DEFINE longer == Append(rd.line, content[i])
  <2>1. ReadRound(rd, content, i) = [rd EXCEPT !.line = longer]
    BY <1>3, Zenon DEF ReadRound
  <2>2. longer \in Seq(Pieces)
    BY <1>3 DEF Readers
  <2> HIDE DEF longer
  <2>3. /\ [rd EXCEPT !.line = longer] \in Readers /\ [rd EXCEPT !.line = longer].line = longer
        /\ [rd EXCEPT !.line = longer].read = rd.read /\ [rd EXCEPT !.line = longer].ok = rd.ok
    BY <1>3, <2>2 DEF Readers
  <2> QED BY <2>1, <2>3 DEF longer
<1> QED BY <1>1, <1>2, <1>3

\* What a reader that met no error has read of the first k pieces of content, the
\* lines that ended among the first i: each line's exchange, in the lines' order.
Found(read, content, k, i) ==
    /\ \A m \in 1..Len(read) : \E p \in 1..k : content[p] = HeadOf(read[m])
    /\ \A m, n \in 1..Len(read), p, q \in 1..Len(content) :
         content[p] = HeadOf(read[m]) /\ content[q] = HeadOf(read[n]) => (m < n <=> p < q)
    /\ \A p \in 1..i : content[p].part = "newline" =>
         \E m \in 1..Len(read) : read[m] = content[p].of

\* The reader after i pieces: the line it is in, and what it found before.
Scanned(rd, content, i) ==
    /\ rd \in Readers
    /\ Len(rd.line) <= i
    /\ \A j \in 1..Len(rd.line) : rd.line[j] = content[i - Len(rd.line) + j]
    /\ rd.line = <<>> => i = 0 \/ content[i].part = "newline"
    /\ rd.ok => Found(rd.read, content, i - Len(rd.line), i)

\* One more exchange is found where its head is.
LEMMA FoundAppend ==
    ASSUME NEW content \in Seq(Pieces), Once(content),
           NEW read \in Seq(Exchanges), NEW e \in Exchanges,
           NEW k \in Nat, NEW i \in Nat, k + 2 = i, i <= Len(content),
           Found(read, content, k, i), content[k + 1] = HeadOf(e)
    PROVE  Found(Append(read, e), content, i, i)
<1> DEFINE new == Append(read, e)
           n == Len(read)
<1>1. /\ n \in Nat /\ Len(new) = n + 1
      /\ \A m \in 1..n : new[m] = read[m]
      /\ new[n + 1] = e
  BY AppendProperties
<1>2. \A m \in 1..(n + 1) : m \in 1..n \/ m = n + 1
  BY <1>1
<1> HIDE DEF new
<1>3. \A m \in 1..n : \E p \in 1..k : content[p] = HeadOf(new[m])
  BY <1>1 DEF Found
<1>4. k + 1 \in 1..Len(content) /\ k + 1 \in 1..i /\ Len(content) \in Nat
  OBVIOUS
<1>5. \A p \in 1..Len(content) : content[p] = HeadOf(e) => p = k + 1
  BY <1>4 DEF Once
<1>6. ASSUME NEW m \in 1..n, NEW p \in 1..Len(content), content[p] = HeadOf(new[m])
      PROVE  p <= k
  <2>1. PICK q \in 1..k : content[q] = HeadOf(new[m])
    BY <1>3
  <2>2. q \in 1..Len(content)
    BY <1>4
  <2>3. p = q
    BY <1>6, <2>1, <2>2 DEF Once
  <2> QED BY <2>3
<1>7. \A m \in 1..(n + 1) : \E p \in 1..i : content[p] = HeadOf(new[m])
  <2>1. \A m \in 1..n : \E p \in 1..i : content[p] = HeadOf(new[m])
    <3>1. \A p \in 1..k : p \in 1..i
      OBVIOUS
    <3> QED BY <1>3, <3>1
  <2>2. \E p \in 1..i : content[p] = HeadOf(new[n + 1])
    BY <1>1, <1>4
  <2> QED BY <1>2, <2>1, <2>2
<1>8. ASSUME NEW m \in 1..(n + 1), NEW l \in 1..(n + 1),
             NEW p \in 1..Len(content), NEW q \in 1..Len(content),
             content[p] = HeadOf(new[m]), content[q] = HeadOf(new[l])
      PROVE  m < l <=> p < q
  <2>1. CASE m \in 1..n /\ l \in 1..n
    BY <1>1, <1>8, <2>1 DEF Found
  <2>2. CASE m \in 1..n /\ l = n + 1
    <3>1. p <= k /\ q = k + 1
      BY <1>1, <1>5, <1>6, <1>8, <2>2
    <3> QED BY <2>2, <3>1
  <2>3. CASE m = n + 1 /\ l \in 1..n
    <3>1. q <= k /\ p = k + 1
      BY <1>1, <1>5, <1>6, <1>8, <2>3
    <3> QED BY <2>3, <3>1
  <2>4. CASE m = n + 1 /\ l = n + 1
    <3>1. q = k + 1 /\ p = k + 1
      BY <1>1, <1>5, <1>8, <2>4
    <3> QED BY <2>4, <3>1
  <2> QED BY <1>2, <2>1, <2>2, <2>3, <2>4
<1>9. ASSUME NEW p \in 1..i, content[p].part = "newline"
      PROVE  \E m \in 1..(n + 1) : new[m] = content[p].of
  <2>1. PICK m \in 1..n : read[m] = content[p].of
    BY <1>9 DEF Found
  <2>2. m \in 1..(n + 1) /\ new[m] = content[p].of
    BY <1>1, <2>1
  <2> QED BY <2>2
<1>10. Found(new, content, i, i)
  BY <1>1, <1>7, <1>8, <1>9 DEF Found
<1> QED BY <1>10 DEF new

\* At the end of a line that parses, the line's exchange is found.
LEMMA EndLineFound ==
    ASSUME NEW content \in Seq(Pieces), Once(content), NEW i \in 0..Len(content), NEW rd,
           Scanned(rd, content, i), EndLine(rd).ok
    PROVE  /\ Found(EndLine(rd).read, content, i, i)
           /\ rd.line # <<>> =>
                \E m \in 1..Len(EndLine(rd).read) : EndLine(rd).read[m] = content[i].of
<1>t. /\ rd \in Readers /\ rd.line \in Seq(Pieces) /\ rd.read \in Seq(Exchanges)
      /\ Len(rd.line) \in Nat /\ i \in Nat
  BY DEF Scanned, Readers
<1>1. rd.ok
  BY <1>t, EndLineFacts
<1>2. CASE rd.line = <<>>
  <2>1. EndLine(rd) = rd /\ Len(rd.line) = 0
    BY <1>t, <1>2, EndLineFacts
  <2> QED BY <1>1, <1>2, <1>t, <2>1 DEF Scanned
<1>3. CASE rd.line # <<>>
  <2> DEFINE e == rd.line[1].of
  <2>1. /\ e \in Exchanges /\ EndLine(rd).read = Append(rd.read, e)
        /\ rd.line = Text(e)
    BY <1>t, <1>3, EndLineFacts
  <2> HIDE DEF e
  <2>2. Len(rd.line) = 2 /\ rd.line[1] = HeadOf(e) /\ rd.line[2] = RestOf(e)
    BY <2>1, LineFacts
  <2>3. 2 <= i /\ i - 2 \in Nat
    BY <1>t, <2>2 DEF Scanned
  <2>4. content[(i - 2) + 1] = HeadOf(e) /\ content[i] = RestOf(e)
    <3>1. \A j \in 1..2 : rd.line[j] = content[(i - 2) + j]
      BY <2>2 DEF Scanned
    <3>2. (i - 2) + 2 = i
      BY <1>t
    <3> QED BY <2>2, <3>1, <3>2
  <2>5. Found(rd.read, content, i - 2, i)
    BY <1>1, <2>2 DEF Scanned
  <2>6. Found(Append(rd.read, e), content, i, i)
    <3>1. i <= Len(content) /\ (i - 2) + 2 = i
      BY <1>t
    <3> QED BY <1>t, <2>1, <2>3, <2>4, <2>5, <3>1, FoundAppend
  <2>7. content[i].of = e
    BY <2>4, PieceFacts DEF RestOf
  <2>8. \E m \in 1..Len(Append(rd.read, e)) : Append(rd.read, e)[m] = e
    <3>1. Len(Append(rd.read, e)) = Len(rd.read) + 1 /\ Append(rd.read, e)[Len(rd.read) + 1] = e
          /\ Len(rd.read) \in Nat
      BY <1>t, <2>1, AppendProperties
    <3> QED BY <3>1
  <2> QED BY <2>1, <2>6, <2>7, <2>8
<1> QED BY <1>2, <1>3

\* A round keeps it.
LEMMA ScannedStep ==
    ASSUME NEW content \in Seq(Pieces), Once(content), Chained(content),
           NEW i \in Nat, i + 1 <= Len(content), NEW rd, Scanned(rd, content, i)
    PROVE  Scanned(ReadRound(rd, content, i + 1), content, i + 1)
<1> DEFINE x == content[i + 1]
           new == ReadRound(rd, content, i + 1)
<1>t. /\ rd \in Readers /\ rd.line \in Seq(Pieces) /\ rd.read \in Seq(Exchanges)
      /\ Len(rd.line) \in Nat /\ i \in 0..Len(content) /\ Len(content) \in Nat /\ i + 1 # 0
  BY DEF Scanned, Readers
<1>x. x \in Pieces /\ i + 1 \in 1..Len(content)
  BY <1>t
<1>1. CASE x.part = "newline"
  <2>1. new = EndLine(rd)
    BY <1>1, <1>t, ReadRoundFacts
  <2>2. new \in Readers /\ new.line = <<>> /\ Len(new.line) = 0
    BY <1>t, <2>1, EndLineFacts
  <2>3. i > 0 /\ content[i] = RestOf(x.of)
    BY <1>1, <1>x DEF Chained
  <2>4. rd.line # <<>>
    <3>1. content[i].part = "rest"
      BY <2>3, PieceFacts DEF RestOf
    <3> QED BY <2>3, <3>1 DEF Scanned
  <2>5. ASSUME new.ok PROVE Found(new.read, content, i + 1, i + 1)
    <3>1. /\ Found(new.read, content, i, i)
          /\ \E m \in 1..Len(new.read) : new.read[m] = content[i].of
      BY <1>t, <2>1, <2>4, <2>5, EndLineFound
    <3>2. content[i].of = x.of
      BY <2>3, PieceFacts DEF RestOf
    <3>3. \A m \in 1..Len(new.read) : \E p \in 1..(i + 1) : content[p] = HeadOf(new.read[m])
      <4>1. \A p \in 1..i : p \in 1..(i + 1)
        OBVIOUS
      <4> QED BY <3>1, <4>1 DEF Found
    <3>4. ASSUME NEW p \in 1..(i + 1), content[p].part = "newline"
          PROVE  \E m \in 1..Len(new.read) : new.read[m] = content[p].of
      <4>1. CASE p \in 1..i
        BY <3>1, <3>4, <4>1 DEF Found
      <4>2. CASE p = i + 1
        BY <3>1, <3>2, <4>2
      <4> QED BY <4>1, <4>2
    <3> HIDE DEF new, x
    <3> QED BY <3>1, <3>3, <3>4 DEF Found
  <2> HIDE DEF new
  <2>6. (i + 1) - Len(new.line) = i + 1
    <3>1. \A n \in Nat : n = 0 => (i + 1) - n = i + 1
      OBVIOUS
    <3>2. Len(new.line) \in Nat
      BY <2>2
    <3> QED BY <2>2, <3>1, <3>2
  <2>7. \A j \in 1..Len(new.line) : new.line[j] = content[(i + 1) - Len(new.line) + j]
    BY <2>2
  <2>8. Scanned(new, content, i + 1)
    BY <1>1, <2>2, <2>5, <2>6, <2>7 DEF Scanned
  <2> QED BY <2>8 DEF new
<1>2. CASE x.part # "newline"
  <2>1. new.line = Append(rd.line, x) /\ new.read = rd.read /\ new.ok = rd.ok /\ new \in Readers
    BY <1>2, <1>t, <1>x, ReadRoundFacts
  <2>2. /\ Append(rd.line, x) \in Seq(Pieces) /\ Len(Append(rd.line, x)) = Len(rd.line) + 1
        /\ \A j \in 1..Len(rd.line) : Append(rd.line, x)[j] = rd.line[j]
        /\ Append(rd.line, x)[Len(rd.line) + 1] = x
    BY <1>t, <1>x, AppendProperties
  <2> HIDE DEF new
  <2>3. PICK n \in Nat : n = Len(rd.line)
    BY <1>t
  <2>4. /\ n <= i /\ Len(new.line) = n + 1 /\ new.line[n + 1] = x
        /\ \A j \in 1..n : new.line[j] = content[(i - n) + j]
    BY <2>1, <2>2, <2>3 DEF Scanned
  <2>5. ASSUME NEW j \in 1..(n + 1)
        PROVE  new.line[j] = content[((i + 1) - (n + 1)) + j]
    <3>1. CASE j \in 1..n
      <4>1. ((i + 1) - (n + 1)) + j = (i - n) + j
        OBVIOUS
      <4> QED BY <2>4, <3>1, <4>1
    <3>2. CASE j = n + 1
      <4>1. ((i + 1) - (n + 1)) + j = i + 1
        BY <3>2
      <4> QED BY <2>4, <3>2, <4>1
    <3> QED BY <3>1, <3>2
  <2>6. ASSUME new.ok PROVE Found(new.read, content, (i + 1) - (n + 1), i + 1)
    <3>1. Found(rd.read, content, i - n, i)
      BY <2>1, <2>3, <2>6 DEF Scanned
    <3>2. \A p \in 1..(i + 1) : content[p].part = "newline" => p \in 1..i
      BY <1>2
    <3>3. (i + 1) - (n + 1) = i - n
      OBVIOUS
    <3> QED BY <2>1, <3>1, <3>2, <3>3 DEF Found
  <2>7. n + 1 <= i + 1 /\ new.line # <<>>
    <3>1. n + 1 <= i + 1 /\ n + 1 # 0
      BY <2>4
    <3>2. new.line = <<>> => Len(new.line) = 0
      OBVIOUS
    <3> QED BY <2>4, <3>1, <3>2
  <2>8. Scanned(new, content, i + 1)
    BY <2>1, <2>4, <2>5, <2>6, <2>7 DEF Scanned
  <2> QED BY <2>8 DEF new
<1> QED BY <1>1, <1>2

\* load() of lines that are cut only at their end, and never repeated: if it meets no
\* error it returns the exchange of every line that ended, in the lines' order.
LEMMA LoadFinds ==
    ASSUME NEW content \in Seq(Pieces), Once(content), Chained(content), Load(content).ok
    PROVE  /\ Load(content).read \in Seq(Exchanges)
           /\ Found(Load(content).read, content, Len(content), Len(content))
<1> DEFINE f == Reading(content)
           S == {i \in Nat : i <= Len(content) => Scanned(f[i], content, i)}
<1>1. \A i \in 0..Len(content) : f[i] = ReadRound(f[i - 1], content, i)
  BY LoadIsLoop
<1>2. Load(content) = EndLine(f[Len(content)])
  BY LoadIsLoop
<1> HIDE DEF f
<1>3. 0 \in S
  <2>1. f[0] = [line |-> <<>>, read |-> <<>>, ok |-> TRUE]
    <3>1. f[0] = ReadRound(f[0 - 1], content, 0)
      BY <1>1
    <3>2. ReadRound(f[0 - 1], content, 0) = [line |-> <<>>, read |-> <<>>, ok |-> TRUE]
      BY Zenon DEF ReadRound
    <3> QED BY <3>1, <3>2, Zenon
  <2>2. f[0] \in Readers /\ Len(f[0].line) = 0 /\ Len(f[0].read) = 0
    BY <2>1 DEF Readers
  <2>3. Found(f[0].read, content, 0, 0)
    BY <2>2 DEF Found
  <2>4. Scanned(f[0], content, 0)
    BY <2>2, <2>3 DEF Scanned
  <2> QED BY <2>4
<1>4. ASSUME NEW i \in Nat, i \in S PROVE i + 1 \in S
  <2>1. SUFFICES ASSUME i + 1 <= Len(content) PROVE Scanned(f[i + 1], content, i + 1)
    OBVIOUS
  <2>2. i <= Len(content) /\ i + 1 \in 0..Len(content) /\ (i + 1) - 1 = i
    BY <2>1
  <2>3. Scanned(f[i], content, i)
    BY <1>4, <2>2
  <2>4. f[i + 1] = ReadRound(f[i], content, i + 1)
    BY <1>1, <2>2
  <2> QED BY <2>1, <2>3, <2>4, ScannedStep
<1> HIDE DEF S
<1>5. Len(content) \in S
  BY <1>3, <1>4, NatSetInduction
<1>6. Scanned(f[Len(content)], content, Len(content))
  BY <1>5 DEF S
<1>7. EndLine(f[Len(content)]) \in Readers
  BY <1>6, EndLineFacts DEF Scanned
<1>8. Len(content) \in 0..Len(content)
  OBVIOUS
<1> QED BY <1>2, <1>6, <1>7, <1>8, EndLineFound DEF Readers

\* A reader at the end of whole lines, or within one: what it holds of the line.
Clean(rd, content, i) ==
    /\ rd \in Readers /\ rd.ok
    /\ i = 0 \/ content[i].part = "newline" => rd.line = <<>>
    /\ i # 0 /\ content[i].part = "head" => rd.line = <<content[i]>>
    /\ i # 0 /\ content[i].part = "rest" => rd.line = Text(content[i].of)

\* A round over whole lines meets no error.
LEMMA CleanStep ==
    ASSUME NEW content \in Seq(Pieces), Whole(content),
           NEW i \in Nat, i + 1 <= Len(content), NEW rd, Clean(rd, content, i)
    PROVE  Clean(ReadRound(rd, content, i + 1), content, i + 1)
<1> DEFINE x == content[i + 1]
           new == ReadRound(rd, content, i + 1)
<1>t. /\ rd \in Readers /\ rd.line \in Seq(Pieces) /\ rd.ok /\ Len(content) \in Nat
      /\ i + 1 \in 1..Len(content) /\ i + 1 # 0
  BY DEF Clean, Readers
<1>x. x \in Pieces /\ x.part \in {"head", "rest", "newline"} /\ x.of \in Exchanges
  BY <1>t, PieceFacts
<1>n. x.part = "newline" => new = EndLine(rd)
  BY <1>t, ReadRoundFacts
<1>a. x.part # "newline" => /\ new \in Readers /\ new.ok /\ new.line = Append(rd.line, x)
  BY <1>t, <1>x, ReadRoundFacts
<1> HIDE DEF new
<1>1. CASE x.part = "newline"
  <2>1. i # 0 /\ content[i] = RestOf(x.of)
    BY <1>1, <1>t DEF Whole, Chained
  <2>2. content[i].part = "rest" /\ content[i].of = x.of
    BY <2>1, PieceFacts DEF RestOf
  <2>3. rd.line = Text(x.of)
    BY <2>1, <2>2 DEF Clean
  <2>4. rd.line # <<>> /\ rd.line[1].of = x.of
    <3>1. Len(rd.line) = 2 /\ rd.line[1] = HeadOf(x.of)
      BY <1>x, <2>3, LineFacts
    <3> QED BY <1>t, <3>1, PieceFacts DEF HeadOf
  <2>5. new \in Readers /\ new.ok /\ new.line = <<>>
    BY <1>1, <1>n, <1>t, <2>3, <2>4, EndLineFacts
  <2>6. Clean(new, content, i + 1)
    BY <1>1, <1>t, <2>5 DEF Clean
  <2> QED BY <2>6 DEF new
<1>2. CASE x.part = "head"
  <2>1. i = 0 \/ content[i].part = "newline"
    <3>1. SUFFICES ASSUME i # 0, content[i].part # "newline" PROVE FALSE
      OBVIOUS
    <3>2. i \in 1..Len(content) /\ content[i] \in Pieces
      BY <1>t, <3>1
    <3>3. content[i].part \in {"head", "rest"}
      BY <3>1, <3>2, PieceFacts
    <3>4. x = RestOf(content[i].of) \/ x = NewlineOf(content[i].of)
      BY <3>2, <3>3 DEF Whole
    <3> QED BY <1>2, <3>4, PieceFacts DEF RestOf, NewlineOf
  <2>2. rd.line = <<>>
    BY <2>1 DEF Clean
  <2>3. new.line = <<x>>
    BY <1>2, <1>a, <1>x, <2>2
  <2>4. Clean(new, content, i + 1)
    BY <1>2, <1>a, <1>t, <2>3 DEF Clean
  <2> QED BY <2>4 DEF new
<1>3. CASE x.part = "rest"
  <2>1. i # 0 /\ content[i] = HeadOf(x.of)
    BY <1>3, <1>t DEF Whole, Chained
  <2>2. content[i].part = "head"
    BY <2>1, PieceFacts DEF HeadOf
  <2>3. rd.line = <<HeadOf(x.of)>>
    BY <2>1, <2>2 DEF Clean
  <2>4. x = RestOf(x.of)
    BY <1>3, <1>x, PieceFacts DEF RestOf
  <2>5. new.line = Text(x.of)
    <3>1. ASSUME NEW a \in Pieces, NEW b \in Pieces PROVE Append(<<a>>, b) = <<a, b>>
      <4>1. /\ <<a>> \in Seq(Pieces) /\ Len(<<a>>) = 1 /\ <<a>>[1] = a
            /\ <<a, b>> \in Seq(Pieces) /\ Len(<<a, b>>) = 2 /\ <<a, b>>[1] = a /\ <<a, b>>[2] = b
        OBVIOUS
      <4>2. PICK t \in Seq(Pieces) : t = <<a>>
        BY <4>1
      <4>3. /\ Append(t, b) \in Seq(Pieces) /\ Len(Append(t, b)) = Len(t) + 1
            /\ \A j \in 1..Len(t) : Append(t, b)[j] = t[j]
            /\ Append(t, b)[Len(t) + 1] = b
        BY AppendProperties
      <4>4. Len(Append(t, b)) = 2 /\ Append(t, b)[1] = a /\ Append(t, b)[2] = b
        BY <4>1, <4>2, <4>3
      <4>5. \A j \in 1..2 : Append(t, b)[j] = <<a, b>>[j]
        <5>1. \A j \in 1..2 : j = 1 \/ j = 2
          OBVIOUS
        <5> QED BY <4>1, <4>4, <5>1
      <4>6. Append(t, b) = <<a, b>>
        BY <4>1, <4>3, <4>4, <4>5, SeqEqual
      <4> QED BY <4>2, <4>6
    <3>2. Text(x.of) = <<HeadOf(x.of), RestOf(x.of)>>
      BY DEF Text, HeadOf, RestOf
    <3>3. new.line = Append(<<HeadOf(x.of)>>, RestOf(x.of))
      BY <1>3, <1>a, <2>3, <2>4
    <3> QED BY <1>x, <3>1, <3>2, <3>3, PieceFacts
  <2>6. Clean(new, content, i + 1)
    BY <1>3, <1>a, <1>t, <2>5 DEF Clean
  <2> QED BY <2>6 DEF new
<1> QED BY <1>x, <1>1, <1>2, <1>3

\* load() of whole lines meets no error.
LEMMA LoadWhole ==
    ASSUME NEW content \in Seq(Pieces), Whole(content)
    PROVE  Load(content).ok
<1> DEFINE f == Reading(content)
           S == {i \in Nat : i <= Len(content) => Clean(f[i], content, i)}
<1>1. \A i \in 0..Len(content) : f[i] = ReadRound(f[i - 1], content, i)
  BY LoadIsLoop
<1>2. Load(content) = EndLine(f[Len(content)])
  BY LoadIsLoop
<1> HIDE DEF f
<1>3. 0 \in S
  <2>1. f[0] = [line |-> <<>>, read |-> <<>>, ok |-> TRUE]
    <3>1. f[0] = ReadRound(f[0 - 1], content, 0)
      BY <1>1
    <3>2. ReadRound(f[0 - 1], content, 0) = [line |-> <<>>, read |-> <<>>, ok |-> TRUE]
      BY Zenon DEF ReadRound
    <3> QED BY <3>1, <3>2, Zenon
  <2>2. f[0] \in Readers /\ f[0].ok /\ f[0].line = <<>>
    BY <2>1 DEF Readers
  <2>3. Clean(f[0], content, 0)
    BY <2>2 DEF Clean
  <2> QED BY <2>3
<1>4. ASSUME NEW i \in Nat, i \in S PROVE i + 1 \in S
  <2>1. SUFFICES ASSUME i + 1 <= Len(content) PROVE Clean(f[i + 1], content, i + 1)
    OBVIOUS
  <2>2. i <= Len(content) /\ i + 1 \in 0..Len(content) /\ (i + 1) - 1 = i
    BY <2>1
  <2>3. Clean(f[i], content, i)
    BY <1>4, <2>2
  <2>4. f[i + 1] = ReadRound(f[i], content, i + 1)
    BY <1>1, <2>2
  <2> QED BY <2>1, <2>3, <2>4, CleanStep
<1> HIDE DEF S
<1>5. Len(content) \in S
  BY <1>3, <1>4, NatSetInduction
<1>6. Clean(f[Len(content)], content, Len(content))
  BY <1>5 DEF S
<1>7. Len(content) = 0 \/ content[Len(content)].part = "newline"
  <2>1. SUFFICES ASSUME Len(content) # 0 PROVE content[Len(content)].part = "newline"
    OBVIOUS
  <2>2. Len(content) \in 1..Len(content) /\ content[Len(content)] \in Pieces
    BY <2>1
  <2>3. content[Len(content)].part \notin {"head", "rest"}
    BY <2>2 DEF Whole
  <2> QED BY <2>2, <2>3, PieceFacts
<1>8. f[Len(content)].line = <<>> /\ f[Len(content)] \in Readers /\ f[Len(content)].ok
  BY <1>6, <1>7 DEF Clean
<1> QED BY <1>2, <1>8, EndLineFacts

----------------------------------------------------------------------------
\* Lines one behind the other.

\* Where the pieces of s \o t are.
LEMMA ConcatFacts ==
    ASSUME NEW s \in Seq(Pieces), NEW t \in Seq(Pieces)
    PROVE  /\ s \o t \in Seq(Pieces)
           /\ Len(s) \in Nat /\ Len(t) \in Nat /\ Len(s \o t) = Len(s) + Len(t)
           /\ \A i \in 1..Len(s) : (s \o t)[i] = s[i]
           /\ \A i \in 1..Len(t) : (s \o t)[Len(s) + i] = t[i]
           /\ \A i \in 1..Len(s \o t) : i \in 1..Len(s) \/ i - Len(s) \in 1..Len(t)
           /\ Range(s \o t) = Range(s) \cup Range(t)
<1>1. /\ s \o t \in Seq(Pieces) /\ Len(s \o t) = Len(s) + Len(t)
      /\ \A i \in 1..(Len(s) + Len(t)) : (s \o t)[i] = IF i <= Len(s) THEN s[i] ELSE t[i - Len(s)]
  BY ConcatProperties
<1>2. Len(s) \in Nat /\ Len(t) \in Nat
  OBVIOUS
<1>3. \A i \in 1..Len(s) : (s \o t)[i] = s[i]
  BY <1>1, <1>2
<1>4. \A i \in 1..Len(t) : (s \o t)[Len(s) + i] = t[i]
  <2> TAKE i \in 1..Len(t)
  <2>1. Len(s) + i \in 1..(Len(s) + Len(t)) /\ ~(Len(s) + i <= Len(s)) /\ (Len(s) + i) - Len(s) = i
    BY <1>2
  <2> QED BY <1>1, <2>1
<1>5. \A i \in 1..(Len(s) + Len(t)) : i \in 1..Len(s) \/ i - Len(s) \in 1..Len(t)
  BY <1>2
<1>6. Range(s \o t) = Range(s) \cup Range(t)
  BY RangeConcatenation
<1> QED BY <1>1, <1>2, <1>3, <1>4, <1>5, <1>6

\* The members of a sequence are its pieces.
LEMMA RangeFacts ==
    ASSUME NEW S, NEW s \in Seq(S)
    PROVE  /\ \A i \in 1..Len(s) : s[i] \in Range(s) /\ s[i] \in S
           /\ \A x \in Range(s) : \E i \in 1..Len(s) : x = s[i]
           /\ Range(s) \subseteq S
<1>1. Range(s) = {s[i] : i \in 1..Len(s)}
  BY RangeEquality
<1>2. \A i \in 1..Len(s) : s[i] \in S
  BY ElementOfSeq
<1> QED BY <1>1, <1>2

\* A sequence is what it begins with and what is left of it.
LEMMA SplitAt ==
    ASSUME NEW S, NEW s \in Seq(S), NEW n \in 0..Len(s)
    PROVE  /\ SubSeq(s, 1, n) \in Seq(S) /\ SubSeq(s, n + 1, Len(s)) \in Seq(S)
           /\ SubSeq(s, 1, n) \o SubSeq(s, n + 1, Len(s)) = s
           /\ Len(SubSeq(s, 1, n)) = n
           /\ \A i \in 1..n : SubSeq(s, 1, n)[i] = s[i]
<1>1. SubSeq(s, 1, n) \o SubSeq(s, n + 1, Len(s)) = SubSeq(s, 1, Len(s))
  <2>1. 1 \in 1..(Len(s) + 1) /\ n \in (1 - 1)..Len(s) /\ Len(s) \in n..Len(s)
    OBVIOUS
  <2> QED BY <2>1, ConcatAdjacentSubSeq
<1>2. SubSeq(s, 1, Len(s)) = s
  BY SubSeqFull
<1>3. \A i \in 1..Len(s) : s[i] \in S
  BY ElementOfSeq
<1>4. /\ SubSeq(s, 1, n) \in Seq(S) /\ Len(SubSeq(s, 1, n)) = IF 1 <= n THEN n - 1 + 1 ELSE 0
      /\ \A i \in 1..(n - 1 + 1) : SubSeq(s, 1, n)[i] = s[1 + i - 1]
  BY <1>3, SubSeqProperties
<1>5. Len(SubSeq(s, 1, n)) = n /\ \A i \in 1..n : SubSeq(s, 1, n)[i] = s[i]
  BY <1>4
<1>6. SubSeq(s, n + 1, Len(s)) \in Seq(S)
  BY <1>3, SubSeqProperties
<1> QED BY <1>1, <1>2, <1>4, <1>5, <1>6

\* Lines behind lines.
LEMMA ChainedConcat ==
    ASSUME NEW s \in Seq(Pieces), NEW t \in Seq(Pieces), Chained(s), Chained(t)
    PROVE  Chained(s \o t)
<1> DEFINE u == s \o t
<1>c. /\ Len(s) \in Nat /\ Len(t) \in Nat /\ Len(u) = Len(s) + Len(t)
      /\ \A i \in 1..Len(s) : u[i] = s[i]
      /\ \A i \in 1..Len(t) : u[Len(s) + i] = t[i]
      /\ \A i \in 1..Len(u) : i \in 1..Len(s) \/ i - Len(s) \in 1..Len(t)
  BY ConcatFacts
<1> HIDE DEF u
<1>1. ASSUME NEW i \in 1..Len(u)
      PROVE  /\ u[i].part = "rest" => i > 1 /\ u[i - 1] = HeadOf(u[i].of)
             /\ u[i].part = "newline" => i > 1 /\ u[i - 1] = RestOf(u[i].of)
  <2>1. CASE i \in 1..Len(s)
    <3>1. u[i] = s[i] /\ (i > 1 => i - 1 \in 1..Len(s))
      BY <1>c, <2>1
    <3> QED BY <1>c, <2>1, <3>1 DEF Chained
  <2>2. CASE i - Len(s) \in 1..Len(t)
    <3> DEFINE j == i - Len(s)
    <3>1. u[i] = t[j] /\ (j > 1 => i > 1 /\ j - 1 \in 1..Len(t) /\ u[i - 1] = t[j - 1])
      <4>1. Len(s) + j = i /\ Len(s) + (j - 1) = i - 1
        BY <1>c
      <4>2. j > 1 => i > 1 /\ j - 1 \in 1..Len(t)
        BY <1>c, <2>2
      <4> QED BY <1>c, <2>2, <4>1, <4>2
    <3> HIDE DEF j
    <3> QED BY <2>2, <3>1 DEF Chained, j
  <2> QED BY <1>c, <2>1, <2>2
<1>2. Chained(u)
  BY <1>1 DEF Chained
<1> QED BY <1>2 DEF u

\* What comes first does not depend on what follows.
LEMMA ChainedPrefix ==
    ASSUME NEW s \in Seq(Pieces), NEW t \in Seq(Pieces), Chained(s \o t)
    PROVE  Chained(s)
<1>c. /\ Len(s) \in Nat /\ Len(t) \in Nat /\ Len(s \o t) = Len(s) + Len(t)
      /\ \A i \in 1..Len(s) : (s \o t)[i] = s[i]
  BY ConcatFacts
<1>1. ASSUME NEW i \in 1..Len(s)
      PROVE  /\ s[i].part = "rest" => i > 1 /\ s[i - 1] = HeadOf(s[i].of)
             /\ s[i].part = "newline" => i > 1 /\ s[i - 1] = RestOf(s[i].of)
  <2>1. i \in 1..Len(s \o t) /\ (i > 1 => i - 1 \in 1..Len(s))
    BY <1>c
  <2> QED BY <1>c, <2>1 DEF Chained
<1> QED BY <1>1 DEF Chained

\* Whole lines behind whole lines are whole.
LEMMA WholeConcat ==
    ASSUME NEW s \in Seq(Pieces), NEW t \in Seq(Pieces), Whole(s), Whole(t)
    PROVE  Whole(s \o t)
<1> DEFINE u == s \o t
<1>c. /\ Len(s) \in Nat /\ Len(t) \in Nat /\ Len(u) = Len(s) + Len(t)
      /\ \A i \in 1..Len(s) : u[i] = s[i]
      /\ \A i \in 1..Len(t) : u[Len(s) + i] = t[i]
      /\ \A i \in 1..Len(u) : i \in 1..Len(s) \/ i - Len(s) \in 1..Len(t)
  BY ConcatFacts
<1>0. Chained(u)
  BY ChainedConcat DEF Whole
<1> HIDE DEF u
<1>1. ASSUME NEW i \in 1..Len(u)
      PROVE  /\ u[i].part = "head" => i < Len(u) /\ u[i + 1] = RestOf(u[i].of)
             /\ u[i].part = "rest" => i < Len(u) /\ u[i + 1] = NewlineOf(u[i].of)
  <2>1. CASE i \in 1..Len(s)
    <3>1. u[i] = s[i] /\ (i < Len(s) => i < Len(u) /\ i + 1 \in 1..Len(s) /\ u[i + 1] = s[i + 1])
      BY <1>c, <2>1
    <3> QED BY <2>1, <3>1 DEF Whole
  <2>2. CASE i - Len(s) \in 1..Len(t)
    <3> DEFINE j == i - Len(s)
    <3>1. u[i] = t[j] /\ (j < Len(t) => i < Len(u) /\ u[i + 1] = t[j + 1])
      <4>1. Len(s) + j = i /\ Len(s) + (j + 1) = i + 1
        BY <1>c
      <4>2. j < Len(t) => i < Len(u) /\ j + 1 \in 1..Len(t)
        BY <1>c, <2>2
      <4> QED BY <1>c, <2>2, <4>1, <4>2
    <3> HIDE DEF j
    <3> QED BY <2>2, <3>1 DEF Whole, j
  <2> QED BY <1>c, <2>1, <2>2
<1>2. Whole(u)
  BY <1>0, <1>1 DEF Whole
<1> QED BY <1>2 DEF u

\* Whole lines before whole lines are whole.
LEMMA WholeLeft ==
    ASSUME NEW s \in Seq(Pieces), NEW t \in Seq(Pieces), Whole(s \o t), Whole(t)
    PROVE  Whole(s)
<1> DEFINE u == s \o t
<1>c. /\ Len(s) \in Nat /\ Len(t) \in Nat /\ Len(u) = Len(s) + Len(t)
      /\ \A i \in 1..Len(s) : u[i] = s[i]
      /\ \A i \in 1..Len(t) : u[Len(s) + i] = t[i]
  BY ConcatFacts
<1>0. Chained(s) /\ Whole(u)
  BY ChainedPrefix DEF Whole
<1> HIDE DEF u
<1>h. t # <<>> => t[1] \in Pieces /\ t[1].part \notin {"rest", "newline"}
  <2>1. SUFFICES ASSUME t # <<>> PROVE t[1] \in Pieces /\ t[1].part \notin {"rest", "newline"}
    OBVIOUS
  <2>2. 1 \in 1..Len(t)
    BY <2>1
  <2> QED BY <2>2 DEF Whole, Chained
<1>1. ASSUME NEW i \in 1..Len(s)
      PROVE  /\ s[i].part = "head" => i < Len(s) /\ s[i + 1] = RestOf(s[i].of)
             /\ s[i].part = "rest" => i < Len(s) /\ s[i + 1] = NewlineOf(s[i].of)
  <2>1. i \in 1..Len(u) /\ u[i] = s[i]
    BY <1>c
  <2>2. CASE i < Len(s)
    <3>1. i + 1 \in 1..Len(s) /\ u[i + 1] = s[i + 1]
      BY <1>c, <2>2
    <3> QED BY <1>0, <2>1, <2>2, <3>1 DEF Whole
  <2>3. CASE i = Len(s)
    <3>1. SUFFICES ASSUME s[i].part \in {"head", "rest"} PROVE FALSE
      OBVIOUS
    <3>2. i < Len(u) /\ u[i + 1] \in {RestOf(s[i].of), NewlineOf(s[i].of)}
      BY <1>0, <2>1, <3>1 DEF Whole
    <3>3. u[i + 1].part \in {"rest", "newline"}
      BY <3>2, PieceFacts DEF RestOf, NewlineOf
    <3>4. 1 \in 1..Len(t) /\ t # <<>> /\ u[i + 1] = t[1]
      BY <1>c, <2>3, <3>2
    <3> QED BY <1>h, <3>3, <3>4
  <2> QED BY <1>c, <2>2, <2>3
<1> QED BY <1>0, <1>1 DEF Whole

\* One line is whole.
LEMMA WholeLine ==
    ASSUME NEW e \in Exchanges
    PROVE  Whole(Line(e))
<1>1. /\ Len(Line(e)) = 3
      /\ Line(e)[1] = HeadOf(e) /\ Line(e)[2] = RestOf(e) /\ Line(e)[3] = NewlineOf(e)
  BY LineFacts
<1>2. /\ HeadOf(e).of = e /\ HeadOf(e).part = "head"
      /\ RestOf(e).of = e /\ RestOf(e).part = "rest"
      /\ NewlineOf(e).of = e /\ NewlineOf(e).part = "newline"
  BY PieceFacts DEF HeadOf, RestOf, NewlineOf
<1>3. \A i \in 1..3 : i = 1 \/ i = 2 \/ i = 3
  OBVIOUS
<1> QED BY <1>1, <1>2, <1>3 DEF Whole, Chained

\* No line is whole as well.
LEMMA WholeEmpty == Whole(<<>>) /\ Chained(<<>>) /\ Once(<<>>) /\ Range(<<>>) = {}
BY DEF Whole, Chained, Once, Range

\* Lines that are cut behind a newline are whole.
LEMMA WholeCut ==
    ASSUME NEW s \in Seq(Pieces), Whole(s), NEW n \in 0..Len(s), n = 0 \/ s[n].part = "newline"
    PROVE  Whole(SubSeq(s, 1, n))
<1> DEFINE u == SubSeq(s, 1, n)
<1>1. Len(u) = n /\ \A i \in 1..n : u[i] = s[i]
  BY SplitAt
<1>2. Chained(u)
  <2>1. PICK v \in Seq(Pieces) : u \in Seq(Pieces) /\ u \o v = s
    BY SplitAt
  <2> HIDE DEF u
  <2> QED BY <2>1, ChainedPrefix DEF Whole
<1> HIDE DEF u
<1>3. ASSUME NEW i \in 1..n
      PROVE  /\ u[i].part = "head" => i < n /\ u[i + 1] = RestOf(u[i].of)
             /\ u[i].part = "rest" => i < n /\ u[i + 1] = NewlineOf(u[i].of)
  <2>1. i \in 1..Len(s) /\ u[i] = s[i]
    BY <1>1
  <2>2. CASE i < n
    <3>1. i + 1 \in 1..n /\ u[i + 1] = s[i + 1]
      BY <1>1, <2>2
    <3> QED BY <2>1, <2>2, <3>1 DEF Whole
  <2>3. CASE i = n
    BY <2>1, <2>3
  <2> QED BY <2>2, <2>3
<1>4. Whole(u)
  BY <1>1, <1>2, <1>3 DEF Whole
<1> QED BY <1>4 DEF u

\* Nothing is twice in s \o t if nothing is twice in either or in both.
LEMMA OnceConcat ==
    ASSUME NEW s \in Seq(Pieces), NEW t \in Seq(Pieces)
    PROVE  Once(s \o t) <=> Once(s) /\ Once(t) /\ Range(s) \cap Range(t) = {}
<1> DEFINE u == s \o t
<1>c. /\ Len(s) \in Nat /\ Len(t) \in Nat /\ Len(u) = Len(s) + Len(t)
      /\ \A i \in 1..Len(s) : u[i] = s[i]
      /\ \A i \in 1..Len(t) : u[Len(s) + i] = t[i]
      /\ \A i \in 1..Len(u) : i \in 1..Len(s) \/ i - Len(s) \in 1..Len(t)
  BY ConcatFacts
<1>r. /\ \A i \in 1..Len(s) : s[i] \in Range(s)
      /\ \A i \in 1..Len(t) : t[i] \in Range(t)
      /\ \A x \in Range(s) : \E i \in 1..Len(s) : x = s[i]
      /\ \A x \in Range(t) : \E i \in 1..Len(t) : x = t[i]
  BY RangeFacts
<1> HIDE DEF u
<1>1. ASSUME Once(u) PROVE Once(s) /\ Once(t) /\ Range(s) \cap Range(t) = {}
  <2>1. /\ \A i \in 1..Len(s) : i \in 1..Len(u)
        /\ \A i \in 1..Len(t) : Len(s) + i \in 1..Len(u) /\ Len(s) + i > Len(s)
    BY <1>c
  <2>2. Once(s)
    BY <1>1, <1>c, <2>1 DEF Once
  <2>3. Once(t)
    <3> SUFFICES ASSUME NEW i \in 1..Len(t), NEW j \in 1..Len(t), t[i] = t[j] PROVE i = j
      BY DEF Once
    <3>1. Len(s) + i = Len(s) + j
      BY <1>1, <1>c, <2>1 DEF Once
    <3> QED BY <1>c, <3>1
  <2>4. Range(s) \cap Range(t) = {}
    <3> SUFFICES ASSUME NEW x \in Range(s), x \in Range(t) PROVE FALSE
      OBVIOUS
    <3>1. PICK i \in 1..Len(s) : x = s[i]
      BY <1>r
    <3>2. PICK j \in 1..Len(t) : x = t[j]
      BY <1>r
    <3>3. i = Len(s) + j
      BY <1>1, <1>c, <2>1, <3>1, <3>2 DEF Once
    <3> QED BY <1>c, <3>3
  <2> QED BY <2>2, <2>3, <2>4
<1>2. ASSUME Once(s), Once(t), Range(s) \cap Range(t) = {} PROVE Once(u)
  <2> SUFFICES ASSUME NEW i \in 1..Len(u), NEW j \in 1..Len(u), u[i] = u[j] PROVE i = j
    BY DEF Once
  <2>1. \A k \in 1..Len(u) : k - Len(s) \in 1..Len(t) => u[k] = t[k - Len(s)]
    <3> SUFFICES ASSUME NEW k \in 1..Len(u), k - Len(s) \in 1..Len(t) PROVE u[k] = t[k - Len(s)]
      OBVIOUS
    <3>1. Len(s) + (k - Len(s)) = k
      BY <1>c
    <3> QED BY <1>c, <3>1
  <2>2. CASE i \in 1..Len(s) /\ j \in 1..Len(s)
    BY <1>2, <1>c, <2>2 DEF Once
  <2>3. CASE i - Len(s) \in 1..Len(t) /\ j - Len(s) \in 1..Len(t)
    <3>1. i - Len(s) = j - Len(s)
      BY <1>2, <2>1, <2>3 DEF Once
    <3> QED BY <1>c, <3>1
  <2>4. CASE i \in 1..Len(s) /\ j - Len(s) \in 1..Len(t)
    BY <1>2, <1>c, <1>r, <2>1, <2>4
  <2>5. CASE i - Len(s) \in 1..Len(t) /\ j \in 1..Len(s)
    BY <1>2, <1>c, <1>r, <2>1, <2>5
  <2> QED BY <1>c, <2>2, <2>3, <2>4, <2>5
<1>3. Once(u) <=> Once(s) /\ Once(t) /\ Range(s) \cap Range(t) = {}
  BY <1>1, <1>2
<1> QED BY <1>3 DEF u

\* A line has three different pieces, of its exchange.
LEMMA LineRange ==
    ASSUME NEW e \in Exchanges
    PROVE  /\ Range(Line(e)) = {HeadOf(e), RestOf(e), NewlineOf(e)}
           /\ \A x \in Range(Line(e)) : x.of = e
           /\ Once(Line(e))
<1>1. /\ Line(e) \in Seq(Pieces) /\ Len(Line(e)) = 3
      /\ Line(e)[1] = HeadOf(e) /\ Line(e)[2] = RestOf(e) /\ Line(e)[3] = NewlineOf(e)
  BY LineFacts
<1>2. /\ HeadOf(e).of = e /\ HeadOf(e).part = "head"
      /\ RestOf(e).of = e /\ RestOf(e).part = "rest"
      /\ NewlineOf(e).of = e /\ NewlineOf(e).part = "newline"
  BY PieceFacts DEF HeadOf, RestOf, NewlineOf
<1>3. \A i \in 1..3 : i = 1 \/ i = 2 \/ i = 3
  OBVIOUS
<1>4. 1 \in 1..3 /\ 2 \in 1..3 /\ 3 \in 1..3
  OBVIOUS
<1>5. Range(Line(e)) = {HeadOf(e), RestOf(e), NewlineOf(e)}
  <2>1. PICK t \in Seq(Pieces) : t = Line(e) /\ Len(t) = 3
    BY <1>1
  <2>2. /\ \A i \in 1..3 : t[i] \in Range(t)
        /\ \A x \in Range(t) : \E i \in 1..3 : x = t[i]
    BY <2>1, RangeFacts
  <2>3. t[1] = HeadOf(e) /\ t[2] = RestOf(e) /\ t[3] = NewlineOf(e)
    BY <1>1, <2>1
  <2>4. \A x \in Range(t) : x \in {HeadOf(e), RestOf(e), NewlineOf(e)}
    BY <1>3, <2>2, <2>3
  <2>5. t[1] \in Range(t) /\ t[2] \in Range(t) /\ t[3] \in Range(t)
    BY <1>4, <2>2
  <2> QED BY <2>1, <2>3, <2>4, <2>5
<1>6. Once(Line(e))
  BY <1>1, <1>2, <1>3 DEF Once
<1> QED BY <1>2, <1>5, <1>6

\* The order in which sequences are joined does not matter.
LEMMA JoinAssociative ==
    ASSUME NEW f \in Seq(Pieces), NEW i \in Seq(Pieces), NEW t \in Seq(Pieces)
    PROVE  (f \o i) \o t = f \o (i \o t)
BY ConcatAssociative

\* The pieces a write moves from what is in flight, a \o b, to the end of the file f: the stream
\* f, in flight, t is the same before and after.
SameStream(f, a, b, t) == (f \o a) \o (b \o t) = f \o ((a \o b) \o t)

\* A partial write leaves the stream as it was.
LEMMA WriteKeepsStream ==
    \A f, a, b, t : f \in Seq(Pieces) /\ a \in Seq(Pieces) /\ b \in Seq(Pieces) /\ t \in Seq(Pieces)
                    => SameStream(f, a, b, t)
<1> TAKE f, a, b, t
<1>0. ASSUME f \in Seq(Pieces), a \in Seq(Pieces), b \in Seq(Pieces), t \in Seq(Pieces)
      PROVE  SameStream(f, a, b, t)
  <2>f. f \in Seq(Pieces)
    BY <1>0
  <2>a. a \in Seq(Pieces)
    BY <1>0
  <2>b. b \in Seq(Pieces) /\ t \in Seq(Pieces)
    BY <1>0
  <2>1. PICK u : u \in Seq(Pieces) /\ u = b \o t
    BY <2>b, ConcatFacts
  <2>u. u \in Seq(Pieces)
    BY <2>1
  <2>2. (f \o a) \o u = f \o (a \o u)
    BY <2>f, <2>a, <2>u, JoinAssociative
  <2>3. (a \o b) \o t = a \o (b \o t)
    BY <2>a, <2>b, JoinAssociative
  <2> QED BY <2>1, <2>2, <2>3 DEF SameStream
<1> QED BY <1>0

\* The ways to look at what is on the medium and on its way there.
LEMMA StreamFacts ==
    ASSUME NEW f \in Seq(Pieces), NEW i \in Seq(Pieces), NEW t \in Seq(Pieces)
    PROVE  /\ i \o t \in Seq(Pieces) /\ f \o i \in Seq(Pieces)
           /\ f \o (i \o t) \in Seq(Pieces)
           /\ f \o (i \o t) = (f \o i) \o t
           /\ Range(f \o (i \o t)) = Range(f) \cup Range(i) \cup Range(t)
           /\ i = <<>> => f \o (i \o t) = f \o t
           /\ t = <<>> => f \o (i \o t) = f \o i
           /\ i = <<>> /\ t = <<>> => f \o (i \o t) = f
<1>1. i \o t \in Seq(Pieces) /\ f \o i \in Seq(Pieces) /\ f \o (i \o t) \in Seq(Pieces)
  BY ConcatFacts
<1>2. f \o (i \o t) = (f \o i) \o t
  BY JoinAssociative
<1>3. Range(f \o (i \o t)) = Range(f) \cup Range(i) \cup Range(t)
  <2>1. PICK u \in Seq(Pieces) : u = i \o t
    BY <1>1
  <2>2. Range(u) = Range(i) \cup Range(t)
    BY <2>1, ConcatFacts
  <2>3. Range(f \o u) = Range(f) \cup Range(u)
    BY ConcatFacts
  <2> QED BY <2>1, <2>2, <2>3
<1>4. \A u \in Seq(Pieces) : u \o <<>> = u /\ <<>> \o u = u
  BY ConcatEmptySeq
<1> QED BY <1>1, <1>2, <1>3, <1>4

\* A sequence one longer.
LEMMA AppendFacts ==
    ASSUME NEW S, NEW s \in Seq(S), NEW x \in S
    PROVE  /\ Append(s, x) \in Seq(S) /\ Len(s) \in Nat /\ Len(Append(s, x)) = Len(s) + 1
           /\ \A i \in 1..Len(s) : i \in 1..Len(Append(s, x)) /\ Append(s, x)[i] = s[i]
           /\ \A i \in 1..Len(Append(s, x)) :
                i \in 1..Len(s) \/ (i = Len(s) + 1 /\ Append(s, x)[i] = x)
           /\ Range(Append(s, x)) = Range(s) \cup {x}
<1>1. /\ Append(s, x) \in Seq(S) /\ Len(Append(s, x)) = Len(s) + 1 /\ Len(s) \in Nat
      /\ \A i \in 1..Len(s) : Append(s, x)[i] = s[i]
      /\ Append(s, x)[Len(s) + 1] = x
  BY AppendProperties
<1>2. \A i \in 1..Len(Append(s, x)) : i \in 1..Len(s) \/ i = Len(s) + 1
  BY <1>1
<1>3. \A i \in 1..Len(s) : i \in 1..Len(Append(s, x))
  BY <1>1
<1>4. Len(s) + 1 \in 1..Len(Append(s, x))
  BY <1>1
<1>5. Range(Append(s, x)) = Range(s) \cup {x}
  <2>1. /\ \A i \in 1..Len(Append(s, x)) : Append(s, x)[i] \in Range(Append(s, x))
        /\ \A y \in Range(Append(s, x)) : \E i \in 1..Len(Append(s, x)) : y = Append(s, x)[i]
    BY <1>1, RangeFacts
  <2>2. /\ \A i \in 1..Len(s) : s[i] \in Range(s)
        /\ \A y \in Range(s) : \E i \in 1..Len(s) : y = s[i]
    BY RangeFacts
  <2>3. ASSUME NEW y \in Range(Append(s, x)) PROVE y \in Range(s) \cup {x}
    <3>1. PICK i \in 1..Len(Append(s, x)) : y = Append(s, x)[i]
      BY <2>1
    <3>2. CASE i \in 1..Len(s)
      BY <1>1, <2>2, <3>1, <3>2
    <3>3. CASE i = Len(s) + 1
      BY <1>1, <3>1, <3>3
    <3> QED BY <1>2, <3>2, <3>3
  <2>4. ASSUME NEW y \in Range(s) PROVE y \in Range(Append(s, x))
    <3>1. PICK i \in 1..Len(s) : y = s[i]
      BY <2>2
    <3>2. i \in 1..Len(Append(s, x)) /\ Append(s, x)[i] = y
      BY <1>1, <1>3, <3>1
    <3> QED BY <2>1, <3>2
  <2>5. x \in Range(Append(s, x))
    BY <1>1, <1>4, <2>1
  <2> QED BY <2>3, <2>4, <2>5
<1> QED BY <1>1, <1>2, <1>3, <1>5

----------------------------------------------------------------------------
\* The order of the lines.

\* An order holds of what comes first.
LEMMA InOrderPrefix ==
    ASSUME NEW kept \in Seq(Exchanges), NEW less \in Seq(Exchanges),
           NEW s \in Seq(Pieces), NEW t \in Seq(Pieces),
           Len(less) <= Len(kept), \A i \in 1..Len(less) : less[i] = kept[i],
           Len(t) <= Len(s), \A p \in 1..Len(t) : t[p] = s[p],
           InOrder(kept, s)
    PROVE  InOrder(less, t)
<1>1. /\ \A i \in 1..Len(less) : i \in 1..Len(kept)
      /\ \A p \in 1..Len(t) : p \in 1..Len(s)
  OBVIOUS
<1> QED BY <1>1 DEF InOrder

\* An exchange without a line is in no wrong order.
LEMMA InOrderExtend ==
    ASSUME NEW kept \in Seq(Exchanges), NEW e \in Exchanges, NEW s \in Seq(Pieces),
           InOrder(kept, s), NewlineOf(e) \notin Range(s)
    PROVE  InOrder(Append(kept, e), s)
<1> DEFINE more == Append(kept, e)
<1>1. /\ \A i \in 1..Len(kept) : more[i] = kept[i]
      /\ \A i \in 1..Len(more) : i \in 1..Len(kept) \/ more[i] = e
  BY AppendFacts
<1>2. \A p \in 1..Len(s) : s[p] \in Range(s)
  BY RangeFacts
<1> HIDE DEF more
<1>3. ASSUME NEW i \in 1..Len(more), NEW j \in 1..Len(more),
             NEW p \in 1..Len(s), NEW q \in 1..Len(s),
             s[p] = NewlineOf(more[i]), s[q] = NewlineOf(more[j])
      PROVE  i < j <=> p < q
  <2>1. i \in 1..Len(kept) /\ j \in 1..Len(kept)
    BY <1>1, <1>2, <1>3
  <2>2. more[i] = kept[i] /\ more[j] = kept[j]
    BY <1>1, <2>1
  <2> QED BY <1>3, <2>1, <2>2 DEF InOrder
<1>4. InOrder(more, s)
  BY <1>3 DEF InOrder
<1> QED BY <1>4 DEF more

\* More content keeps the order if only the last one's line can be new.
LEMMA InOrderGrow ==
    ASSUME NEW kept \in Seq(Exchanges), NEW s \in Seq(Pieces), NEW t \in Seq(Pieces),
           InOrder(kept, s), Once(s \o t),
           \A i \in 1..Len(kept) : NewlineOf(kept[i]) \in Range(s) \/ i = Len(kept)
    PROVE  InOrder(kept, s \o t)
<1> DEFINE u == s \o t
<1>c. /\ Len(s) \in Nat /\ Len(t) \in Nat /\ Len(u) = Len(s) + Len(t)
      /\ \A i \in 1..Len(s) : u[i] = s[i]
  BY ConcatFacts
<1>r. \A x \in Range(s) : \E i \in 1..Len(s) : x = s[i]
  BY RangeFacts
<1>o. Once(u)
  OBVIOUS
<1> HIDE DEF u
<1>1. ASSUME NEW i \in 1..Len(kept), NEW p \in 1..Len(u), u[p] = NewlineOf(kept[i]),
             p \notin 1..Len(s)
      PROVE  i = Len(kept)
  <2>1. SUFFICES ASSUME NewlineOf(kept[i]) \in Range(s) PROVE FALSE
    OBVIOUS
  <2>2. PICK q \in 1..Len(s) : NewlineOf(kept[i]) = s[q]
    BY <1>r, <2>1
  <2>3. q \in 1..Len(u) /\ u[q] = u[p]
    BY <1>1, <1>c, <2>2
  <2> QED BY <1>1, <1>o, <2>3 DEF Once
<1>2. ASSUME NEW i \in 1..Len(kept), NEW j \in 1..Len(kept),
             NEW p \in 1..Len(u), NEW q \in 1..Len(u),
             u[p] = NewlineOf(kept[i]), u[q] = NewlineOf(kept[j])
      PROVE  i < j <=> p < q
  <2>1. i = j => p = q
    BY <1>2, <1>o DEF Once
  <2>2. CASE p \in 1..Len(s) /\ q \in 1..Len(s)
    BY <1>2, <1>c, <2>2 DEF InOrder
  <2>3. CASE p \in 1..Len(s) /\ q \notin 1..Len(s)
    <3>1. j = Len(kept) /\ p < q
      BY <1>1, <1>2, <1>c, <2>3
    <3> QED BY <2>1, <3>1
  <2>4. CASE p \notin 1..Len(s) /\ q \in 1..Len(s)
    <3>1. i = Len(kept) /\ q < p
      BY <1>1, <1>2, <1>c, <2>4
    <3> QED BY <2>1, <3>1
  <2>5. CASE p \notin 1..Len(s) /\ q \notin 1..Len(s)
    <3>1. i = Len(kept) /\ j = Len(kept)
      BY <1>1, <1>2, <2>5
    <3> QED BY <2>1, <3>1
  <2> QED BY <2>2, <2>3, <2>4, <2>5
<1>3. InOrder(kept, u)
  BY <1>2 DEF InOrder
<1> QED BY <1>3 DEF u

----------------------------------------------------------------------------
\* The invariant is kept, part by part.

\* A medium that was just created satisfies the invariant.
LEMMA InitInv == Init => Inv
<1> SUFFICES ASSUME Init PROVE Inv
  OBVIOUS
<1>0. <<>> \in Seq(Pieces) /\ <<>> \in Seq(Exchanges) /\ Len(<<>>) = 0
  OBVIOUS
<1>1. TypeOK
  <2>1. 0 \in 0..MaxCrashes /\ 0 \in 0..Len(<<>>)
    BY <1>0, StorageAssumption
  <2> QED BY <1>0, <2>1 DEF Init, TypeOK
<1>2. Stream = <<>>
  BY <1>0, StreamFacts DEF Init, Stream
<1>3. PlaceInv
  BY WholeEmpty, StorageAssumption DEF Init, PlaceInv
<1>4. LineInv
  BY <1>2, WholeEmpty DEF Init, LineInv
<1>5. AckInv
  <2>1. op \notin Exchanges /\ Expected = <<>>
    BY StorageAssumption DEF Init, Expected
  <2>2. InOrder(<<>>, <<>>)
    BY DEF InOrder
  <2>3. \A i \in 1..0 : FALSE
    OBVIOUS
  <2> QED BY <2>1, <2>2, <2>3, WholeEmpty DEF Init, AckInv
<1>6. WholeInv
  BY <1>2, WholeEmpty DEF WholeInv
<1> QED BY <1>1, <1>3, <1>4, <1>5, <1>6 DEF Inv

\* Every operation, failure and crash keeps the variables' types.
LEMMA TypeStep ==
    ASSUME TypeOK, PlaceInv, Next
    PROVE  TypeOK'
<1>0. <<>> \in Seq(Pieces) /\ <<>> \in Seq(Exchanges) /\ Len(<<>>) = 0
  OBVIOUS
<1>1. ASSUME NEW e \in Exchanges
      PROVE  /\ Line(e) \in Seq(Pieces) /\ buf \o Line(e) \in Seq(Pieces)
             /\ file \o Line(e) \in Seq(Pieces) /\ Len(file \o Line(e)) = Len(file) + 3
             /\ Append(promised, e) \in Seq(Exchanges)
             /\ Len(Append(promised, e)) = Len(promised) + 1
  <2>1. Line(e) \in Seq(Pieces) /\ Len(Line(e)) = 3
    BY LineFacts
  <2>2. PICK t \in Seq(Pieces) : t = Line(e) /\ Len(t) = 3
    BY <2>1
  <2>3. buf \o t \in Seq(Pieces) /\ file \o t \in Seq(Pieces) /\ Len(file \o t) = Len(file) + 3
    <3>1. buf \in Seq(Pieces) /\ file \in Seq(Pieces)
      BY DEF TypeOK
    <3>2. buf \o t \in Seq(Pieces) /\ file \o t \in Seq(Pieces)
      BY <3>1, ConcatFacts
    <3>3. Len(file \o t) = Len(file) + Len(t)
      BY <3>1, ConcatFacts
    <3> QED BY <2>2, <3>2, <3>3
  <2>4. promised \in Seq(Exchanges)
    BY DEF TypeOK
  <2>5. Append(promised, e) \in Seq(Exchanges) /\ Len(Append(promised, e)) = Len(promised) + 1
    BY <2>4, AppendFacts
  <2> QED BY <2>2, <2>3, <2>5
<1>n. /\ Len(file) \in Nat /\ Len(promised) \in Nat
      /\ \A n \in 0..Len(file) : n \in 0..(Len(file) + 3)
      /\ \A n \in 0..Len(promised) : n \in 0..(Len(promised) + 1)
  BY DEF TypeOK
<1>e. Nobody \notin Exchanges /\ Flusher \notin Exchanges /\ Large \subseteq Exchanges
  BY StorageAssumption
<1>2. ASSUME NEW e \in Exchanges, StartLine(e) PROVE TypeOK'
  BY <1>1, <1>2, <1>e DEF StartLine, TypeOK
<1>3. ASSUME NEW e \in Exchanges, SendInsert(e) PROVE TypeOK'
  BY <1>3, <1>e DEF SendInsert, TypeOK, jsonlVars, PlaceInv
<1>4. ASSUME NEW e \in Exchanges, Insert(e) PROVE TypeOK'
  BY <1>1, <1>4, <1>e, <1>n DEF Insert, TypeOK, jsonlVars, PlaceInv
<1>5. ASSUME NEW e \in Exchanges, InsertFails(e) PROVE TypeOK'
  BY <1>5, <1>e DEF InsertFails, TypeOK, jsonlVars, ghosts, PlaceInv
<1>6. ASSUME NEW e \in Exchanges, Push(e) PROVE TypeOK'
  BY <1>1, <1>6, <1>e, <1>n DEF Push, TypeOK, jsonlVars, PlaceInv
<1>7. ASSUME HandOver PROVE TypeOK'
  <2>1. CASE buf # <<>>
    BY <1>0, <1>7, <2>1 DEF HandOver, TypeOK, ghosts
  <2>2. CASE buf = <<>>
    <3>1. PICK n \in 1..Len(todo) :
             /\ inflight' = SubSeq(todo, 1, n) /\ todo' = SubSeq(todo, n + 1, Len(todo))
      BY <1>7, <2>2 DEF HandOver
    <3>2. n \in 0..Len(todo) /\ todo # <<>>
      BY <3>1 DEF TypeOK
    <3>3. inflight' \in Seq(Pieces) /\ todo' \in Seq(Pieces)
      BY <3>1, <3>2, SplitAt DEF TypeOK
    <3> QED BY <1>7, <2>2, <3>2, <3>3 DEF HandOver, TypeOK, ghosts
  <2> QED BY <2>1, <2>2
<1>8. ASSUME Write PROVE TypeOK'
  <2>1. PICK n \in 1..Len(inflight) :
           /\ file' = file \o SubSeq(inflight, 1, n)
           /\ inflight' = SubSeq(inflight, n + 1, Len(inflight))
    BY <1>8 DEF Write
  <2>2. n \in 0..Len(inflight)
    BY <2>1 DEF TypeOK
  <2>3. SubSeq(inflight, 1, n) \in Seq(Pieces) /\ inflight' \in Seq(Pieces)
    BY <2>1, <2>2, SplitAt DEF TypeOK
  <2>4. PICK a \in Seq(Pieces) : file' = file \o a
    BY <2>1, <2>3
  <2>5. file' \in Seq(Pieces) /\ Len(file') = Len(file) + Len(a) /\ Len(a) \in Nat
    BY <2>4, ConcatFacts DEF TypeOK
  <2>6. synced \in 0..Len(file')
    BY <2>5 DEF TypeOK
  <2> QED BY <1>8, <2>3, <2>5, <2>6 DEF Write, TypeOK, ghosts
<1>9. ASSUME WriteFails PROVE TypeOK'
  BY <1>0, <1>9 DEF WriteFails, TypeOK
<1>10. ASSUME ReportError \/ Cancel PROVE TypeOK'
  BY <1>0, <1>10 DEF ReportError, Cancel, TypeOK, ghosts
<1>11. ASSUME AppendOk PROVE TypeOK'
  BY <1>1, <1>11, <1>n DEF AppendOk, TypeOK, jsonlVars, Drained
<1>12. ASSUME FlushStarts \/ FlushFails PROVE TypeOK'
  BY <1>12, <1>e DEF FlushStarts, FlushFails, TypeOK, jsonlVars, ghosts
<1>13. ASSUME FlushOk PROVE TypeOK'
  BY <1>13, <1>n DEF FlushOk, TypeOK, jsonlVars, Drained
<1>d. Down => crashes' \in 0..MaxCrashes
  BY StorageAssumption DEF Down, TypeOK
<1>14. ASSUME ProcessDies PROVE TypeOK'
  <2>1. 0 \in 0..Len(<<>>)
    BY <1>0
  <2>2. CASE kind = "memory"
    BY <1>0, <1>14, <1>d, <2>1, <2>2 DEF ProcessDies, Down, TypeOK
  <2>3. CASE kind # "memory"
    BY <1>0, <1>14, <1>d, <2>3 DEF ProcessDies, Down, TypeOK
  <2> QED BY <2>2, <2>3
<1>15. ASSUME PowerLoss PROVE TypeOK'
  <2>1. PICK n \in Cuts : /\ file' = SubSeq(file, 1, n)
                          /\ synced' = IF kind = "jsonl" THEN n ELSE 0
    BY <1>15 DEF PowerLoss
  <2>2. n \in 0..Len(file)
    BY <2>1, StorageAssumption DEF Cuts, TypeOK
  <2>3. file' \in Seq(Pieces) /\ Len(file') = n /\ synced' \in 0..Len(file')
    BY <2>1, <2>2, SplitAt DEF TypeOK
  <2>4. promised' \in Seq(Exchanges) /\ Len(promised') \in Nat
    <3>1. SubSeq(promised, 1, fenced) \in Seq(Exchanges)
      BY SplitAt DEF TypeOK
    <3>2. promised' \in Seq(Exchanges)
      BY <1>0, <1>15, <3>1 DEF PowerLoss
    <3> QED BY <3>2
  <2>5. fenced' \in 0..Len(promised')
    BY <1>15, <2>4 DEF PowerLoss
  <2> QED BY <1>0, <1>15, <1>d, <2>3, <2>4, <2>5 DEF PowerLoss, Down, TypeOK
<1>16. ASSUME Reopen PROVE TypeOK'
  BY <1>16 DEF Reopen, TypeOK, jsonlVars, ghosts
<1> QED BY <1>2, <1>3, <1>4, <1>5, <1>6, <1>7, <1>8, <1>9, <1>10, <1>11, <1>12, <1>13,
           <1>14, <1>15, <1>16 DEF Next

\* And each backend's use of its buffers.
LEMMA PlaceStep ==
    ASSUME TypeOK, PlaceInv, Next
    PROVE  PlaceInv'
<1>0. /\ Nobody \notin Exchanges /\ Flusher \notin Exchanges /\ Large \subseteq Exchanges
      /\ Nobody # Flusher /\ kind \in {"jsonl", "sqlite", "memory"}
  BY StorageAssumption DEF TypeOK
<1>1. ASSUME NEW e \in Exchanges PROVE Range(Append(promised, e)) = Range(promised) \cup {e}
  <2>1. promised \in Seq(Exchanges)
    BY DEF TypeOK
  <2> QED BY <2>1, AppendFacts
<1>2. ASSUME NEW e \in Exchanges, StartLine(e) PROVE PlaceInv'
  BY <1>0, <1>2 DEF StartLine, PlaceInv, TypeOK, Buffered
<1>3. ASSUME NEW e \in Exchanges, SendInsert(e) PROVE PlaceInv'
  BY <1>0, <1>3 DEF SendInsert, PlaceInv, TypeOK, jsonlVars
<1>4. ASSUME NEW e \in Exchanges, Insert(e) PROVE PlaceInv'
  <2>1. /\ op' \in Exchanges => op' = op /\ op # e /\ promised' = promised
        /\ Range(promised') \subseteq Range(promised) \cup {e}
    BY <1>0, <1>1, <1>4 DEF Insert
  <2>2. /\ kind = "sqlite" /\ up /\ e \in queued /\ queued' = queued \ {e}
        /\ UNCHANGED <<kind, up, todo, buf, inflight, failed, started, faulty>>
    BY <1>4 DEF Insert, jsonlVars
  <2>3. todo = <<>> /\ buf = <<>> /\ inflight = <<>> /\ ~failed /\ e \in started
    BY <2>2 DEF PlaceInv
  <2> QED BY <1>0, <2>1, <2>2, <2>3 DEF PlaceInv
<1>5. ASSUME NEW e \in Exchanges, InsertFails(e) PROVE PlaceInv'
  <2>1. /\ op' \in Exchanges => op' = op /\ op # e
        /\ kind = "sqlite" /\ up /\ e \in queued /\ queued' = queued \ {e}
        /\ UNCHANGED <<kind, up, todo, buf, inflight, failed, started, promised, faulty>>
    BY <1>0, <1>5 DEF InsertFails, jsonlVars, ghosts
  <2>2. todo = <<>> /\ buf = <<>> /\ inflight = <<>> /\ ~failed
    BY <2>1 DEF PlaceInv
  <2> QED BY <1>0, <2>1, <2>2 DEF PlaceInv
<1>6. ASSUME NEW e \in Exchanges, Push(e) PROVE PlaceInv'
  <2>1. Range(promised') = Range(promised) \cup {e}
    BY <1>1, <1>6 DEF Push
  <2>2. /\ kind = "memory" /\ up /\ started' = started \cup {e}
        /\ UNCHANGED <<kind, up, op, todo, buf, inflight, failed, queued, faulty>>
    BY <1>6 DEF Push, jsonlVars
  <2>3. op = Nobody /\ todo = <<>>
    BY <2>2 DEF PlaceInv
  <2> QED BY <1>0, <2>1, <2>2, <2>3 DEF PlaceInv
<1>7. ASSUME HandOver PROVE PlaceInv'
  <2>1. CASE buf # <<>>
    BY <1>0, <1>7, <2>1 DEF HandOver, PlaceInv, ghosts
  <2>2. CASE buf = <<>>
    <3>1. todo # <<>>
      BY <1>7, <2>2 DEF HandOver
    <3> QED BY <1>0, <1>7, <2>2, <3>1 DEF HandOver, PlaceInv, ghosts
  <2> QED BY <2>1, <2>2
<1>8. ASSUME Write PROVE PlaceInv'
  <2>1. inflight # <<>>
    BY <1>8 DEF Write
  <2> QED BY <1>0, <1>8, <2>1 DEF Write, PlaceInv, ghosts
<1>9. ASSUME WriteFails PROVE PlaceInv'
  BY <1>0, <1>9 DEF WriteFails, PlaceInv
<1>10. ASSUME ReportError PROVE PlaceInv'
  BY <1>0, <1>10 DEF ReportError, PlaceInv, ghosts
<1>11. ASSUME Cancel PROVE PlaceInv'
  BY <1>0, <1>11 DEF Cancel, PlaceInv, ghosts
<1>12. ASSUME AppendOk PROVE PlaceInv'
  <2>1. Range(promised') = Range(promised) \cup {op}
    BY <1>1, <1>12 DEF AppendOk
  <2> QED BY <1>0, <1>12, <2>1 DEF AppendOk, PlaceInv, jsonlVars, Drained
<1>13. ASSUME FlushStarts \/ FlushFails \/ FlushOk PROVE PlaceInv'
  <2>1. todo = <<>>
    BY <1>0, <1>13 DEF FlushStarts, FlushFails, FlushOk, TypeOK
  <2> QED BY <1>0, <1>13, <2>1 DEF FlushStarts, FlushFails, FlushOk, PlaceInv, jsonlVars, ghosts
<1>14. ASSUME ProcessDies PROVE PlaceInv'
  <2>1. Range(promised') \subseteq Range(promised)
    BY <1>14, WholeEmpty DEF ProcessDies
  <2> QED BY <1>0, <1>14, <2>1 DEF ProcessDies, Down, PlaceInv
<1>15. ASSUME PowerLoss PROVE PlaceInv'
  <2>1. Range(promised') \subseteq Range(promised)
    <3>1. CASE kind # "jsonl"
      BY <1>15, <3>1, WholeEmpty DEF PowerLoss
    <3>2. CASE kind = "jsonl"
      <4>1. promised \in Seq(Exchanges) /\ fenced \in 0..Len(promised)
        BY DEF TypeOK
      <4>2. PICK a \in Seq(Exchanges), b \in Seq(Exchanges) :
               a = SubSeq(promised, 1, fenced) /\ a \o b = promised
        <5> DEFINE a == SubSeq(promised, 1, fenced)
                   b == SubSeq(promised, fenced + 1, Len(promised))
        <5>1. a \in Seq(Exchanges) /\ b \in Seq(Exchanges) /\ a \o b = promised
          BY <4>1, SplitAt
        <5> HIDE DEF b
        <5> QED BY <5>1
      <4>3. Range(a \o b) = Range(a) \cup Range(b)
        BY RangeConcatenation
      <4> QED BY <1>15, <3>2, <4>2, <4>3 DEF PowerLoss
    <3> QED BY <3>1, <3>2
  <2> QED BY <1>0, <1>15, <2>1 DEF PowerLoss, Down, PlaceInv
<1>16. ASSUME Reopen PROVE PlaceInv'
  BY <1>16 DEF Reopen, PlaceInv, jsonlVars, ghosts
<1> QED BY <1>2, <1>3, <1>4, <1>5, <1>6, <1>7, <1>8, <1>9, <1>10, <1>11, <1>12, <1>13,
           <1>14, <1>15, <1>16 DEF Next

\* Nothing is twice in a stream of three parts.
LEMMA OnceStream ==
    ASSUME NEW f \in Seq(Pieces), NEW i \in Seq(Pieces), NEW t \in Seq(Pieces)
    PROVE  Once(f \o (i \o t)) <=>
             /\ Once(f) /\ Once(i) /\ Once(t)
             /\ Range(f) \cap Range(i) = {} /\ Range(f) \cap Range(t) = {}
             /\ Range(i) \cap Range(t) = {}
<1>1. PICK u \in Seq(Pieces) : u = i \o t
  BY StreamFacts
<1>2. Range(u) = Range(i) \cup Range(t)
  BY <1>1, ConcatFacts
<1>3. Once(u) <=> Once(i) /\ Once(t) /\ Range(i) \cap Range(t) = {}
  BY <1>1, OnceConcat
<1>4. Once(f \o u) <=> Once(f) /\ Once(u) /\ Range(f) \cap Range(u) = {}
  BY OnceConcat
<1> QED BY <1>1, <1>2, <1>3, <1>4

\* What holds of the parts of the stream.
LEMMA StreamParts ==
    ASSUME TypeOK, LineInv
    PROVE  /\ file \in Seq(Pieces) /\ inflight \in Seq(Pieces) /\ todo \in Seq(Pieces)
           /\ buf \in Seq(Pieces) /\ Stream \in Seq(Pieces)
           /\ Range(Stream) = Range(file) \cup Range(inflight) \cup Range(todo)
           /\ Once(file) /\ Once(inflight) /\ Once(todo) /\ Once(buf)
           /\ Range(file) \cap Range(inflight) = {} /\ Range(file) \cap Range(todo) = {}
           /\ Range(inflight) \cap Range(todo) = {} /\ Range(Stream) \cap Range(buf) = {}
<1>1. /\ file \in Seq(Pieces) /\ inflight \in Seq(Pieces) /\ todo \in Seq(Pieces)
      /\ buf \in Seq(Pieces)
  BY DEF TypeOK
<1>2. Stream \in Seq(Pieces) /\ Range(Stream) = Range(file) \cup Range(inflight) \cup Range(todo)
  BY <1>1, StreamFacts DEF Stream
<1>3. /\ Once(file) /\ Once(inflight) /\ Once(todo)
      /\ Range(file) \cap Range(inflight) = {} /\ Range(file) \cap Range(todo) = {}
      /\ Range(inflight) \cap Range(todo) = {}
  BY <1>1, OnceStream DEF LineInv, Stream
<1> QED BY <1>1, <1>2, <1>3 DEF LineInv

\* An exchange that was not appended has left no trace.
LEMMA Fresh ==
    ASSUME TypeOK, LineInv, NEW e \in Exchanges, e \notin started \ queued
    PROVE  /\ Range(Stream) \cap Range(Line(e)) = {} /\ Range(buf) \cap Range(Line(e)) = {}
           /\ NewlineOf(e) \notin Range(file)
<1>1. /\ \A x \in Range(Line(e)) : x.of = e
      /\ NewlineOf(e) \in Range(Line(e))
  BY LineRange
<1>2. \A x \in Range(Stream) \cup Range(buf) : x.of # e
  BY DEF LineInv
<1>3. Range(file) \subseteq Range(Stream)
  BY StreamParts
<1> QED BY <1>1, <1>2, <1>3

\* The same after a step, from the types alone.
LEMMA NextStream ==
    ASSUME TypeOK'
    PROVE  /\ file' \in Seq(Pieces) /\ inflight' \in Seq(Pieces) /\ todo' \in Seq(Pieces)
           /\ Range(Stream') = Range(file') \cup Range(inflight') \cup Range(todo')
           /\ Once(Stream') <=>
                /\ Once(file') /\ Once(inflight') /\ Once(todo')
                /\ Range(file') \cap Range(inflight') = {} /\ Range(file') \cap Range(todo') = {}
                /\ Range(inflight') \cap Range(todo') = {}
           /\ inflight' = <<>> => Stream' = file' \o todo'
           /\ todo' = <<>> => Stream' = file' \o inflight'
           /\ inflight' = <<>> /\ todo' = <<>> => Stream' = file'
<1>1. file' \in Seq(Pieces) /\ inflight' \in Seq(Pieces) /\ todo' \in Seq(Pieces)
  BY DEF TypeOK
<1>2. PICK f \in Seq(Pieces), i \in Seq(Pieces), t \in Seq(Pieces) :
         f = file' /\ i = inflight' /\ t = todo'
  BY <1>1
<1>3. Stream' = f \o (i \o t)
  BY <1>2 DEF Stream
<1>4. /\ Range(f \o (i \o t)) = Range(f) \cup Range(i) \cup Range(t)
      /\ i = <<>> => f \o (i \o t) = f \o t
      /\ t = <<>> => f \o (i \o t) = f \o i
      /\ i = <<>> /\ t = <<>> => f \o (i \o t) = f
  <2>1. Range(f \o (i \o t)) = Range(f) \cup Range(i) \cup Range(t)
    BY StreamFacts
  <2>2. i = <<>> => f \o (i \o t) = f \o t
    BY StreamFacts
  <2>3. t = <<>> => f \o (i \o t) = f \o i
    BY StreamFacts
  <2>4. i = <<>> /\ t = <<>> => f \o (i \o t) = f
    BY StreamFacts
  <2> QED BY <2>1, <2>2, <2>3, <2>4
<1>5. Once(f \o (i \o t)) <=>
        /\ Once(f) /\ Once(i) /\ Once(t)
        /\ Range(f) \cap Range(i) = {} /\ Range(f) \cap Range(t) = {}
        /\ Range(i) \cap Range(t) = {}
  BY OnceStream
<1> QED BY <1>2, <1>3, <1>4, <1>5, Zenon

\* Nothing is ever written twice, or without what comes before it in its line.
LEMMA LineStep ==
    ASSUME TypeOK, PlaceInv, LineInv, Next, TypeOK'
    PROVE  LineInv'
<1>0. /\ Nobody \notin Exchanges /\ Flusher \notin Exchanges /\ Large \subseteq Exchanges
      /\ Nobody # Flusher /\ kind \in {"jsonl", "sqlite", "memory"}
  BY StorageAssumption DEF TypeOK
<1>t. /\ file \in Seq(Pieces) /\ inflight \in Seq(Pieces) /\ todo \in Seq(Pieces)
      /\ buf \in Seq(Pieces) /\ Stream \in Seq(Pieces)
      /\ Range(Stream) = Range(file) \cup Range(inflight) \cup Range(todo)
      /\ Once(file) /\ Once(inflight) /\ Once(todo) /\ Once(buf)
      /\ Range(file) \cap Range(inflight) = {} /\ Range(file) \cap Range(todo) = {}
      /\ Range(inflight) \cap Range(todo) = {} /\ Range(Stream) \cap Range(buf) = {}
  BY StreamParts
<1>s. /\ file' \in Seq(Pieces) /\ inflight' \in Seq(Pieces) /\ todo' \in Seq(Pieces)
      /\ Range(Stream') = Range(file') \cup Range(inflight') \cup Range(todo')
      /\ Once(Stream') <=>
           /\ Once(file') /\ Once(inflight') /\ Once(todo')
           /\ Range(file') \cap Range(inflight') = {} /\ Range(file') \cap Range(todo') = {}
           /\ Range(inflight') \cap Range(todo') = {}
      /\ inflight' = <<>> => Stream' = file' \o todo'
      /\ todo' = <<>> => Stream' = file' \o inflight'
      /\ inflight' = <<>> /\ todo' = <<>> => Stream' = file'
  BY NextStream
<1>1. ASSUME UNCHANGED <<file, inflight, todo, buf, failed, started>>, queued' \subseteq queued
      PROVE  LineInv'
  BY <1>1 DEF LineInv, Stream
<1>2. ASSUME NEW e \in Exchanges, StartLine(e) PROVE LineInv'
  <2>1. /\ Line(e) \in Seq(Pieces) /\ Whole(Line(e)) /\ Once(Line(e))
        /\ \A x \in Range(Line(e)) : x.of = e
    BY LineFacts, WholeLine, LineRange
  <2>2. /\ Range(Stream) \cap Range(Line(e)) = {} /\ Range(buf) \cap Range(Line(e)) = {}
    BY <1>2, Fresh DEF StartLine
  <2>3. PICK t \in Seq(Pieces) : t = Line(e)
    BY <2>1
  <2>4. /\ UNCHANGED <<file, inflight, failed>> /\ started' = started \cup {e}
        /\ todo = <<>> /\ queued' = {} /\ queued = {}
    BY <1>0, <1>2 DEF StartLine, TypeOK, PlaceInv
  <2>5. CASE e \notin Large
    <3>1. buf' = buf \o t /\ todo' = todo
      BY <1>2, <2>3, <2>5 DEF StartLine, Buffered
    <3>2. Whole(buf') /\ Range(buf') = Range(buf) \cup Range(t) /\ Once(buf')
      BY <1>t, <2>1, <2>2, <2>3, <3>1, WholeConcat, OnceConcat, ConcatFacts DEF LineInv
    <3>3. Stream' = Stream
      BY <2>4, <3>1 DEF Stream
    <3> QED BY <2>1, <2>2, <2>3, <2>4, <3>2, <3>3 DEF LineInv
  <2>6. CASE e \in Large
    <3>1. todo' = t /\ buf' = buf
      BY <1>2, <2>3, <2>6 DEF StartLine, Buffered
    <3>2. Stream' = Stream \o t
      <4>1. Stream' = (file \o inflight) \o t
        <5>1. file \in Seq(Pieces) /\ inflight \in Seq(Pieces)
          BY <1>t
        <5>2. (file \o inflight) \o t = file \o (inflight \o t)
          BY <5>1, JoinAssociative
        <5> QED BY <2>4, <3>1, <5>2 DEF Stream
      <4>2. Stream = file \o inflight
        BY <1>t, <2>4, StreamFacts DEF Stream
      <4> QED BY <4>1, <4>2
    <3>3. Range(Stream') = Range(Stream) \cup Range(t) /\ Once(Stream')
      BY <1>t, <2>1, <2>2, <2>3, <3>2, OnceConcat, ConcatFacts DEF LineInv
    <3>4. ~failed => Chained(Stream')
      BY <1>t, <2>1, <2>3, <3>2, ChainedConcat DEF LineInv, Whole
    <3> QED BY <2>1, <2>2, <2>3, <2>4, <3>1, <3>3, <3>4 DEF LineInv
  <2> QED BY <2>5, <2>6
<1>3. ASSUME NEW e \in Exchanges, SendInsert(e) PROVE LineInv'
  <2>1. /\ UNCHANGED <<file, inflight, todo, buf, failed>> /\ e \notin started
        /\ started' = started \cup {e} /\ queued' = queued \cup {e}
    BY <1>3 DEF SendInsert, jsonlVars
  <2> QED BY <2>1 DEF LineInv, Stream
<1>4. ASSUME NEW e \in Exchanges, file' = file \o Line(e), e \notin started \ queued,
             inflight = <<>>, todo = <<>>, buf = <<>>, ~failed, e \in started' \ queued',
             started \subseteq started', queued' \subseteq queued,
             UNCHANGED <<inflight, todo, buf, failed>>
      PROVE  LineInv'
  <2>1. /\ Line(e) \in Seq(Pieces) /\ Whole(Line(e)) /\ Once(Line(e))
        /\ \A x \in Range(Line(e)) : x.of = e
    BY LineFacts, WholeLine, LineRange
  <2>2. Range(Stream) \cap Range(Line(e)) = {}
    BY <1>4, Fresh
  <2>3. PICK t \in Seq(Pieces) : t = Line(e)
    BY <2>1
  <2>4. Stream = file /\ Stream' = file' /\ file' = file \o t
    BY <1>4, <1>t, <1>s, <2>3, StreamFacts DEF Stream
  <2>5. Range(file') = Range(file) \cup Range(t) /\ Once(file')
    BY <1>t, <2>1, <2>2, <2>3, <2>4, OnceConcat, ConcatFacts
  <2>6. Chained(file')
    BY <1>t, <2>1, <2>3, <2>4, ChainedConcat DEF LineInv, Whole
  <2>7. Whole(buf') /\ Once(buf') /\ Range(buf') = {}
    BY <1>4, WholeEmpty
  <2> QED BY <1>4, <2>1, <2>3, <2>4, <2>5, <2>6, <2>7 DEF LineInv
<1>5. ASSUME NEW e \in Exchanges, Insert(e) PROVE LineInv'
  <2>1. /\ file' = file \o Line(e) /\ e \in queued /\ queued' = queued \ {e} /\ e \in started
        /\ started' = started /\ UNCHANGED <<inflight, todo, buf, failed>>
        /\ inflight = <<>> /\ todo = <<>> /\ buf = <<>> /\ ~failed
    BY <1>5 DEF Insert, PlaceInv, jsonlVars
  <2> QED BY <1>4, <2>1
<1>6. ASSUME NEW e \in Exchanges, Push(e) PROVE LineInv'
  <2>1. /\ file' = file \o Line(e) /\ e \notin started /\ queued = {} /\ queued' = queued
        /\ started' = started \cup {e} /\ UNCHANGED <<inflight, todo, buf, failed>>
        /\ inflight = <<>> /\ todo = <<>> /\ buf = <<>> /\ ~failed
    BY <1>6 DEF Push, PlaceInv, jsonlVars
  <2> QED BY <1>4, <2>1
<1>7. ASSUME NEW e \in Exchanges, InsertFails(e) PROVE LineInv'
  BY <1>1, <1>7 DEF InsertFails, jsonlVars, ghosts
<1>8. ASSUME HandOver PROVE LineInv'
  <2>0. /\ inflight = <<>> /\ ~failed /\ ~failed'
        /\ UNCHANGED <<file, started, queued>>
    BY <1>8 DEF HandOver, ghosts
  <2>1. CASE buf # <<>>
    <3>1. inflight' = buf /\ buf' = <<>> /\ todo' = todo
      BY <1>8, <2>1 DEF HandOver
    <3>2. Whole(todo)
      BY <1>0, <2>1, WholeEmpty, WholeLine DEF PlaceInv
    <3>3. Chained(Stream')
      <4>1. Chained(buf \o todo) /\ buf \o todo \in Seq(Pieces)
        BY <1>t, <3>2, ChainedConcat, ConcatFacts DEF LineInv, Whole
      <4>2. PICK u \in Seq(Pieces) : u = buf \o todo
        BY <4>1
      <4>3. Stream' = file \o u
        BY <2>0, <3>1, <4>2 DEF Stream
      <4> QED BY <1>t, <4>1, <4>2, <4>3, ChainedConcat DEF LineInv
    <3>4. Range(Stream') = Range(Stream) \cup Range(buf) /\ Once(Stream')
      BY <1>s, <1>t, <2>0, <3>1, WholeEmpty
    <3> QED BY <2>0, <3>1, <3>3, <3>4, WholeEmpty DEF LineInv
  <2>2. CASE buf = <<>>
    <3>1. PICK n \in 1..Len(todo) :
             /\ inflight' = SubSeq(todo, 1, n) /\ todo' = SubSeq(todo, n + 1, Len(todo))
      BY <1>8, <2>2 DEF HandOver
    <3>2. n \in 0..Len(todo)
      BY <1>t, <3>1
    <3>3. inflight' \o todo' = todo
      BY <1>t, <3>1, <3>2, SplitAt
    <3>4. Stream = file \o todo
      BY <1>t, <2>0, StreamFacts DEF Stream
    <3>5. Stream' = Stream /\ buf' = buf
      BY <1>8, <2>0, <2>2, <3>3, <3>4 DEF Stream, HandOver
    <3> QED BY <2>0, <3>5 DEF LineInv
  <2> QED BY <2>1, <2>2
<1>9. ASSUME Write PROVE LineInv'
  <2>0. UNCHANGED <<todo, buf, failed, queued, started>>
    BY <1>9 DEF Write, ghosts
  <2>1. PICK n \in 1..Len(inflight) :
           /\ file' = file \o SubSeq(inflight, 1, n)
           /\ inflight' = SubSeq(inflight, n + 1, Len(inflight))
    BY <1>9 DEF Write
  <2>2. n \in 0..Len(inflight) /\ inflight # <<>> /\ ~failed
    BY <1>t, <2>1 DEF PlaceInv
  <2>3. /\ SubSeq(inflight, 1, n) \in Seq(Pieces)
        /\ SubSeq(inflight, 1, n) \o SubSeq(inflight, n + 1, Len(inflight)) = inflight
    BY <1>t, <2>2, SplitAt
  <2>4. PICK a \in Seq(Pieces), b \in Seq(Pieces) :
           file' = file \o a /\ inflight' = b /\ a \o b = inflight
    BY <1>s, <2>1, <2>3
  <2>5. Stream' = Stream /\ Stream' = file' \o (b \o todo) /\ b \o todo \in Seq(Pieces)
    <3>0. file \in Seq(Pieces) /\ todo \in Seq(Pieces)
      BY <1>t
    <3>3. b \o todo \in Seq(Pieces)
      BY <3>0, ConcatFacts
    <3>a. a \in Seq(Pieces) /\ b \in Seq(Pieces)
      BY <2>4
    <3>1. SameStream(file, a, b, todo)
      BY <3>a, <3>0, WriteKeepsStream
    <3>2. Stream' = (file \o a) \o (b \o todo) /\ Stream = file \o ((a \o b) \o todo)
      BY <2>0, <2>4 DEF Stream
    <3> QED BY <2>4, <3>1, <3>2, <3>3 DEF SameStream
  <2>6. Chained(file')
    BY <1>s, <2>2, <2>5, ChainedPrefix DEF LineInv
  <2> QED BY <2>0, <2>5, <2>6 DEF LineInv
<1>10. ASSUME inflight' = <<>>, todo' \in {todo, <<>>}, file' = file, failed' \/ todo' = <<>>,
              buf' \in {buf, <<>>}, started' = started, queued' \subseteq queued
       PROVE  LineInv'
  <2>1. Range(Stream') \subseteq Range(Stream) /\ Once(Stream')
    BY <1>10, <1>s, <1>t, WholeEmpty
  <2>2. ~failed' => Stream' = file'
    BY <1>10, <1>s
  <2>3. Whole(buf') /\ Once(buf') /\ Range(buf') \subseteq Range(buf)
    BY <1>10, WholeEmpty DEF LineInv
  <2> QED BY <1>10, <2>1, <2>2, <2>3 DEF LineInv
<1>11. ASSUME WriteFails PROVE LineInv'
  BY <1>10, <1>11 DEF WriteFails
<1>12. ASSUME ReportError PROVE LineInv'
  <2>1. inflight = <<>>
    BY <1>12 DEF ReportError, PlaceInv
  <2> QED BY <1>10, <1>12, <2>1 DEF ReportError, ghosts
<1>13. ASSUME Cancel PROVE LineInv'
  <2>1. todo' = <<>> /\ UNCHANGED <<buf, inflight, failed, queued, file, started>>
    BY <1>13 DEF Cancel, ghosts
  <2>2. /\ Stream' = file \o inflight /\ Stream = (file \o inflight) \o todo
        /\ file \o inflight \in Seq(Pieces)
    <3>1. Stream' = file \o inflight
      BY <1>s, <2>1
    <3>2. file \in Seq(Pieces) /\ inflight \in Seq(Pieces) /\ todo \in Seq(Pieces)
      BY <1>t
    <3>3. file \o (inflight \o todo) = (file \o inflight) \o todo
      BY <3>2, StreamFacts
    <3>4. file \o inflight \in Seq(Pieces)
      BY <3>2, StreamFacts
    <3> QED BY <3>1, <3>3, <3>4 DEF Stream
  <2>3. ~failed => Chained(Stream')
    BY <1>t, <2>2, ChainedPrefix DEF LineInv
  <2>4. Range(Stream') \subseteq Range(Stream) /\ Once(Stream')
    BY <1>s, <1>t, <2>1, WholeEmpty
  <2> QED BY <2>1, <2>3, <2>4 DEF LineInv
<1>14. ASSUME AppendOk \/ FlushStarts \/ FlushOk \/ FlushFails \/ Reopen PROVE LineInv'
  BY <1>1, <1>14 DEF AppendOk, FlushStarts, FlushOk, FlushFails, Reopen, jsonlVars, ghosts
<1>15. ASSUME NEW n \in 0..Len(file), file' = SubSeq(file, 1, n), Down PROVE LineInv'
  <2>1. /\ inflight' = <<>> /\ todo' = <<>> /\ buf' = <<>> /\ queued' = {} /\ started' = started
    BY <1>15 DEF Down
  <2>2. /\ SubSeq(file, 1, n) \in Seq(Pieces) /\ SubSeq(file, n + 1, Len(file)) \in Seq(Pieces)
        /\ SubSeq(file, 1, n) \o SubSeq(file, n + 1, Len(file)) = file
    BY <1>t, SplitAt
  <2>3. PICK a \in Seq(Pieces), b \in Seq(Pieces) : a = file' /\ a \o b = file
    BY <1>15, <2>2
  <2>4. Chained(a) /\ Once(a) /\ Range(a) \subseteq Range(file)
    <3>1. Range(a \o b) = Range(a) \cup Range(b)
      BY ConcatFacts
    <3>2. Chained(a)
      BY <2>3, ChainedPrefix DEF LineInv
    <3>3. Once(a)
      BY <1>t, <2>3, OnceConcat
    <3> QED BY <2>3, <3>1, <3>2, <3>3
  <2>5. Stream' = file'
    BY <1>s, <2>1
  <2> QED BY <1>t, <2>1, <2>3, <2>4, <2>5, WholeEmpty DEF LineInv
<1>16. ASSUME ProcessDies PROVE LineInv'
  <2>1. CASE kind = "memory"
    <3>1. file' = SubSeq(file, 1, 0) /\ 0 \in 0..Len(file)
      BY <1>16, <1>t, <2>1 DEF ProcessDies
    <3> QED BY <1>15, <1>16, <3>1 DEF ProcessDies
  <2>2. CASE kind # "memory"
    BY <1>10, <1>16, <2>2 DEF ProcessDies, Down
  <2> QED BY <2>1, <2>2
<1>17. ASSUME PowerLoss PROVE LineInv'
  <2>1. PICK n \in Cuts : file' = SubSeq(file, 1, n)
    BY <1>17 DEF PowerLoss
  <2>2. n \in 0..Len(file)
    <3>1. synced \in 0..Len(file) /\ Len(file) \in Nat
      BY <1>t DEF TypeOK
    <3>2. Cuts \subseteq 0..Len(file)
      BY <1>0, <3>1 DEF Cuts
    <3> QED BY <2>1, <3>2
  <2> QED BY <1>15, <1>17, <2>1, <2>2 DEF PowerLoss
<1> QED BY <1>2, <1>3, <1>5, <1>6, <1>7, <1>8, <1>9, <1>11, <1>12, <1>13, <1>14, <1>16,
           <1>17 DEF Next

\* What is expected on the medium is there, but for the last line.
LEMMA ExpectedFacts ==
    ASSUME TypeOK, AckInv
    PROVE  /\ promised \in Seq(Exchanges) /\ Expected \in Seq(Exchanges)
           /\ op \in Exchanges => Expected = Append(promised, op)
           /\ op \notin Exchanges => Expected = promised
           /\ \A i \in 1..Len(Expected) :
                NewlineOf(Expected[i]) \in Range(file) \/ i = Len(Expected)
           /\ InOrder(promised, file)
<1>1. promised \in Seq(Exchanges) /\ file \in Seq(Pieces)
  BY DEF TypeOK
<1>2. /\ op \in Exchanges => Expected = Append(promised, op)
      /\ op \notin Exchanges => Expected = promised
  BY DEF Expected
<1>3. \A i \in 1..Len(promised) : NewlineOf(promised[i]) \in Range(file)
  <2>1. \A i \in 1..Len(promised) : promised[i] \in Range(promised)
    BY <1>1, RangeFacts
  <2> QED BY <2>1 DEF AckInv
<1>4. CASE op \in Exchanges
  <2>1. PICK e \in Exchanges : e = op
    BY <1>4
  <2>2. /\ Append(promised, e) \in Seq(Exchanges) /\ Len(promised) \in Nat
        /\ Len(Append(promised, e)) = Len(promised) + 1
        /\ \A i \in 1..Len(promised) : Append(promised, e)[i] = promised[i]
        /\ \A i \in 1..Len(Append(promised, e)) : i \in 1..Len(promised) \/ i = Len(promised) + 1
    BY <1>1, AppendFacts
  <2>3. PICK kept \in Seq(Exchanges) : kept = Append(promised, e)
    BY <2>2
  <2>4. Expected = kept /\ InOrder(kept, file)
    BY <1>2, <2>1, <2>3 DEF AckInv
  <2>5. Len(promised) <= Len(kept) /\ \A i \in 1..Len(promised) : promised[i] = kept[i]
    BY <2>2, <2>3
  <2>6. InOrder(promised, file)
    BY <1>1, <2>4, <2>5, InOrderPrefix
  <2>7. \A i \in 1..Len(kept) : NewlineOf(kept[i]) \in Range(file) \/ i = Len(kept)
    BY <1>3, <2>2, <2>3
  <2> QED BY <1>1, <1>2, <1>4, <2>4, <2>6, <2>7
<1>5. CASE op \notin Exchanges
  BY <1>1, <1>2, <1>3, <1>5 DEF AckInv
<1> QED BY <1>4, <1>5

\* An acknowledged exchange is acknowledged once.
LEMMA PromiseOnce ==
    ASSUME NEW kept \in Seq(Exchanges), NEW e \in Exchanges, e \notin Range(kept),
           \A i, j \in 1..Len(kept) : kept[i] = kept[j] => i = j
    PROVE  \A i, j \in 1..Len(Append(kept, e)) : Append(kept, e)[i] = Append(kept, e)[j] => i = j
<1> DEFINE more == Append(kept, e)
<1>1. /\ \A i \in 1..Len(kept) : more[i] = kept[i]
      /\ \A i \in 1..Len(more) : i \in 1..Len(kept) \/ (i = Len(kept) + 1 /\ more[i] = e)
  BY AppendFacts
<1>2. \A i \in 1..Len(kept) : kept[i] \in Range(kept)
  BY RangeFacts
<1> HIDE DEF more
<1>3. \A i, j \in 1..Len(more) : more[i] = more[j] => i = j
  BY <1>1, <1>2
<1> QED BY <1>3 DEF more

\* What was acknowledged stays, and in order, whatever happens next.
LEMMA AckStep ==
    ASSUME TypeOK, PlaceInv, LineInv, AckInv, Next, TypeOK', LineInv'
    PROVE  AckInv'
<1>0. /\ Nobody \notin Exchanges /\ Flusher \notin Exchanges /\ Large \subseteq Exchanges
      /\ Nobody # Flusher /\ kind \in {"jsonl", "sqlite", "memory"}
  BY StorageAssumption DEF TypeOK
<1>t. /\ file \in Seq(Pieces) /\ inflight \in Seq(Pieces) /\ todo \in Seq(Pieces)
      /\ buf \in Seq(Pieces) /\ Stream \in Seq(Pieces)
      /\ Range(Stream) = Range(file) \cup Range(inflight) \cup Range(todo)
  BY StreamParts
<1>s. /\ file' \in Seq(Pieces)
      /\ Range(Stream') = Range(file') \cup Range(inflight') \cup Range(todo')
      /\ Once(file')
  BY NextStream DEF LineInv
<1>x. /\ promised \in Seq(Exchanges) /\ Expected \in Seq(Exchanges)
      /\ op \in Exchanges => Expected = Append(promised, op)
      /\ op \notin Exchanges => Expected = promised
      /\ \A i \in 1..Len(Expected) : NewlineOf(Expected[i]) \in Range(file) \/ i = Len(Expected)
      /\ InOrder(promised, file) /\ InOrder(Expected, file)
  BY ExpectedFacts DEF AckInv
<1>f. ASSUME NEW e \in Exchanges, e \notin started \ queued, op \notin Exchanges
      PROVE  InOrder(Append(promised, e), file)
  BY <1>f, <1>t, <1>x, Fresh, InOrderExtend
<1>1. ASSUME UNCHANGED <<kind, file, promised, fenced, synced>>, InOrder(Expected', file),
             kind = "jsonl" /\ op' \in Exchanges /\ ~failed' =>
               NewlineOf(op') \in Range(Stream') \cup Range(buf')
      PROVE  AckInv'
  BY <1>1 DEF AckInv
<1>2. ASSUME NEW e \in Exchanges, StartLine(e) PROVE AckInv'
  <2>1. /\ UNCHANGED <<kind, file, promised, fenced, synced>> /\ op' = e /\ op = Nobody
        /\ e \notin started
    BY <1>2 DEF StartLine
  <2>2. InOrder(Expected', file)
    BY <1>0, <1>f, <2>1 DEF Expected
  <2>3. PICK t \in Seq(Pieces) : t = Line(e) /\ NewlineOf(e) \in Range(t)
    BY LineFacts, LineRange
  <2>4. Range(buf \o t) = Range(buf) \cup Range(t)
    BY <1>t, ConcatFacts
  <2>5. NewlineOf(e) \in Range(todo') \cup Range(buf')
    BY <1>2, <2>3, <2>4 DEF StartLine
  <2> QED BY <1>1, <1>s, <2>1, <2>2, <2>5
<1>3. ASSUME NEW e \in Exchanges, SendInsert(e) PROVE AckInv'
  <2>1. /\ UNCHANGED <<kind, file, promised, fenced, synced>> /\ op' = e /\ op = Nobody
        /\ e \notin started /\ kind = "sqlite"
    BY <1>3 DEF SendInsert
  <2>2. InOrder(Expected', file)
    BY <1>0, <1>f, <2>1 DEF Expected
  <2> QED BY <1>1, <2>1, <2>2
<1>4. ASSUME NEW e \in Exchanges, InsertFails(e) PROVE AckInv'
  <2>1. /\ UNCHANGED <<kind, file, promised, fenced, synced>> /\ kind = "sqlite"
        /\ op' \in {op, Nobody}
    BY <1>4 DEF InsertFails, ghosts
  <2>2. InOrder(Expected', file)
    BY <1>0, <1>x, <2>1 DEF Expected
  <2> QED BY <1>1, <2>1, <2>2
<1>5. ASSUME HandOver PROVE AckInv'
  <2>1. /\ UNCHANGED <<kind, file, promised, fenced, synced, op, failed>>
        /\ inflight = <<>>
    BY <1>5 DEF HandOver, ghosts
  <2>2. InOrder(Expected', file)
    BY <1>x, <2>1 DEF Expected
  <2>3. Range(inflight') \cup Range(todo') \cup Range(buf') = Range(todo) \cup Range(buf)
    <3>1. CASE buf # <<>>
      BY <1>5, <3>1, WholeEmpty DEF HandOver
    <3>2. CASE buf = <<>>
      <4>1. PICK n \in 1..Len(todo) :
               /\ inflight' = SubSeq(todo, 1, n) /\ todo' = SubSeq(todo, n + 1, Len(todo))
               /\ buf' = buf
        BY <1>5, <3>2 DEF HandOver
      <4>2. n \in 0..Len(todo)
        BY <1>t, <4>1
      <4>3. inflight' \in Seq(Pieces) /\ todo' \in Seq(Pieces) /\ inflight' \o todo' = todo
        BY <1>t, <4>1, <4>2, SplitAt
      <4>4. Range(inflight' \o todo') = Range(inflight') \cup Range(todo')
        BY <4>3, ConcatFacts
      <4> QED BY <4>1, <4>3, <4>4
    <3> QED BY <3>1, <3>2
  <2>4. Range(Stream') \cup Range(buf') = Range(Stream) \cup Range(buf)
    BY <1>s, <1>t, <2>1, <2>3, WholeEmpty
  <2>5. kind = "jsonl" /\ op' \in Exchanges /\ ~failed' =>
          NewlineOf(op') \in Range(Stream') \cup Range(buf')
    BY <2>1, <2>4 DEF AckInv
  <2> QED BY <1>1, <2>1, <2>2, <2>5
<1>6. ASSUME WriteFails PROVE AckInv'
  <2>1. UNCHANGED <<kind, file, promised, fenced, synced, op>> /\ failed'
    BY <1>6 DEF WriteFails
  <2>2. InOrder(Expected', file)
    BY <1>x, <2>1 DEF Expected
  <2> QED BY <1>1, <2>1, <2>2
<1>7. ASSUME ReportError \/ Cancel \/ FlushStarts \/ FlushFails \/ Reopen PROVE AckInv'
  <2>1. UNCHANGED <<kind, file, promised, fenced, synced>> /\ op' \notin Exchanges
    BY <1>0, <1>7 DEF ReportError, Cancel, FlushStarts, FlushFails, Reopen, ghosts, PlaceInv
  <2>2. InOrder(Expected', file)
    BY <1>x, <2>1 DEF Expected
  <2> QED BY <1>1, <2>1, <2>2
<1>8. ASSUME FlushOk PROVE AckInv'
  <2>1. /\ UNCHANGED <<kind, file, promised>> /\ op' \notin Exchanges
        /\ synced' = Len(file) /\ fenced' = Len(promised)
    BY <1>0, <1>8 DEF FlushOk
  <2>2. InOrder(Expected', file)
    BY <1>x, <2>1 DEF Expected
  <2>3. ASSUME NEW i \in 1..Len(promised)
        PROVE  \E p \in 1..Len(file) : file[p] = NewlineOf(promised[i])
    <3>1. promised[i] \in Range(promised)
      BY <1>x, RangeFacts
    <3>2. NewlineOf(promised[i]) \in Range(file)
      BY <3>1 DEF AckInv
    <3> QED BY <1>t, <3>2, RangeFacts
  <2> QED BY <2>1, <2>2, <2>3 DEF AckInv
<1>9. ASSUME AppendOk PROVE AckInv'
  <2>1. /\ kind = "jsonl" /\ op \in Exchanges /\ ~failed /\ op' \notin Exchanges
        /\ UNCHANGED <<kind, file, synced, fenced>> /\ promised' = Append(promised, op)
        /\ todo = <<>> /\ buf = <<>> /\ inflight = <<>>
    BY <1>0, <1>9 DEF AppendOk, Drained
  <2>2. PICK e \in Exchanges : e = op
    BY <2>1
  <2>3. /\ Range(Append(promised, e)) = Range(promised) \cup {e}
        /\ \A i \in 1..Len(promised) : Append(promised, e)[i] = promised[i]
    BY <1>x, AppendFacts
  <2>4. NewlineOf(e) \in Range(file)
    BY <1>t, <2>1, <2>2, WholeEmpty DEF AckInv
  <2>5. InOrder(Expected', file)
    BY <1>x, <2>1 DEF Expected
  <2>6. e \notin Range(promised)
    BY <2>2 DEF PlaceInv
  <2>7. \A i, j \in 1..Len(promised') : promised'[i] = promised'[j] => i = j
    BY <1>x, <2>1, <2>2, <2>6, PromiseOnce DEF AckInv
  <2>8. ASSUME NEW i \in 1..fenced
        PROVE  \E p \in 1..synced : file[p] = NewlineOf(promised'[i])
    <3>1. i \in 1..Len(promised)
      BY DEF TypeOK
    <3>2. promised'[i] = promised[i]
      BY <2>1, <2>2, <2>3, <3>1
    <3> QED BY <2>1, <3>2 DEF AckInv
  <2> QED BY <2>1, <2>2, <2>3, <2>4, <2>5, <2>7, <2>8 DEF AckInv
\* The content grows and what was expected still is.
<1>g. ASSUME NEW a \in Seq(Pieces), file' = file \o a, UNCHANGED <<kind, synced, fenced>>
      PROVE  /\ Range(file') = Range(file) \cup Range(a)
             /\ \A p \in 1..synced : file'[p] = file[p]
             /\ \A kept \in Seq(Exchanges) :
                  /\ InOrder(kept, file)
                  /\ \A i \in 1..Len(kept) : NewlineOf(kept[i]) \in Range(file) \/ i = Len(kept)
                  => InOrder(kept, file')
  <2>1. /\ Range(file \o a) = Range(file) \cup Range(a)
        /\ \A p \in 1..Len(file) : (file \o a)[p] = file[p]
    BY <1>t, ConcatFacts
  <2>2. \A p \in 1..synced : p \in 1..Len(file)
    BY DEF TypeOK
  <2>3. ASSUME NEW kept \in Seq(Exchanges), InOrder(kept, file),
               \A i \in 1..Len(kept) : NewlineOf(kept[i]) \in Range(file) \/ i = Len(kept)
        PROVE  InOrder(kept, file')
    BY <1>g, <1>s, <1>t, <2>3, InOrderGrow
  <2> QED BY <1>g, <2>1, <2>2, <2>3
<1>10. ASSUME Write PROVE AckInv'
  <2>1. /\ kind = "jsonl" /\ UNCHANGED <<kind, op, failed, buf, todo, synced, promised, fenced>>
    BY <1>10 DEF Write, ghosts
  <2>2. PICK n \in 1..Len(inflight) :
           /\ file' = file \o SubSeq(inflight, 1, n)
           /\ inflight' = SubSeq(inflight, n + 1, Len(inflight))
    BY <1>10 DEF Write
  <2>3. n \in 0..Len(inflight)
    BY <1>t, <2>2
  <2>4. /\ SubSeq(inflight, 1, n) \in Seq(Pieces) /\ inflight' \in Seq(Pieces)
        /\ SubSeq(inflight, 1, n) \o inflight' = inflight
    BY <1>t, <2>2, <2>3, SplitAt
  <2>5. PICK a \in Seq(Pieces), b \in Seq(Pieces) :
           file' = file \o a /\ inflight' = b /\ a \o b = inflight
    BY <2>2, <2>4
  <2>6. Range(a \o b) = Range(a) \cup Range(b)
    BY ConcatFacts
  <2>7. /\ Range(file') = Range(file) \cup Range(a)
        /\ \A p \in 1..synced : file'[p] = file[p]
    BY <1>g, <2>1, <2>5
  <2>8. InOrder(Expected, file')
    BY <1>g, <1>x, <2>1, <2>5
  <2>9. Expected' = Expected
    BY <2>1 DEF Expected
  <2>10. Range(Stream') = Range(Stream)
    BY <1>s, <1>t, <2>1, <2>5, <2>6, <2>7
  <2> QED BY <2>1, <2>7, <2>8, <2>9, <2>10 DEF AckInv
<1>11. ASSUME NEW e \in Exchanges, Insert(e) \/ Push(e) PROVE AckInv'
  <2>1. /\ kind # "jsonl" /\ UNCHANGED <<kind, synced, fenced>>
        /\ file' = file \o Line(e)
    BY <1>11 DEF Insert, Push
  <2>2. PICK a \in Seq(Pieces) : a = Line(e) /\ NewlineOf(e) \in Range(a)
    BY LineFacts, LineRange
  <2>3. Range(file') = Range(file) \cup Range(a)
    BY <1>g, <2>1, <2>2
  <2>4. CASE promised' = promised /\ op' = op
    <3>1. InOrder(Expected, file')
      BY <1>g, <1>x, <2>1, <2>2
    <3>2. Expected' = Expected
      BY <2>4 DEF Expected
    <3> QED BY <2>1, <2>3, <2>4, <3>1, <3>2 DEF AckInv
  <2>5. CASE promised' = Append(promised, e) /\ op' \notin Exchanges /\ e \notin Range(promised)
             /\ InOrder(Append(promised, e), file)
    <3>1. PICK kept \in Seq(Exchanges) : kept = Append(promised, e)
      BY <1>x, AppendFacts
    <3>2. /\ Range(kept) = Range(promised) \cup {e}
          /\ \A i, j \in 1..Len(kept) : kept[i] = kept[j] => i = j
      BY <1>x, <2>5, <3>1, AppendFacts, PromiseOnce DEF AckInv
    <3>3. \A i \in 1..Len(kept) : NewlineOf(kept[i]) \in Range(file) \/ i = Len(kept)
      <4>1. /\ Len(promised) \in Nat /\ Len(kept) = Len(promised) + 1
            /\ \A i \in 1..Len(promised) : kept[i] = promised[i]
        BY <1>x, <3>1, AppendFacts
      <4>2. \A i \in 1..Len(promised) : NewlineOf(promised[i]) \in Range(file)
        BY <1>x, RangeFacts DEF AckInv
      <4> QED BY <4>1, <4>2
    <3>4. InOrder(kept, file')
      BY <1>g, <2>1, <2>2, <2>5, <3>1, <3>3
    <3>5. Expected' = kept /\ promised' = kept
      BY <2>5, <3>1 DEF Expected
    <3> QED BY <2>1, <2>2, <2>3, <2>5, <3>2, <3>4, <3>5 DEF AckInv
  <2>6. CASE Insert(e)
    <3>1. CASE op = e
      BY <1>0, <1>x, <2>5, <2>6, <3>1 DEF Insert, PlaceInv
    <3>2. CASE op # e
      BY <2>4, <2>6, <3>2 DEF Insert
    <3> QED BY <3>1, <3>2
  <2>7. CASE Push(e)
    <3>1. op = Nobody /\ op' = op /\ e \notin started /\ e \notin Range(promised)
          /\ promised' = Append(promised, e)
      BY <2>7 DEF Push, PlaceInv
    <3>2. InOrder(Append(promised, e), file)
      BY <1>0, <1>f, <3>1
    <3> QED BY <1>0, <2>5, <3>1, <3>2
  <2> QED BY <1>11, <2>6, <2>7
<1>12. ASSUME Down, UNCHANGED <<file, synced, promised, fenced>> PROVE AckInv'
  <2>1. kind' = kind /\ op' \notin Exchanges
    BY <1>0, <1>12 DEF Down
  <2>2. InOrder(Expected', file)
    BY <1>12, <1>x, <2>1 DEF Expected
  <2> QED BY <1>1, <1>12, <2>1, <2>2
<1>13. ASSUME Down, promised' = <<>>, fenced' = 0 PROVE AckInv'
  <2>1. kind' = kind /\ op' \notin Exchanges
    BY <1>0, <1>13 DEF Down
  <2>2. InOrder(<<>>, file')
    BY DEF InOrder
  <2>3. Expected' = <<>>
    BY <1>13, <2>1 DEF Expected
  <2>4. Range(promised') = {} /\ Len(promised') = 0
    BY <1>13, WholeEmpty
  <2>5. \A i \in 1..0 : FALSE
    OBVIOUS
  <2> QED BY <1>13, <2>1, <2>2, <2>3, <2>4, <2>5 DEF AckInv
<1>14. ASSUME ProcessDies PROVE AckInv'
  BY <1>12, <1>13, <1>14 DEF ProcessDies
<1>15. ASSUME PowerLoss PROVE AckInv'
  <2>1. CASE kind # "jsonl"
    <3>1. promised' = <<>> /\ fenced' = 0 /\ Down
      BY <1>15, <2>1 DEF PowerLoss
    <3> QED BY <1>13, <3>1
  <2>2. CASE kind = "jsonl"
    <3>1. PICK n \in synced..Len(file) : file' = SubSeq(file, 1, n) /\ synced' = n
      BY <1>15, <2>2 DEF PowerLoss, Cuts
    <3>2. n \in 0..Len(file) /\ 1..synced \subseteq 1..n
      BY <1>t, <3>1 DEF TypeOK
    <3>3. Len(file') = n /\ \A p \in 1..n : file'[p] = file[p]
      BY <1>t, <3>1, <3>2, SplitAt
    <3>4. promised' = SubSeq(promised, 1, fenced) /\ op' \notin Exchanges /\ kind' = kind
      BY <1>0, <1>15, <2>2 DEF PowerLoss, Down
    <3>5. fenced \in 0..Len(promised)
      BY DEF TypeOK
    <3>6. PICK less \in Seq(Exchanges) :
             /\ less = promised' /\ Len(less) = fenced
             /\ \A i \in 1..fenced : less[i] = promised[i]
      <4>1. /\ SubSeq(promised, 1, fenced) \in Seq(Exchanges)
            /\ Len(SubSeq(promised, 1, fenced)) = fenced
            /\ \A i \in 1..fenced : SubSeq(promised, 1, fenced)[i] = promised[i]
        BY <1>x, <3>5, SplitAt
      <4> QED BY <3>4, <4>1
    <3>7. fenced' = fenced /\ Expected' = less
      BY <1>15, <3>4, <3>6 DEF PowerLoss, Expected
    <3>8. InOrder(less, file')
      <4>1. Len(less) <= Len(promised) /\ Len(file') <= Len(file)
        BY <1>t, <1>x, <3>2, <3>3, <3>5, <3>6
      <4>2. PICK t \in Seq(Pieces) : t = file'
        BY <1>s
      <4>3. Len(t) <= Len(file) /\ \A p \in 1..Len(t) : t[p] = file[p]
        BY <3>3, <4>1, <4>2
      <4>4. InOrder(less, t)
        BY <1>t, <1>x, <3>6, <4>1, <4>3, InOrderPrefix
      <4> QED BY <4>2, <4>4
    <3>9. \A i \in 1..fenced : \E p \in 1..n : file'[p] = NewlineOf(less[i])
      BY <2>2, <3>2, <3>3, <3>6 DEF AckInv
    <3>10. \A e \in Range(less) : NewlineOf(e) \in Range(file')
      <4> SUFFICES ASSUME NEW e \in Range(less) PROVE NewlineOf(e) \in Range(file')
        OBVIOUS
      <4>1. PICK i \in 1..fenced : e = less[i]
        BY <3>6, RangeFacts
      <4>2. PICK p \in 1..Len(file') : file'[p] = NewlineOf(e)
        BY <3>3, <3>9, <4>1
      <4> QED BY <1>s, <4>2, RangeFacts
    <3>11. \A i, j \in 1..fenced : less[i] = less[j] => i = j
      <4>1. \A i \in 1..fenced : i \in 1..Len(promised)
        BY <1>x, <3>5
      <4> QED BY <3>6, <4>1 DEF AckInv
    <3> QED BY <3>1, <3>4, <3>6, <3>7, <3>8, <3>9, <3>10, <3>11 DEF AckInv
  <2> QED BY <2>1, <2>2
<1> QED BY <1>2, <1>3, <1>4, <1>5, <1>6, <1>7, <1>8, <1>9, <1>10, <1>11, <1>14, <1>15 DEF Next

\* Every line stays whole while nothing fails and no long line is given up.
LEMMA WholeStep ==
    ASSUME TypeOK, PlaceInv, LineInv, WholeInv, Next, TypeOK', PlaceInv', Untorn'
    PROVE  Whole(Stream')
<1>0. /\ Nobody \notin Exchanges /\ Flusher \notin Exchanges /\ Large \subseteq Exchanges
      /\ Nobody # Flusher /\ kind \in {"jsonl", "sqlite", "memory"}
  BY StorageAssumption DEF TypeOK
<1>t. /\ file \in Seq(Pieces) /\ inflight \in Seq(Pieces) /\ todo \in Seq(Pieces)
      /\ buf \in Seq(Pieces) /\ Stream \in Seq(Pieces)
      /\ inflight = <<>> => Stream = file \o todo
      /\ todo = <<>> => Stream = file \o inflight
      /\ inflight = <<>> /\ todo = <<>> => Stream = file
  <2>1. /\ file \in Seq(Pieces) /\ inflight \in Seq(Pieces) /\ todo \in Seq(Pieces)
        /\ buf \in Seq(Pieces) /\ Stream \in Seq(Pieces)
    BY StreamParts
  <2>2. inflight = <<>> => Stream = file \o todo
    BY <2>1, StreamFacts DEF Stream
  <2>3. todo = <<>> => Stream = file \o inflight
    BY <2>1, StreamFacts DEF Stream
  <2>4. inflight = <<>> /\ todo = <<>> => Stream = file
    BY <2>1, StreamFacts DEF Stream
  <2> QED BY <2>1, <2>2, <2>3, <2>4
<1>s. /\ file' \in Seq(Pieces) /\ inflight' \in Seq(Pieces) /\ todo' \in Seq(Pieces)
      /\ inflight' = <<>> => Stream' = file' \o todo'
      /\ todo' = <<>> => Stream' = file' \o inflight'
      /\ inflight' = <<>> /\ todo' = <<>> => Stream' = file'
  BY NextStream
<1>1. ASSUME kind # "jsonl" PROVE Whole(Stream')
  <2>1. kind' = kind
    BY DEF Next, StartLine, SendInsert, Insert, InsertFails, Push, HandOver, Write, WriteFails,
           ReportError, AppendOk, Cancel, FlushStarts, FlushOk, FlushFails, ProcessDies,
           PowerLoss, Reopen, Down
  <2>2. /\ Stream = file /\ Stream' = file' /\ Whole(file)
    BY <1>1, <1>s, <1>t, <2>1 DEF PlaceInv, WholeInv, Untorn
  <2>3. ASSUME NEW e \in Exchanges, file' = file \o Line(e) PROVE Whole(file')
    <3>1. PICK t \in Seq(Pieces) : t = Line(e) /\ Whole(t)
      BY LineFacts, WholeLine
    <3> QED BY <1>t, <2>2, <2>3, <3>1, WholeConcat
  <2>4. ASSUME NEW e \in Exchanges, Insert(e) \/ Push(e) PROVE Whole(file')
    BY <2>3, <2>4 DEF Insert, Push
  <2>5. ASSUME NEW e \in Exchanges, SendInsert(e) \/ InsertFails(e) PROVE Whole(file')
    BY <2>2, <2>5 DEF SendInsert, InsertFails
  <2>6. ASSUME Cancel \/ Reopen PROVE Whole(file')
    BY <2>2, <2>6 DEF Cancel, Reopen
  <2>7. ASSUME ProcessDies PROVE Whole(file')
    BY <2>2, <2>7, WholeEmpty DEF ProcessDies
  <2>8. ASSUME PowerLoss PROVE Whole(file')
    <3>1. PICK n \in Cuts : file' = SubSeq(file, 1, n)
      BY <2>8 DEF PowerLoss
    <3>2. n \in 0..Len(file) /\ (n = 0 \/ file[n].part = "newline")
      BY <1>0, <1>1, <1>t, <3>1 DEF Cuts
    <3> QED BY <1>t, <2>2, <3>1, <3>2, WholeCut
  <2> QED BY <1>1, <2>2, <2>4, <2>5, <2>6, <2>7, <2>8
          DEF Next, StartLine, HandOver, Write, WriteFails, ReportError, AppendOk, FlushStarts,
              FlushOk, FlushFails
<1>2. ASSUME Untorn, UNCHANGED <<file, inflight, todo>> PROVE Whole(Stream')
  BY <1>2 DEF WholeInv, Stream
<1>3. ASSUME NEW e \in Exchanges, StartLine(e) PROVE Whole(Stream')
  <2>1. /\ kind = "jsonl" /\ kind' = kind /\ op = Nobody /\ op' = e /\ e \notin started
        /\ started' = started \cup {e} /\ UNCHANGED <<file, inflight, promised, faulty>>
    BY <1>3 DEF StartLine
  <2>2. todo = <<>>
    BY <1>0, <2>1 DEF TypeOK
  <2>3. Untorn
    BY <2>1 DEF Untorn
  <2>4. CASE todo' = todo
    BY <1>2, <2>1, <2>3, <2>4
  <2>5. CASE todo' = Line(e)
    <3>1. PICK t \in Seq(Pieces) : t = Line(e) /\ Whole(t)
      BY LineFacts, WholeLine
    <3>2. Stream' = Stream \o t
      <4>0. file \in Seq(Pieces) /\ inflight \in Seq(Pieces)
        BY <1>t
      <4>1. (file \o inflight) \o t = file \o (inflight \o t)
        BY <4>0, JoinAssociative
      <4>2. Stream' = file \o (inflight \o t)
        BY <2>1, <2>5, <3>1 DEF Stream
      <4> QED BY <1>t, <2>2, <4>1, <4>2
    <3> QED BY <1>t, <2>3, <3>1, <3>2, WholeConcat DEF WholeInv
  <2> QED BY <1>3, <2>4, <2>5 DEF StartLine
<1>4. ASSUME HandOver PROVE Whole(Stream')
  <2>1. inflight = <<>> /\ UNCHANGED <<kind, op, started, promised, faulty, file>>
    BY <1>4 DEF HandOver, ghosts
  <2>2. Whole(Stream) /\ Stream = file \o todo
    BY <1>t, <2>1 DEF Untorn, WholeInv
  <2>3. CASE buf # <<>>
    <3>1. inflight' = buf /\ todo' = todo
      BY <1>4, <2>3 DEF HandOver
    <3>2. Whole(todo)
      BY <1>0, <2>3, WholeEmpty, WholeLine DEF PlaceInv
    <3>3. Whole(file)
      BY <1>t, <2>2, <3>2, WholeLeft
    <3>4. Whole(buf \o todo) /\ buf \o todo \in Seq(Pieces)
      BY <1>t, <3>2, WholeConcat, ConcatFacts DEF LineInv
    <3>5. PICK u \in Seq(Pieces) : u = buf \o todo
      BY <3>4
    <3>6. Stream' = file \o u
      BY <2>1, <3>1, <3>5 DEF Stream
    <3> QED BY <1>t, <3>3, <3>4, <3>5, <3>6, WholeConcat
  <2>4. CASE buf = <<>>
    <3>1. PICK n \in 1..Len(todo) :
             /\ inflight' = SubSeq(todo, 1, n) /\ todo' = SubSeq(todo, n + 1, Len(todo))
      BY <1>4, <2>4 DEF HandOver
    <3>2. n \in 0..Len(todo)
      BY <1>t, <3>1
    <3>3. inflight' \o todo' = todo
      BY <1>t, <3>1, <3>2, SplitAt
    <3> QED BY <2>1, <2>2, <3>3 DEF Stream
  <2> QED BY <2>3, <2>4
<1>5. ASSUME Write PROVE Whole(Stream')
  <2>1. UNCHANGED <<kind, op, started, promised, faulty, todo>>
    BY <1>5 DEF Write, ghosts
  <2>2. Whole(Stream)
    BY <2>1 DEF Untorn, WholeInv
  <2>3. PICK n \in 1..Len(inflight) :
           /\ file' = file \o SubSeq(inflight, 1, n)
           /\ inflight' = SubSeq(inflight, n + 1, Len(inflight))
    BY <1>5 DEF Write
  <2>4. n \in 0..Len(inflight)
    BY <1>t, <2>3
  <2>5. SubSeq(inflight, 1, n) \in Seq(Pieces) /\ SubSeq(inflight, 1, n) \o inflight' = inflight
    BY <1>t, <2>3, <2>4, SplitAt
  <2>6. PICK a \in Seq(Pieces), b \in Seq(Pieces) :
           file' = file \o a /\ inflight' = b /\ a \o b = inflight
    BY <1>s, <2>3, <2>5
  <2>7. PICK f \in Seq(Pieces), t \in Seq(Pieces) : f = file /\ t = todo
    BY <1>t
  <2>8. SameStream(f, a, b, t)
    <3>1. a \in Seq(Pieces) /\ b \in Seq(Pieces)
      BY <2>6
    <3>2. f \in Seq(Pieces) /\ t \in Seq(Pieces)
      BY <2>7
    <3> QED BY <3>1, <3>2, WriteKeepsStream
  <2>9. Stream' = Stream
    BY <2>1, <2>6, <2>7, <2>8 DEF Stream, SameStream
  <2> QED BY <2>2, <2>9
<1>6. ASSUME AppendOk, kind = "jsonl" PROVE Whole(Stream')
  <2>1. /\ promised' = Append(promised, op) /\ op \in Exchanges /\ op' = Nobody
        /\ UNCHANGED <<kind, started, faulty, file, inflight, todo>>
    BY <1>6 DEF AppendOk, jsonlVars
  <2>2. PICK e \in Exchanges : e = op
    BY <2>1
  <2>3. Range(Append(promised, e)) = Range(promised) \cup {e}
    <3>1. promised \in Seq(Exchanges)
      BY DEF TypeOK
    <3> QED BY <3>1, AppendFacts
  <2>4. Untorn
    BY <1>0, <1>6, <2>1, <2>2, <2>3 DEF Untorn
  <2> QED BY <1>2, <2>1, <2>4
<1>7. ASSUME Cancel, kind = "jsonl" PROVE Whole(Stream')
  <2>1. /\ op \in Exchanges /\ op' = Nobody /\ todo' = <<>>
        /\ UNCHANGED <<kind, started, promised, faulty, file, inflight>>
    BY <1>7 DEF Cancel, ghosts
  <2>2. op \notin Large
    BY <1>0, <1>7, <2>1 DEF Untorn, PlaceInv
  <2>3. todo = <<>> /\ Untorn
    BY <1>0, <1>7, <2>1, <2>2 DEF Untorn, PlaceInv
  <2> QED BY <1>2, <2>1, <2>3
<1>8. ASSUME FlushStarts \/ FlushOk \/ FlushFails \/ Reopen PROVE Whole(Stream')
  <2>1. /\ UNCHANGED <<kind, started, promised, faulty, file, inflight, todo>>
        /\ op \notin Exchanges /\ op' \notin Exchanges
    BY <1>0, <1>8 DEF FlushStarts, FlushOk, FlushFails, Reopen, jsonlVars, ghosts, PlaceInv
  <2>2. Untorn
    BY <1>0, <2>1 DEF Untorn
  <2> QED BY <1>2, <2>1, <2>2
<1>9. ASSUME WriteFails \/ ReportError \/ ProcessDies \/ PowerLoss, kind = "jsonl" PROVE FALSE
  <2>1. kind' = kind /\ faulty'
    BY <1>9 DEF WriteFails, ReportError, ProcessDies, PowerLoss, Down, PlaceInv, ghosts
  <2> QED BY <1>9, <2>1 DEF Untorn
<1> QED BY <1>1, <1>3, <1>4, <1>5, <1>6, <1>7, <1>8, <1>9
        DEF Next, SendInsert, Insert, InsertFails, Push

----------------------------------------------------------------------------
\* Theorems.

\* The invariant holds in every reachable state.
LEMMA StorageInv == Spec => []Inv
<1>1. ASSUME Inv, [Next]_vars PROVE Inv'
  <2>1. CASE Next
    <3>1. TypeOK /\ PlaceInv /\ LineInv /\ AckInv /\ WholeInv
      BY <1>1 DEF Inv
    <3>2. TypeOK'
      BY <2>1, <3>1, TypeStep
    <3>3. PlaceInv'
      BY <2>1, <3>1, PlaceStep
    <3>4. LineInv'
      BY <2>1, <3>1, <3>2, LineStep
    <3>5. AckInv'
      BY <2>1, <3>1, <3>2, <3>4, AckStep
    <3>6. Untorn' => Whole(Stream')
      BY <2>1, <3>1, <3>2, <3>3, WholeStep
    <3> QED BY <3>2, <3>3, <3>4, <3>5, <3>6 DEF Inv, WholeInv
  <2>2. CASE UNCHANGED vars
    <3>1. /\ UNCHANGED <<kind, up, op, todo, buf, inflight, failed, queued, file, synced>>
          /\ UNCHANGED <<started, promised, fenced, crashes, faulty>>
      BY <2>2 DEF vars, jsonlVars, ghosts
    <3>2. Stream' = Stream /\ Expected' = Expected /\ (Untorn' <=> Untorn)
      BY <3>1 DEF Stream, Expected, Untorn
    <3>3. TypeOK' /\ PlaceInv'
      BY <1>1, <3>1 DEF Inv, TypeOK, PlaceInv
    <3>4. LineInv'
      BY <1>1, <3>1, <3>2 DEF Inv, LineInv
    <3>5. AckInv'
      BY <1>1, <3>1, <3>2 DEF Inv, AckInv
    <3>6. WholeInv'
      BY <1>1, <3>2 DEF Inv, WholeInv
    <3> QED BY <3>3, <3>4, <3>5, <3>6 DEF Inv
  <2> QED BY <1>1, <2>1, <2>2
<1> QED BY <1>1, InitInv, PTL DEF Spec

\* load() returns what is kept, once each and in order, if the line of each is
\* there to its newline and nothing was written twice.
LEMMA LoadKeeps ==
    ASSUME NEW kept \in Seq(Exchanges), NEW content \in Seq(Pieces),
           Once(content), Chained(content), InOrder(kept, content),
           \A i \in 1..Len(kept) : \E p \in 1..Len(content) : content[p] = NewlineOf(kept[i]),
           Load(content).ok
    PROVE  /\ Within(kept, Load(content).read)
           /\ \A i, j \in 1..Len(Load(content).read) :
                Load(content).read[i] = Load(content).read[j] => i = j
<1> DEFINE read == Load(content).read
<1>1. read \in Seq(Exchanges) /\ Found(read, content, Len(content), Len(content))
  BY LoadFinds
<1> HIDE DEF read
<1>2. /\ \A m \in 1..Len(read) : \E p \in 1..Len(content) : content[p] = HeadOf(read[m])
      /\ \A m, n \in 1..Len(read), p, q \in 1..Len(content) :
           content[p] = HeadOf(read[m]) /\ content[q] = HeadOf(read[n]) => (m < n <=> p < q)
      /\ \A p \in 1..Len(content) : content[p].part = "newline" =>
           \E m \in 1..Len(read) : read[m] = content[p].of
  BY <1>1 DEF Found
<1>3. ASSUME NEW i \in 1..Len(read), NEW j \in 1..Len(read), read[i] = read[j]
      PROVE  i = j
  <2>1. PICK p \in 1..Len(content) : content[p] = HeadOf(read[i])
    BY <1>2
  <2>2. (i < j <=> p < p) /\ (j < i <=> p < p)
    BY <1>2, <1>3, <2>1
  <2> QED BY <2>2
<1>4. ASSUME NEW i \in 1..Len(kept)
      PROVE  \E p \in 1..Len(content) :
               /\ content[p] = NewlineOf(kept[i])
               /\ p - 2 \in 1..Len(content) /\ content[p - 2] = HeadOf(kept[i])
  <2>1. PICK p \in 1..Len(content) : content[p] = NewlineOf(kept[i])
    OBVIOUS
  <2>2. /\ NewlineOf(kept[i]).part = "newline" /\ NewlineOf(kept[i]).of = kept[i]
        /\ RestOf(kept[i]).part = "rest" /\ RestOf(kept[i]).of = kept[i]
    BY PieceFacts DEF NewlineOf, RestOf
  <2>3. p > 1 /\ content[p - 1] = RestOf(kept[i])
    BY <2>1, <2>2 DEF Chained
  <2>4. p - 1 \in 1..Len(content)
    BY <2>3
  <2>5. p - 1 > 1 /\ content[(p - 1) - 1] = HeadOf(kept[i])
    BY <2>2, <2>3, <2>4 DEF Chained
  <2>6. (p - 1) - 1 = p - 2 /\ p - 2 \in 1..Len(content)
    BY <2>5
  <2> QED BY <2>1, <2>5, <2>6
<1>5. Range(kept) \subseteq Range(read)
  <2> SUFFICES ASSUME NEW e \in Range(kept) PROVE e \in Range(read)
    OBVIOUS
  <2>1. PICK i \in 1..Len(kept) : e = kept[i]
    BY RangeFacts
  <2>2. PICK p \in 1..Len(content) : content[p] = NewlineOf(e)
    BY <2>1
  <2>3. content[p].part = "newline" /\ content[p].of = e
    BY <2>2, PieceFacts DEF NewlineOf
  <2>4. PICK m \in 1..Len(read) : read[m] = e
    BY <1>2, <2>3
  <2> QED BY <1>1, <2>4, RangeFacts
<1>6. ASSUME NEW i \in 1..Len(kept), NEW j \in 1..Len(kept),
             NEW m \in 1..Len(read), NEW n \in 1..Len(read), kept[i] = read[m], kept[j] = read[n]
      PROVE  i < j <=> m < n
  <2>1. PICK p \in 1..Len(content) : /\ content[p] = NewlineOf(kept[i])
                                     /\ p - 2 \in 1..Len(content)
                                     /\ content[p - 2] = HeadOf(kept[i])
    BY <1>4
  <2>2. PICK q \in 1..Len(content) : /\ content[q] = NewlineOf(kept[j])
                                     /\ q - 2 \in 1..Len(content)
                                     /\ content[q - 2] = HeadOf(kept[j])
    BY <1>4
  <2>3. i < j <=> p < q
    BY <2>1, <2>2 DEF InOrder
  <2>4. m < n <=> p - 2 < q - 2
    <3>1. PICK k \in 1..Len(content), l \in 1..Len(content) : k = p - 2 /\ l = q - 2
      BY <2>1, <2>2
    <3>2. content[k] = HeadOf(read[m]) /\ content[l] = HeadOf(read[n])
      BY <1>6, <2>1, <2>2, <3>1
    <3>3. m < n <=> k < l
      BY <1>2, <3>2
    <3> QED BY <3>1, <3>3
  <2>5. p - 2 < q - 2 <=> p < q
    OBVIOUS
  <2> QED BY <2>3, <2>4, <2>5
<1>7. Within(kept, read)
  BY <1>5, <1>6 DEF Within
<1> QED BY <1>3, <1>7 DEF read

\* Every variable of the storage model keeps its type, for any set of exchanges,
\* any of them long, and any number of crashes.
THEOREM StorageTypeOK == Spec => []TypeOK
BY StorageInv, PTL DEF Inv

\* A newline on the medium is the end of an unbroken line.
LEMMA NewlineEndsLine ==
    ASSUME file \in Seq(Pieces), Chained(file), NEW e \in Exchanges,
           NEW p \in 1..Len(file), file[p] = NewlineOf(e)
    PROVE  p \in 3..Len(file) /\ EndsAt(e, p)
<1>1. /\ NewlineOf(e).part = "newline" /\ NewlineOf(e).of = e
      /\ RestOf(e).part = "rest" /\ RestOf(e).of = e
  BY PieceFacts DEF NewlineOf, RestOf
<1>2. p > 1 /\ file[p - 1] = RestOf(e)
  BY <1>1 DEF Chained
<1>3. p - 1 \in 1..Len(file)
  BY <1>2
<1>4. p - 1 > 1 /\ file[(p - 1) - 1] = HeadOf(e)
  BY <1>1, <1>2, <1>3 DEF Chained
<1>5. (p - 1) - 1 = p - 2 /\ p \in 3..Len(file)
  BY <1>4
<1>6. ASSUME NEW i \in 1..3 PROVE file[p - 3 + i] = Line(e)[i]
  <2>1. CASE i = 1
    <3>1. p - 3 + i = p - 2
      BY <2>1, <1>5
    <3> QED BY <1>4, <1>5, <2>1, <3>1, LineFacts
  <2>2. CASE i = 2
    <3>1. p - 3 + i = p - 1
      BY <2>2, <1>5
    <3> QED BY <1>2, <2>2, <3>1, LineFacts
  <2>3. CASE i = 3
    <3>1. p - 3 + i = p
      BY <2>3, <1>5
    <3> QED BY <2>3, <3>1, LineFacts
  <2> QED BY <2>1, <2>2, <2>3
<1> QED BY <1>5, <1>6 DEF EndsAt

\* What append() acknowledged is on the medium unbroken, and loads back once and in
\* order as long as the medium can be read at all: through failed writes, dropped
\* futures, deaths of the process and losses of power (which excuse what no flush()
\* fenced).
THEOREM StorageAckedLoadBack == Spec => []AckedLoadBack
<1>1. ASSUME Inv PROVE AckedLoadBack
  <2>2. TypeOK /\ LineInv /\ AckInv
    BY <1>1 DEF Inv
  <2>3. /\ file \in Seq(Pieces) /\ Once(file) /\ Chained(file)
    BY <2>2, StreamParts DEF LineInv
  <2>4. promised \in Seq(Exchanges) /\ InOrder(promised, file)
    BY <2>2, ExpectedFacts
  <2>5. ASSUME NEW i \in 1..Len(promised)
        PROVE  \E p \in 1..Len(file) : file[p] = NewlineOf(promised[i])
    <3>1. promised[i] \in Range(promised)
      BY <2>4, RangeFacts
    <3>2. NewlineOf(promised[i]) \in Range(file)
      BY <2>2, <3>1 DEF AckInv
    <3> QED BY <2>3, <3>2, RangeFacts
  <2>6. ASSUME NEW e \in Range(promised)
        PROVE  \E n \in 3..Len(file) : EndsAt(e, n)
    <3>1. PICK i \in 1..Len(promised) : e = promised[i]
      BY <2>4, RangeFacts
    <3>2. PICK p \in 1..Len(file) : file[p] = NewlineOf(e)
      BY <2>5, <3>1
    <3>3. e \in Exchanges
      BY <2>4, <3>1
    <3> QED BY <2>3, <3>2, <3>3, NewlineEndsLine
  <2>7. ASSUME Load(file).ok
        PROVE  /\ Within(promised, Load(file).read)
               /\ \A i, j \in 1..Len(Load(file).read) :
                    Load(file).read[i] = Load(file).read[j] => i = j
    BY <2>3, <2>4, <2>5, <2>7, LoadKeeps
  <2> QED BY <2>6, <2>7 DEF AckedLoadBack
<1> QED BY <1>1, StorageInv, PTL

\* Only a failed write, a crash or a long line that was given up makes a JSONL
\* file unreadable, and nothing makes the other media so.
THEOREM StorageUnreadableOnlyIfTorn == Spec => []UnreadableOnlyIfTorn
<1>1. ASSUME Inv PROVE UnreadableOnlyIfTorn
  <2>1. SUFFICES ASSUME kind # "jsonl" \/
                        /\ ~faulty /\ inflight = <<>>
                        /\ \A e \in Large : e \in started => e \in Range(promised)
                 PROVE  Load(file).ok
    BY DEF UnreadableOnlyIfTorn
  <2>2. TypeOK /\ PlaceInv /\ LineInv /\ WholeInv /\ Large \subseteq Exchanges
    BY <1>1, StorageAssumption DEF Inv
  <2>3. Untorn
    BY <2>1 DEF Untorn
  <2>4. inflight = <<>> /\ todo = <<>>
    BY <2>1, <2>2 DEF PlaceInv
  <2>5. file \in Seq(Pieces) /\ inflight \in Seq(Pieces) /\ todo \in Seq(Pieces)
    BY <2>2 DEF TypeOK
  <2>6. Stream = file
    BY <2>4, <2>5, StreamFacts DEF Stream
  <2>7. Whole(file)
    BY <2>2, <2>3, <2>6 DEF WholeInv
  <2> QED BY <2>5, <2>7, LoadWhole
<1> QED BY <1>1, StorageInv, PTL

\* What was acknowledged before the last flush() of a JSONL medium that returned
\* Ok loads back from the part of the file that a loss of power spares.
THEOREM StorageFlushIsDurable == Spec => []FlushIsDurable
<1>1. ASSUME Inv PROVE FlushIsDurable
  <2> DEFINE spared == SubSeq(file, 1, synced)
             less == SubSeq(promised, 1, fenced)
  <2>1. SUFFICES ASSUME kind = "jsonl", Load(spared).ok PROVE Within(less, Load(spared).read)
    BY DEF FlushIsDurable
  <2>2. TypeOK /\ LineInv /\ AckInv
    BY <1>1 DEF Inv
  <2>3. /\ file \in Seq(Pieces) /\ Once(file) /\ Chained(file)
    BY <2>2, StreamParts DEF LineInv
  <2>4. promised \in Seq(Exchanges) /\ InOrder(promised, file)
    BY <2>2, ExpectedFacts
  <2>5. /\ synced \in 0..Len(file) /\ fenced \in 0..Len(promised)
        /\ Len(file) \in Nat /\ Len(promised) \in Nat
    BY <2>2 DEF TypeOK
  <2>6. /\ less \in Seq(Exchanges) /\ Len(less) = fenced
        /\ \A i \in 1..fenced : less[i] = promised[i]
    BY <2>4, <2>5, SplitAt
  <2>7. /\ spared \in Seq(Pieces) /\ Len(spared) = synced
        /\ \A p \in 1..synced : spared[p] = file[p]
    BY <2>3, <2>5, SplitAt
  <2>8. PICK rest \in Seq(Pieces) : spared \o rest = file
    BY <2>3, <2>5, SplitAt
  <2> HIDE DEF spared, less
  <2>9. Once(spared) /\ Chained(spared)
    BY <2>3, <2>7, <2>8, OnceConcat, ChainedPrefix
  <2>10. InOrder(less, spared)
    <3>1. Len(less) <= Len(promised) /\ Len(spared) <= Len(file)
      BY <2>5, <2>6, <2>7
    <3> QED BY <2>3, <2>4, <2>6, <2>7, <3>1, InOrderPrefix
  <2>11. \A i \in 1..Len(less) : \E p \in 1..Len(spared) : spared[p] = NewlineOf(less[i])
    BY <2>1, <2>2, <2>6, <2>7 DEF AckInv
  <2> QED BY <2>1, <2>6, <2>7, <2>9, <2>10, <2>11, LoadKeeps
<1> QED BY <1>1, StorageInv, PTL
============================================================================
