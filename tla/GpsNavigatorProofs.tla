------------------------ MODULE GpsNavigatorProofs --------------------------
(***************************************************************************)
(* The navigator keeps its promises when it is fed by the drivers: every   *)
(* step of GpsNavigator is one of Navigator or leaves its variables alone, *)
(* so that what is proved of Navigator for any order of messages holds for *)
(* the reports of GPS.c.                                                   *)
(*                                                                         *)
(* And these reports are to be believed.  The thread's reading of a text   *)
(* is followed character by character: from a '$' on the line is the text, *)
(* so that a sentence is parsed as it was sent, with a character spoilt,   *)
(* or with a part of its end missing; where the '$' itself is lost, the    *)
(* line that was left keeps its first three characters, and whatever is    *)
(* parsed of it, however often, tells the same.                            *)
(***************************************************************************)
EXTENDS GpsNavigator, NavigatorProofs, WellFoundedInduction, SequenceTheorems

\* A step of the system is a step of the navigator, or is none of its business.
LEMMA StepSimulation == [SystemNext]_<<vars, gps>> => [Next]_vars
<1> SUFFICES ASSUME [SystemNext]_<<vars, gps>>, ~UNCHANGED vars
             PROVE  Next
  OBVIOUS
<1>1. CASE TakeReport
  BY <1>1 DEF TakeReport, Next
<1>2. CASE PollIMU
  BY <1>2 DEF PollIMU, Next
<1>3. CASE TakeOther
  BY <1>3 DEF TakeOther, Next
<1>4. CASE Pass
  BY <1>4 DEF Next
<1> QED BY <1>1, <1>2, <1>3, <1>4 DEF SystemNext

\* The navigator of the composition is the navigator of Navigator: its reports of
\* the GPS are among the messages it is prepared for.
THEOREM DriversRefineMessages == SystemSpec => Spec
<1>1. SystemInit => Init
  BY DEF SystemInit
<1> QED BY <1>1, StepSimulation, PTL DEF SystemSpec, Spec

\* So its notifications tell its state, whatever arrives of the receiver's sentences.
THEOREM NoticesTellStateOfSystem == SystemSpec => []NoticesTellState
BY DriversRefineMessages, NoticesAlwaysTellState

\* And no POSE of the composition is made of data that had grown old.
THEOREM PosesOfSystemAreFresh == SystemSpec => []PoseIsFresh
BY DriversRefineMessages, PosesAreFresh

-----------------------------------------------------------------------------
(* What a reader makes of characters                                       *)

Less == {p \in Nat \X Nat : p[1] < p[2]}

\* A set of numbers has a least one.
LEMMA LeastOf ==
  ASSUME NEW T \in SUBSET Nat, T # {}
  PROVE  \E x \in T : \A y \in T : x <= y
<1>1. IsWellFoundedOn(Less, Nat)
  BY NatLessThanWellFounded DEF OpToRel, Less
<1>2. PICK x \in T : \A y \in T : ~ (<<y, x>> \in Less)
  BY <1>1, WFMin
<1>3. \A y \in T : <<y, x>> \in Nat \X Nat /\ (y < x => <<y, x>> \in Less)
  BY DEF Less
<1>4. \A y \in T : y \in Nat /\ ~(y < x)
  BY <1>2, <1>3
<1> QED
  BY <1>4

\* What holds of 0 and is handed on holds up to n.
LEMMA Counting ==
  ASSUME NEW n \in Nat, NEW S, 0 \in S, \A k \in 0..(n - 1) : k \in S => k + 1 \in S
  PROVE  0..n \subseteq S
<1> DEFINE T == (0..n) \ S
<1>1. SUFFICES ASSUME T # {}
               PROVE  FALSE
  OBVIOUS
<1>2. T \in SUBSET Nat
  OBVIOUS
<1>3. PICK x \in T : \A y \in T : x <= y
  BY <1>1, <1>2, LeastOf
<1>4. x \in 1..n /\ x - 1 \in 0..(n - 1) /\ ~(x <= x - 1)
  BY <1>2, <1>3
<1>5. x - 1 \in S
  BY <1>3, <1>4
<1> QED
  BY <1>3, <1>4, <1>5

Letters == {Char(c) : c \in {"$", "GPRMC", "GPGGA", "PGTOP", "A", "V", "3", "low", "high",
                             "*", "CR", "LF", "spoilt"}}
Characters == Letters \cup {Sum(data) : data \in Seq(Letters)}

\* Characters can be told apart.
LEMMA CharsDiffer ==
  /\ \A a, b : Char(a) = Char(b) => a = b
  /\ \A a, data : Char(a) # Sum(data)
  /\ \A data, other : Sum(data) = Sum(other) => data = other
<1>1. \A a, b : Char(a) = Char(b) => a = b
  BY DEF Char
<1>2. \A a, data : Char(a) # Sum(data)
  <2> SUFFICES ASSUME NEW a, NEW data, Char(a) = Sum(data)
               PROVE  FALSE
    OBVIOUS
  <2>1. Len(Char(a)) = 1 /\ Len(Sum(data)) = 2
    BY DEF Char, Sum
  <2> QED
    BY <2>1
<1>3. \A data, other : Sum(data) = Sum(other) => data = other
  BY DEF Sum
<1> QED
  BY <1>1, <1>2, <1>3

\* The reader that has read the line and has had these accepted.
Reader(line, accepted) == [line |-> line, accepted |-> accepted]

LEMMA Parsed ==
  ASSUME NEW left, NEW accepted, NEW line
  PROVE  ParseNMEA(Reader(left, accepted), line)
           = Reader(left, IF Refused(line) THEN accepted ELSE Append(accepted, Content(line)))
BY DEF ParseNMEA, Reader

LEMMA NewLine ==
  ASSUME NEW line, NEW accepted, NEW other
  PROVE  [Reader(line, accepted) EXCEPT !.line = other] = Reader(other, accepted)
BY DEF Reader

\* What a character does to the reader.
LEMMA CharRead ==
  ASSUME NEW line \in Seq(Characters), NEW accepted, NEW c \in Characters
  PROVE  /\ c = Char("$") => ReadChar(Reader(line, accepted), c) = Reader(<<c>>, accepted)
         /\ c = Char("LF") =>
              ReadChar(Reader(line, accepted), c) = ParseNMEA(Reader(<<>>, accepted), line)
         /\ c \notin {Char("$"), Char("LF")} =>
              ReadChar(Reader(line, accepted), c) =
                IF Len(line) + 1 < MAXLINELENGTH THEN Reader(Append(line, c), accepted)
                ELSE LET cut == SubSeq(Append(line, c), 1, MAXLINELENGTH - 1)
                     IN ParseNMEA(Reader(cut, accepted), cut)
<1>1. Char("$") # Char("LF")
  BY CharsDiffer
<1>2. ASSUME c = Char("$")
      PROVE  ReadChar(Reader(line, accepted), c) = Reader(<<c>>, accepted)
  <2>1. Append(<<>>, c) = <<c>> /\ Len(<<c>>) = 1
    OBVIOUS
  <2>2. ~(Len(<<c>>) >= MAXLINELENGTH)
    BY <2>1, LineAssumption
  <2> QED
    BY <1>1, <1>2, <2>1, <2>2, NewLine DEF ReadChar
<1>3. ASSUME c = Char("LF")
      PROVE  ReadChar(Reader(line, accepted), c) = ParseNMEA(Reader(<<>>, accepted), line)
  <2>1. Reader(line, accepted).line = line
    BY DEF Reader
  <2> QED
    BY <1>1, <1>3, <2>1, NewLine DEF ReadChar
<1>4. ASSUME c \notin {Char("$"), Char("LF")}
      PROVE  ReadChar(Reader(line, accepted), c) =
               IF Len(line) + 1 < MAXLINELENGTH THEN Reader(Append(line, c), accepted)
               ELSE LET cut == SubSeq(Append(line, c), 1, MAXLINELENGTH - 1)
                    IN ParseNMEA(Reader(cut, accepted), cut)
  <2> DEFINE longer == Append(line, c)
             cut == SubSeq(longer, 1, MAXLINELENGTH - 1)
             r == Reader(line, accepted)
  <2>1. Len(longer) = Len(line) + 1 /\ Len(line) \in Nat
    OBVIOUS
  <2>2. ReadChar(r, c) =
          IF Len(longer) >= MAXLINELENGTH THEN ParseNMEA([r EXCEPT !.line = cut], cut)
          ELSE [r EXCEPT !.line = longer]
    BY <1>4 DEF ReadChar, Reader
  <2>3. [r EXCEPT !.line = cut] = Reader(cut, accepted)
          /\ [r EXCEPT !.line = longer] = Reader(longer, accepted)
    BY NewLine DEF r
  <2>4. Len(longer) >= MAXLINELENGTH <=> ~(Len(line) + 1 < MAXLINELENGTH)
    BY <2>1, LineAssumption
  <2> HIDE DEF longer, cut, r
  <2>5. ReadChar(r, c) = IF Len(line) + 1 < MAXLINELENGTH THEN Reader(longer, accepted)
                         ELSE ParseNMEA(Reader(cut, accepted), cut)
    BY <2>2, <2>3, <2>4
  <2> QED
    BY <2>5 DEF longer, cut, r
<1> QED
  BY <1>2, <1>3, <1>4


LEMMA CharKept ==
  ASSUME NEW line \in Seq(Characters), NEW accepted, NEW c \in Characters,
         c \notin {Char("$"), Char("LF")}, Len(line) + 1 < MAXLINELENGTH
  PROVE  ReadChar(Reader(line, accepted), c) = Reader(Append(line, c), accepted)
BY CharRead

LEMMA CharOver ==
  ASSUME NEW line \in Seq(Characters), NEW accepted, NEW c \in Characters,
         c \notin {Char("$"), Char("LF")}, ~(Len(line) + 1 < MAXLINELENGTH)
  PROVE  ReadChar(Reader(line, accepted), c) =
           ParseNMEA(Reader(SubSeq(Append(line, c), 1, MAXLINELENGTH - 1), accepted),
                     SubSeq(Append(line, c), 1, MAXLINELENGTH - 1))
BY CharRead

LEMMA LineFeed ==
  ASSUME NEW line \in Seq(Characters), NEW accepted
  PROVE  ReadChar(Reader(line, accepted), Char("LF")) = ParseNMEA(Reader(<<>>, accepted), line)
<1>1. Char("LF") \in Characters
  BY DEF Characters, Letters
<1> QED
  BY <1>1, CharRead

\* A line one character longer, and the beginning of one.
LEMMA Grown ==
  ASSUME NEW S, NEW line \in Seq(S), NEW c \in S
  PROVE  /\ Append(line, c) \in Seq(S)
         /\ Len(Append(line, c)) = Len(line) + 1
         /\ \A j \in 1..Len(line) : Append(line, c)[j] = line[j]
         /\ Append(line, c)[Len(line) + 1] = c
OBVIOUS

LEMMA Begins ==
  ASSUME NEW S, NEW line \in Seq(S), NEW n \in 0..Len(line)
  PROVE  /\ SubSeq(line, 1, n) \in Seq(S)
         /\ Len(SubSeq(line, 1, n)) = n
         /\ \A j \in 1..n : SubSeq(line, 1, n)[j] = line[j]
BY SubSeqProperties

\* e follows the reading of a text up to its m-th character.
Follows(e, line, text, m) ==
  e = [k \in 0..m |-> IF k = 0 THEN Reader(line, <<>>) ELSE ReadChar(e[k - 1], text[k])]

\* There is such a thing, and what is heard is its end.
LEMMA HeardIsRead ==
  ASSUME NEW line, NEW text, Len(text) \in Nat
  PROVE  \E e : Follows(e, line, text, Len(text)) /\ Heard(line, text) = e[Len(text)]
<1> DEFINE n == Len(text)
           S == {m \in 0..n : \E e : Follows(e, line, text, m)}
<1>1. 0 \in S
  <2>1. Follows([k \in 0..0 |-> Reader(line, <<>>)], line, text, 0)
    BY DEF Follows
  <2> QED
    BY <2>1
<1>2. ASSUME NEW m \in 0..(n - 1), m \in S
      PROVE  m + 1 \in S
  <2>1. PICK e : Follows(e, line, text, m)
    BY <1>2
  <2> DEFINE g == [k \in 0..(m + 1) |-> IF k <= m THEN e[k] ELSE ReadChar(e[m], text[m + 1])]
  <2>2. \A k \in 0..m : g[k] = e[k]
    OBVIOUS
  <2>3. ASSUME NEW k \in 0..(m + 1)
        PROVE  g[k] = IF k = 0 THEN Reader(line, <<>>) ELSE ReadChar(g[k - 1], text[k])
    <3>1. CASE k = m + 1
      BY <3>1
    <3>2. CASE k # m + 1
      <4>1. k \in 0..m /\ (k # 0 => k - 1 \in 0..m)
        BY <3>2
      <4>2. e[k] = IF k = 0 THEN Reader(line, <<>>) ELSE ReadChar(e[k - 1], text[k])
        BY <2>1, <4>1 DEF Follows
      <4> QED
        BY <2>2, <4>1, <4>2
    <3> QED
      BY <3>1, <3>2
  <2> HIDE DEF g
  <2>4. g = [k \in 0..(m + 1) |->
               IF k = 0 THEN Reader(line, <<>>) ELSE ReadChar(g[k - 1], text[k])]
    BY <2>3 DEF g
  <2>5. m + 1 \in 0..n
    OBVIOUS
  <2> QED
    BY <2>4, <2>5 DEF Follows
<1>3. \E e : Follows(e, line, text, n)
  <2>1. 0..n \subseteq S
    <3> HIDE DEF S
    <3> QED
      BY <1>1, <1>2, Counting
  <2> QED
    BY <2>1
<1> DEFINE reader == CHOOSE e : Follows(e, line, text, n)
<1>4. Follows(reader, line, text, n)
  BY <1>3
<1>5. Heard(line, text) = reader[n]
  BY DEF Heard, Follows, Reader
<1> QED
  BY <1>4, <1>5

\* A short line is kept from its '$' on.
LEMMA LineKept ==
  ASSUME NEW line \in Seq(Characters), NEW text \in Seq(Characters), NEW e,
         Follows(e, line, text, Len(text)),
         NEW n \in 1..7, n <= Len(text), text[1] = Char("$"),
         \A j \in 2..n : text[j] \notin {Char("$"), Char("LF")}
  PROVE  e[n] = Reader(SubSeq(text, 1, n), <<>>)
<1> DEFINE S == {k \in 0..n : k # 0 => e[k] = Reader(SubSeq(text, 1, k), <<>>)}
<1>1. 0 \in S
  OBVIOUS
<1>2. ASSUME NEW k \in 0..(n - 1), k \in S
      PROVE  k + 1 \in S
  <2>1. e[0] = Reader(line, <<>>) /\ e[k + 1] = ReadChar(e[k], text[k + 1])
    BY DEF Follows
  <2>2. text[k + 1] \in Characters /\ k + 1 \in 0..n
    OBVIOUS
  <2>3. CASE k = 0
    <3> DEFINE begun == SubSeq(text, 1, 1)
               one == <<text[1]>>
    <3>1. begun = one
      <4>1. one \in Seq(Characters) /\ Len(one) = 1 /\ one[1] = text[1]
        BY <2>2, <2>3
      <4>2. begun \in Seq(Characters) /\ Len(begun) = 1 /\ begun[1] = text[1]
        BY Begins
      <4> HIDE DEF begun, one
      <4>3. \A i \in 1..Len(begun) : begun[i] = one[i]
        BY <4>1, <4>2
      <4> QED
        BY ONLY <4>1, <4>2, <4>3, SeqEqual
    <3>2. e[1] = Reader(one, <<>>)
      BY <2>1, <2>2, <2>3, CharRead
    <3>3. k + 1 = 1
      BY <2>3
    <3>4. e[k + 1] = Reader(SubSeq(text, 1, k + 1), <<>>)
      BY <3>1, <3>2, <3>3
    <3> QED
      BY <2>2, <3>4
  <2>4. CASE k # 0
    <3> DEFINE begun == SubSeq(text, 1, k)
    <3>1. begun \in Seq(Characters) /\ Len(begun) = k
      BY <2>4
    <3>2. Append(begun, text[k + 1]) = SubSeq(text, 1, k + 1)
      BY <2>4
    <3>3. e[k] = Reader(begun, <<>>) /\ text[k + 1] \notin {Char("$"), Char("LF")}
      BY <1>2, <2>4
    <3>4. Len(begun) + 1 < MAXLINELENGTH
      BY <3>1, LineAssumption
    <3> HIDE DEF begun
    <3>5. e[k + 1] = Reader(Append(begun, text[k + 1]), <<>>)
      <4> DEFINE c == text[k + 1]
      <4>1. e[k + 1] = ReadChar(Reader(begun, <<>>), c) /\ c \in Characters
              /\ c \notin {Char("$"), Char("LF")}
        BY <2>1, <2>2, <3>3
      <4> HIDE DEF c
      <4>2. e[k + 1] = Reader(Append(begun, c), <<>>)
        BY <3>1, <3>4, <4>1, CharKept
      <4> QED
        BY <4>2 DEF c
    <3> QED
      BY <2>2, <3>2, <3>5
  <2> QED
    BY <2>3, <2>4
<1> HIDE DEF S
<1>3. n \in S
  BY <1>1, <1>2, Counting
<1> QED
  BY <1>3 DEF S

\* It is parsed when its line feed comes, and kept when that is lost.
LEMMA LineHeard ==
  ASSUME NEW line \in Seq(Characters), NEW text \in Seq(Characters), Len(text) \in 2..8,
         text[1] = Char("$"),
         \A j \in 2..(Len(text) - 1) : text[j] \notin {Char("$"), Char("LF")}
  PROVE  /\ text[Len(text)] = Char("LF") =>
              Heard(line, text) = Reader(<<>>, IF Refused(Front(text)) THEN <<>>
                                               ELSE <<Content(Front(text))>>)
         /\ text[Len(text)] \notin {Char("$"), Char("LF")} /\ Len(text) <= 7 =>
              Heard(line, text) = Reader(text, <<>>)
<1> DEFINE n == Len(text)
<1>1. n \in Nat /\ n - 1 \in 1..7 /\ n - 1 <= n /\ n \in 0..n /\ n # 0
  OBVIOUS
<1>2. PICK e : Follows(e, line, text, n) /\ Heard(line, text) = e[n]
  BY ONLY <1>1, HeardIsRead
<1>3. ASSUME text[n] = Char("LF")
      PROVE  Heard(line, text) = Reader(<<>>, IF Refused(Front(text)) THEN <<>>
                                              ELSE <<Content(Front(text))>>)
  <2> DEFINE m == n - 1
             front == SubSeq(text, 1, n - 1)
  <2>1. e[n - 1] = Reader(front, <<>>)
    <3>1. m \in 1..7 /\ m <= Len(text)
            /\ \A j \in 2..m : text[j] \notin {Char("$"), Char("LF")}
      BY <1>1
    <3>2. Follows(e, line, text, Len(text))
      BY <1>2
    <3> HIDE DEF m
    <3>3. e[m] = Reader(SubSeq(text, 1, m), <<>>)
      BY ONLY <3>1, <3>2, LineKept, line \in Seq(Characters), text \in Seq(Characters),
              text[1] = Char("$")
    <3> QED
      BY <3>3 DEF m
  <2>2. e[n] = ReadChar(e[n - 1], text[n])
    <3> HIDE DEF n
    <3> QED
      BY ONLY <1>1, <1>2 DEF Follows
  <2>3. front \in Seq(Characters)
    BY <1>1, Begins
  <2>4. Front(text) = front
    BY DEF Front
  <2> HIDE DEF front
  <2>5. e[n] = ParseNMEA(Reader(<<>>, <<>>), front)
    <3>1. e[n] = ReadChar(Reader(front, <<>>), Char("LF"))
      BY <1>3, <2>1, <2>2
    <3> QED
      BY ONLY <2>3, <3>1, LineFeed
  <2>6. Append(<<>>, Content(front)) = <<Content(front)>>
    OBVIOUS
  <2>7. e[n] = Reader(<<>>, IF Refused(front) THEN <<>> ELSE <<Content(front)>>)
    <3>1. CASE Refused(front)
      BY <2>5, <3>1, Parsed
    <3>2. CASE ~Refused(front)
      <4>1. e[n] = Reader(<<>>, Append(<<>>, Content(front)))
        BY <2>5, <3>2, Parsed
      <4>2. e[n] = Reader(<<>>, <<Content(front)>>)
        BY ONLY <2>6, <4>1
      <4> QED
        BY <3>2, <4>2
    <3> QED
      BY <3>1, <3>2
  <2> QED
    BY ONLY <1>2, <2>4, <2>7
<1>4. ASSUME text[n] \notin {Char("$"), Char("LF")}, n <= 7
      PROVE  Heard(line, text) = Reader(text, <<>>)
  <2>1. \A j \in 2..n : text[j] \notin {Char("$"), Char("LF")}
    BY <1>4
  <2>2. e[n] = Reader(SubSeq(text, 1, n), <<>>)
    BY <1>1, <1>2, <1>4, <2>1, LineKept
  <2>3. SubSeq(text, 1, n) = text
    OBVIOUS
  <2> QED
    BY <1>2, <2>2, <2>3
<1> QED
  BY <1>3, <1>4

\* A line that has begun stays what it is while no '$' comes: however often it is
\* parsed, it tells one thing.
LEMMA LineSpoilt ==
  ASSUME NEW line \in Seq(Characters), Len(line) \in 3..(MAXLINELENGTH - 1),
         NEW text \in Seq(Characters), Len(text) >= 1, text[Len(text)] = Char("LF"),
         \A j \in 1..(Len(text) - 1) : text[j] \notin {Char("$"), Char("LF")}
  PROVE  \E accepted \in Seq({Content(line)}) :
           /\ Heard(line, text) = Reader(<<>>, accepted)
           /\ accepted # <<>> => Known(line)
<1> DEFINE n == Len(text)
           Alike(l) == /\ l \in Seq(Characters) /\ Len(l) \in 3..(MAXLINELENGTH - 1)
                       /\ \A j \in 1..3 : l[j] = line[j]
           Fair(accepted) == /\ accepted \in Seq({Content(line)})
                             /\ accepted # <<>> => Known(line)
<1>1. ASSUME NEW l, Alike(l), NEW accepted, Fair(accepted), NEW left
      PROVE  \E more : Fair(more) /\ ParseNMEA(Reader(left, accepted), l) = Reader(left, more)
  <2>1. CASE Refused(l)
    BY <1>1, <2>1, Parsed
  <2>2. CASE ~Refused(l)
    <3>1. l[1] = line[1] /\ l[2] = line[2] /\ l[3] = line[3]
      BY <1>1
    <3>2. Known(line) /\ Content(l) = Content(line)
      BY <2>2, <3>1 DEF Refused, Known, Content
    <3>3. Fair(Append(accepted, Content(l)))
      BY <1>1, <3>2
    <3>4. ParseNMEA(Reader(left, accepted), l) = Reader(left, Append(accepted, Content(l)))
      BY <2>2, Parsed
    <3> QED
      BY ONLY <3>3, <3>4
  <2> QED
    BY <2>1, <2>2
<1>2. PICK e : Follows(e, line, text, n) /\ Heard(line, text) = e[n]
  BY HeardIsRead
<1> DEFINE S == {k \in 0..(n - 1) : \E l, accepted : Alike(l) /\ Fair(accepted)
                                                     /\ e[k] = Reader(l, accepted)}
<1>3. 0 \in S
  <2>1. e[0] = Reader(line, <<>>)
    BY <1>2 DEF Follows
  <2>2. Alike(line) /\ Fair(<<>>) /\ 0 \in 0..(n - 1)
    BY EmptySeq
  <2> HIDE DEF Alike, Fair
  <2> QED
    BY <2>1, <2>2
<1>4. ASSUME NEW k \in 0..((n - 1) - 1), k \in S
      PROVE  k + 1 \in S
  <2>1. PICK l, accepted : Alike(l) /\ Fair(accepted) /\ e[k] = Reader(l, accepted)
    BY <1>4
  <2> DEFINE c == text[k + 1]
  <2>2. e[k + 1] = ReadChar(e[k], c) /\ k + 1 \in 0..(n - 1)
    BY <1>2 DEF Follows
  <2>3. c \in Characters /\ c \notin {Char("$"), Char("LF")}
    OBVIOUS
  <2> DEFINE longer == Append(l, c)
             cut == SubSeq(longer, 1, MAXLINELENGTH - 1)
  <2>6. l \in Seq(Characters) /\ Len(l) \in 3..(MAXLINELENGTH - 1)
    BY <2>1
  <2>7. longer \in Seq(Characters) /\ Len(longer) = Len(l) + 1
          /\ \A j \in 1..3 : longer[j] = l[j]
    <3>1. \A j \in 1..3 : j \in 1..Len(l)
      BY <2>6
    <3> HIDE DEF c
    <3> QED
      BY ONLY <2>3, <2>6, <3>1, Grown
  <2>4. CASE Len(l) + 1 < MAXLINELENGTH
    <3>2. e[k + 1] = Reader(longer, accepted)
      BY <2>1, <2>2, <2>3, <2>4, CharKept
    <3> HIDE DEF longer
    <3>3. Alike(longer)
      BY <2>1, <2>4, <2>6, <2>7, LineAssumption
    <3> QED
      BY <2>1, <2>2, <3>2, <3>3
  <2>5. CASE ~(Len(l) + 1 < MAXLINELENGTH)
    <3> HIDE DEF c
    <3>2. e[k + 1] = ParseNMEA(Reader(cut, accepted), cut)
      <4>1. e[k + 1] = ReadChar(Reader(l, accepted), c)
        BY <2>1, <2>2
      <4> QED
        BY <2>3, <2>5, <2>6, <4>1, CharOver
    <3> HIDE DEF longer
    <3>3. /\ cut \in Seq(Characters) /\ Len(cut) = MAXLINELENGTH - 1
          /\ \A j \in 1..3 : cut[j] = longer[j]
      <4>1. MAXLINELENGTH - 1 \in 0..Len(longer) /\ \A j \in 1..3 : j \in 1..(MAXLINELENGTH - 1)
        BY <2>5, <2>6, <2>7, LineAssumption
      <4> QED
        BY ONLY <2>7, <4>1, Begins
    <3> HIDE DEF cut
    <3>5. Alike(cut)
      BY <2>1, <2>7, <3>3, LineAssumption
    <3> HIDE DEF Alike, Fair
    <3>4. PICK more : Fair(more) /\ e[k + 1] = Reader(cut, more)
      BY <1>1, <2>1, <3>2, <3>5
    <3> QED
      BY <2>2, <3>4, <3>5
  <2> QED
    BY <2>4, <2>5
<1>5. n - 1 \in S
  <2>1. n - 1 \in Nat /\ n - 1 \in 0..(n - 1)
    OBVIOUS
  <2> HIDE DEF S, n
  <2> QED
    BY ONLY <1>3, <1>4, <2>1, Counting
<1>6. PICK l, accepted : Alike(l) /\ Fair(accepted) /\ e[n - 1] = Reader(l, accepted)
  BY <1>5
<1>7. e[n] = ReadChar(e[n - 1], Char("LF"))
  <2>1. n \in 0..n /\ n # 0 /\ text[n] = Char("LF")
    OBVIOUS
  <2> HIDE DEF n
  <2> QED
    BY ONLY <1>2, <2>1 DEF Follows
<1>8. e[n] = ParseNMEA(Reader(<<>>, accepted), l)
  BY <1>6, <1>7, LineFeed
<1>9. PICK more : Fair(more) /\ e[n] = Reader(<<>>, more)
  <2> HIDE DEF Alike, Fair
  <2> QED
    BY <1>1, <1>6, <1>8
<1> QED
  BY <1>2, <1>9

\* A line whose beginning is lost tells nothing.
LEMMA LineWithoutBeginning ==
  ASSUME NEW text \in Seq(Characters), Len(text) >= 2, text[Len(text)] = Char("LF"),
         \A j \in 1..(Len(text) - 1) : text[j] \notin {Char("$"), Char("LF")}
  PROVE  Heard(<<>>, text) = Reader(<<>>, <<>>)
<1> DEFINE n == Len(text)
           Headless(l) == /\ l \in Seq(Characters) /\ Len(l) \in 1..(MAXLINELENGTH - 1)
                          /\ l[1] # Char("$")
<1>1. ASSUME NEW l, Headless(l), NEW left
      PROVE  ParseNMEA(Reader(left, <<>>), l) = Reader(left, <<>>)
  <2>1. Refused(l)
    BY <1>1 DEF Refused, Known
  <2> QED
    BY <2>1, Parsed
<1>2. PICK e : Follows(e, <<>>, text, n) /\ Heard(<<>>, text) = e[n]
  BY HeardIsRead
<1> DEFINE S == {k \in 0..(n - 1) :
                   k # 0 => \E l : Headless(l) /\ e[k] = Reader(l, <<>>)}
<1>3. 0 \in S
  OBVIOUS
<1>4. ASSUME NEW k \in 0..((n - 1) - 1), k \in S
      PROVE  k + 1 \in S
  <2> DEFINE c == text[k + 1]
  <2>1. e[0] = Reader(<<>>, <<>>) /\ e[k + 1] = ReadChar(e[k], c) /\ k + 1 \in 0..(n - 1)
    BY <1>2 DEF Follows
  <2>2. c \in Characters /\ c \notin {Char("$"), Char("LF")}
    OBVIOUS
  <2>3. PICK l : /\ e[k] = Reader(l, <<>>)
                 /\ l \in Seq(Characters) /\ Len(l) <= MAXLINELENGTH - 1
                 /\ Len(l) # 0 => l[1] # Char("$")
    <3>1. CASE k = 0
      <4>1. <<>> \in Seq(Characters) /\ Len(<<>>) = 0 /\ 0 <= MAXLINELENGTH - 1
        BY LineAssumption
      <4> QED
        BY <2>1, <3>1, <4>1
    <3>2. CASE k # 0
      BY <1>4, <3>2
    <3> QED
      BY <3>1, <3>2
  <2> DEFINE longer == Append(l, c)
             cut == SubSeq(longer, 1, MAXLINELENGTH - 1)
  <2>4. /\ longer \in Seq(Characters) /\ Len(longer) = Len(l) + 1 /\ Len(l) \in Nat
        /\ longer[1] # Char("$")
    BY <2>2, <2>3
  <2> HIDE DEF longer
  <2>5. CASE Len(l) + 1 < MAXLINELENGTH
    <3>1. Headless(longer)
      BY <2>4, <2>5, LineAssumption
    <3>2. e[k + 1] = Reader(longer, <<>>)
      BY <2>1, <2>2, <2>3, <2>5, CharKept DEF longer
    <3> QED
      BY <2>1, <3>1, <3>2
  <2>6. CASE ~(Len(l) + 1 < MAXLINELENGTH)
    <3>1. Headless(cut)
      BY <2>3, <2>4, <2>6, LineAssumption
    <3>2. e[k + 1] = ParseNMEA(Reader(cut, <<>>), cut)
      <4>1. e[k + 1] = ReadChar(Reader(l, <<>>), c)
        BY <2>1, <2>3
      <4> HIDE DEF c
      <4> QED
        BY <2>2, <2>3, <2>6, <4>1, CharOver DEF longer
    <3> HIDE DEF cut, Headless
    <3>3. e[k + 1] = Reader(cut, <<>>)
      BY <1>1, <3>1, <3>2
    <3> QED
      BY <2>1, <3>1, <3>3
  <2> QED
    BY <2>5, <2>6
<1>5. n - 1 \in S
  <2>1. n - 1 \in Nat /\ n - 1 \in 0..(n - 1)
    OBVIOUS
  <2> HIDE DEF S, n
  <2> QED
    BY ONLY <1>3, <1>4, <2>1, Counting
<1>6. PICK l : Headless(l) /\ e[n - 1] = Reader(l, <<>>)
  BY <1>5
<1>7. e[n] = ReadChar(e[n - 1], Char("LF"))
  <2>1. n \in 0..n /\ n # 0 /\ text[n] = Char("LF")
    OBVIOUS
  <2> HIDE DEF n
  <2> QED
    BY ONLY <1>2, <2>1 DEF Follows
<1>8. e[n] = ParseNMEA(Reader(<<>>, <<>>), l)
  BY <1>6, <1>7, LineFeed
<1> QED
  BY <1>1, <1>2, <1>6, <1>8

-----------------------------------------------------------------------------
(* What is heard of a sentence                                             *)

\* What a sentence is to those who have read it.
Plain(s) == IF Len(s) = 1 THEN <<"GPGGA", "low">> ELSE s

Data(s) == [i \in DOMAIN s |-> Char(s[i])]
Words == {"GPRMC", "GPGGA", "PGTOP", "A", "V", "3", "low", "high"}

LEMMA SentenceForms ==
  ASSUME NEW s \in AllSentences
  PROVE  s \in {<<"GPRMC", "A">>, <<"GPRMC", "V">>, <<"PGTOP", "3">>,
                <<"GPGGA", "low">>, <<"GPGGA", "high">>, <<"GPGGA">>}
BY DEF AllSentences, Sentences

LEMMA SentenceLength ==
  ASSUME NEW s \in AllSentences
  PROVE  s \in Seq(Words) /\ Len(s) \in 1..2
<1> DEFINE W == Words
<1>1. /\ "GPRMC" \in W /\ "GPGGA" \in W /\ "PGTOP" \in W /\ "A" \in W /\ "V" \in W
      /\ "3" \in W /\ "low" \in W /\ "high" \in W
  BY DEF Words
<1> HIDE DEF W
<1>2. \A a, b \in W : <<a, b>> \in Seq(W) /\ Len(<<a, b>>) = 2
  OBVIOUS
<1>3. <<"GPGGA">> \in Seq(W) /\ Len(<<"GPGGA">>) = 1
  BY <1>1
<1>4. s \in Seq(W) /\ Len(s) \in 1..2
  BY <1>1, <1>2, <1>3, SentenceForms
<1> QED
  BY <1>4 DEF W

LEMMA DataRead ==
  ASSUME NEW s \in AllSentences
  PROVE  /\ Data(s) \in Seq(Letters) /\ Len(Data(s)) = Len(s)
         /\ \A j \in 1..Len(s) : Data(s)[j] = Char(s[j]) /\ s[j] \in Words
<1>1. Data(s) = [j \in 1..Len(s) |-> Char(s[j])] /\ \A j \in 1..Len(s) : s[j] \in Words
  BY SentenceLength DEF Data
<1>2. \A j \in 1..Len(s) : Char(s[j]) \in Letters
  BY <1>1 DEF Letters, Words
<1> HIDE DEF Data
<1> QED
  BY <1>1, <1>2, SentenceLength

\* The places of a text.
LEMMA TextForm ==
  ASSUME NEW s \in AllSentences
  PROVE  LET T == Text(s)
             n == Len(T)
         IN /\ T \in Seq(Characters) /\ n = Len(s) + 6 /\ n \in 7..8
            /\ T[1] = Char("$")
            /\ \A j \in 2..(n - 5) : T[j] = Data(s)[j - 1]
            /\ T[n - 4] = Char("*")
            /\ T[n - 3] = Sum(Data(s)) /\ T[n - 2] = Sum(Data(s))
            /\ T[n - 1] = Char("CR") /\ T[n] = Char("LF")
<1> DEFINE d == Data(s)
           first == <<Char("$")>>
           last == <<Char("*"), Sum(d), Sum(d), Char("CR"), Char("LF")>>
<1>1. Text(s) = first \o d \o last
  BY DEF Text, Data
<1>2. Char("$") \in Characters /\ Char("*") \in Characters /\ Char("CR") \in Characters
        /\ Char("LF") \in Characters
  BY DEF Characters, Letters
<1>3. Sum(d) \in Characters /\ d \in Seq(Characters) /\ Len(d) = Len(s) /\ Len(s) \in 1..2
  BY DataRead, SentenceLength, SeqMonotonic DEF Characters
<1> HIDE DEF d
<1>4. first \in Seq(Characters) /\ Len(first) = 1 /\ first[1] = Char("$")
  BY <1>2
<1>5. /\ last \in Seq(Characters) /\ Len(last) = 5
      /\ last[1] = Char("*") /\ last[2] = Sum(d) /\ last[3] = Sum(d)
      /\ last[4] = Char("CR") /\ last[5] = Char("LF")
  BY <1>2, <1>3
<1> HIDE DEF first, last
<1> DEFINE begun == first \o d
<1>6. /\ begun \in Seq(Characters) /\ Len(begun) = 1 + Len(s)
      /\ \A j \in 1..(1 + Len(s)) : begun[j] = IF j <= 1 THEN first[j] ELSE d[j - 1]
  <2>1. /\ begun \in Seq(Characters) /\ Len(begun) = Len(first) + Len(d)
        /\ \A j \in 1..(Len(first) + Len(d)) :
             begun[j] = IF j <= Len(first) THEN first[j] ELSE d[j - Len(first)]
    BY ONLY <1>3, <1>4, ConcatProperties
  <2> HIDE DEF begun
  <2> QED
    BY ONLY <1>3, <1>4, <2>1
<1> HIDE DEF begun
<1> DEFINE T == begun \o last
<1>7. /\ T \in Seq(Characters) /\ Len(T) = 6 + Len(s)
      /\ \A j \in 1..(6 + Len(s)) : T[j] = IF j <= 1 + Len(s) THEN begun[j]
                                           ELSE last[j - (1 + Len(s))]
  <2>1. /\ T \in Seq(Characters) /\ Len(T) = Len(begun) + Len(last)
        /\ \A j \in 1..(Len(begun) + Len(last)) :
             T[j] = IF j <= Len(begun) THEN begun[j] ELSE last[j - Len(begun)]
    BY ONLY <1>5, <1>6, ConcatProperties
  <2>2. Len(begun) = 1 + Len(s) /\ Len(begun) + Len(last) = 6 + Len(s)
    BY <1>3, <1>5, <1>6
  <2> HIDE DEF T
  <2> QED
    BY ONLY <2>1, <2>2
<1>8. Text(s) = T
  BY <1>1 DEF begun
<1> HIDE DEF T
<1>9. T[1] = Char("$") /\ \A j \in 2..(1 + Len(s)) : T[j] = d[j - 1]
  BY <1>3, <1>4, <1>6, <1>7
<1>10. /\ T[Len(s) + 2] = Char("*") /\ T[Len(s) + 3] = Sum(d) /\ T[Len(s) + 4] = Sum(d)
       /\ T[Len(s) + 5] = Char("CR") /\ T[Len(s) + 6] = Char("LF")
  <2>1. ASSUME NEW k \in 1..5
        PROVE  T[Len(s) + 1 + k] = last[k]
    <3>1. /\ Len(s) + 1 + k \in 1..(6 + Len(s)) /\ ~(Len(s) + 1 + k <= 1 + Len(s))
          /\ Len(s) + 1 + k - (1 + Len(s)) = k
      BY <1>3
    <3> QED
      BY <1>7, <3>1
  <2>2. /\ Len(s) + 1 + 1 = Len(s) + 2 /\ Len(s) + 1 + 2 = Len(s) + 3 /\ Len(s) + 1 + 3 = Len(s) + 4
        /\ Len(s) + 1 + 4 = Len(s) + 5 /\ Len(s) + 1 + 5 = Len(s) + 6
    BY <1>3
  <2>3. 1 \in 1..5 /\ 2 \in 1..5 /\ 3 \in 1..5 /\ 4 \in 1..5 /\ 5 \in 1..5
    OBVIOUS
  <2>4. /\ T[Len(s) + 1 + 1] = last[1] /\ T[Len(s) + 1 + 2] = last[2]
        /\ T[Len(s) + 1 + 3] = last[3] /\ T[Len(s) + 1 + 4] = last[4]
        /\ T[Len(s) + 1 + 5] = last[5]
    BY ONLY <2>1, <2>3
  <2> QED
    BY ONLY <1>5, <2>2, <2>4
<1>11. /\ T \in Seq(Characters) /\ Len(T) = Len(s) + 6 /\ Len(T) \in 7..8
       /\ T[1] = Char("$")
       /\ \A j \in 2..(Len(T) - 5) : T[j] = d[j - 1]
       /\ T[Len(T) - 4] = Char("*")
       /\ T[Len(T) - 3] = Sum(d) /\ T[Len(T) - 2] = Sum(d)
       /\ T[Len(T) - 1] = Char("CR") /\ T[Len(T)] = Char("LF")
  <2>1. /\ Len(T) - 4 = Len(s) + 2 /\ Len(T) - 3 = Len(s) + 3 /\ Len(T) - 2 = Len(s) + 4
        /\ Len(T) - 1 = Len(s) + 5 /\ Len(T) - 5 = 1 + Len(s)
    BY <1>3, <1>7
  <2>2. Len(T) = Len(s) + 6 /\ Len(T) \in 7..8
    <3> DEFINE whole == Len(T)
               part == Len(s)
    <3>1. whole = 6 + part /\ part \in 1..2
      BY <1>3, <1>7
    <3> HIDE DEF whole, part
    <3>2. whole = part + 6 /\ whole \in 7..8
      BY <3>1
    <3> QED
      BY <3>2 DEF whole, part
  <2> QED
    BY ONLY <1>7, <1>9, <1>10, <2>1, <2>2
<1> QED
  BY <1>8, <1>11 DEF d

\* Nothing else begins or ends a line.
LEMMA TextInside ==
  ASSUME NEW s \in AllSentences, NEW j \in 2..(Len(Text(s)) - 1)
  PROVE  Text(s)[j] \notin {Char("$"), Char("LF")}
<1> DEFINE T == Text(s)
           n == Len(T)
<1>1. n = Len(s) + 6 /\ n \in 7..8
  BY TextForm
<1>2. CASE j \in 2..(n - 5)
  <2>1. T[j] = Data(s)[j - 1]
    BY <1>2, TextForm
  <2>2. j - 1 \in 1..Len(s)
    BY <1>1, <1>2
  <2>3. T[j] = Char(s[j - 1]) /\ s[j - 1] \in Words
    BY <2>1, <2>2, DataRead
  <2>4. s[j - 1] # "$" /\ s[j - 1] # "LF"
    BY <2>3 DEF Words
  <2> QED
    BY <2>3, <2>4, CharsDiffer
<1>3. CASE j \in (n - 4)..(n - 1)
  <2>1. T[j] \in {Char("*"), Sum(Data(s)), Char("CR")}
    <3>1. j = n - 4 \/ j = n - 3 \/ j = n - 2 \/ j = n - 1
      BY <1>1, <1>3
    <3> QED
      BY <3>1, TextForm
  <2>2. Char("*") \notin {Char("$"), Char("LF")} /\ Char("CR") \notin {Char("$"), Char("LF")}
          /\ Sum(Data(s)) \notin {Char("$"), Char("LF")}
    BY CharsDiffer
  <2> QED
    BY <2>1, <2>2
<1> QED
  BY <1>1, <1>2, <1>3

\* A text without one of its characters.
LEMMA Removed ==
  ASSUME NEW S, NEW text \in Seq(S), NEW i \in 1..Len(text)
  PROVE  /\ RemoveAt(text, i) \in Seq(S)
         /\ Len(RemoveAt(text, i)) = Len(text) - 1
         /\ \A j \in 1..(Len(text) - 1) :
              RemoveAt(text, i)[j] = IF j < i THEN text[j] ELSE text[j + 1]
<1> DEFINE n == Len(text)
           a == SubSeq(text, 1, i - 1)
           b == SubSeq(text, i + 1, n)
<1>1. a \in Seq(S) /\ Len(a) = i - 1 /\ \A j \in 1..(i - 1) : a[j] = text[j]
  BY Begins
<1>2. b \in Seq(S) /\ Len(b) = n - i /\ \A j \in 1..(n - i) : b[j] = text[i + j]
  BY SubSeqProperties
<1>3. RemoveAt(text, i) = a \o b
  BY DEF RemoveAt
<1> HIDE DEF a, b
<1>4. /\ a \o b \in Seq(S) /\ Len(a \o b) = (i - 1) + (n - i)
      /\ \A j \in 1..((i - 1) + (n - i)) :
           (a \o b)[j] = IF j <= i - 1 THEN a[j] ELSE b[j - (i - 1)]
  <2>1. /\ a \o b \in Seq(S) /\ Len(a \o b) = Len(a) + Len(b)
        /\ \A j \in 1..(Len(a) + Len(b)) :
             (a \o b)[j] = IF j <= Len(a) THEN a[j] ELSE b[j - Len(a)]
    BY ONLY <1>1, <1>2, ConcatProperties
  <2> QED
    BY ONLY <1>1, <1>2, <2>1
<1>5. (i - 1) + (n - i) = n - 1 /\ n \in Nat
  OBVIOUS
<1>6. ASSUME NEW j \in 1..(n - 1)
      PROVE  (a \o b)[j] = IF j < i THEN text[j] ELSE text[j + 1]
  <2>1. CASE j < i
    BY <1>1, <1>4, <1>5, <2>1
  <2>2. CASE ~(j < i)
    <3>1. j - (i - 1) \in 1..(n - i) /\ i + (j - (i - 1)) = j + 1
      BY <1>5, <2>2
    <3>2. (a \o b)[j] = b[j - (i - 1)]
      BY <1>4, <1>5, <2>2
    <3>3. b[j - (i - 1)] = text[i + (j - (i - 1))]
      BY ONLY <1>2, <3>1
    <3> QED
      BY ONLY <2>2, <3>1, <3>2, <3>3
  <2> QED
    BY <2>1, <2>2
<1> QED
  BY <1>3, <1>4, <1>5, <1>6

\* What a line that begins like s tells.
LEMMA ContentPlain ==
  ASSUME NEW s \in AllSentences, NEW line, Known(line), line[2] = Char(s[1]),
         Len(s) = 2 => line[3] = Char(s[2]),
         Len(s) = 1 => line[3] \notin {Char("high"), Char("spoilt")}
  PROVE  Content(line) = Plain(s)
<1>1. line[2] = Char("GPGGA") \/ line[2] = Char("GPRMC")
  BY DEF Known
<1>2. \A a, b : Char(a) = Char(b) => a = b
  BY CharsDiffer
<1>3. s[1] \in {"GPGGA", "GPRMC"}
  BY <1>1, <1>2
<1>4. \A c : Char(c)[1] = c
  BY DEF Char
<1>5. CASE s[1] = "GPRMC"
  <2>1. Len(s) = 2 /\ s = <<"GPRMC", s[2]>>
    BY <1>5, SentenceForms
  <2>2. Content(line) = <<"GPRMC", s[2]>>
    BY <1>4, <1>5, <2>1 DEF Content
  <2> QED
    BY <2>1, <2>2 DEF Plain
<1>6. CASE s[1] = "GPGGA"
  <2>1. line[2] # Char("GPRMC")
    BY <1>2, <1>6
  <2>2. Content(line) = <<"GPGGA", Number(line[3])>>
    BY <2>1 DEF Content
  <2>3. CASE Len(s) = 1
    BY <2>2, <2>3 DEF Plain, Number
  <2>4. CASE Len(s) # 1
    <3>1. Len(s) = 2 /\ s = <<"GPGGA", s[2]>> /\ s[2] \in {"low", "high"}
      BY <1>6, <2>4, SentenceForms
    <3>2. Number(Char(s[2])) = s[2]
      BY <1>2, <1>4, <3>1 DEF Number
    <3> QED
      BY <2>2, <3>1, <3>2 DEF Plain
  <2> QED
    BY <2>3, <2>4
<1> QED
  BY <1>3, <1>5, <1>6

\* What is left of a text, when its beginning is not what is lost: the beginning, no
\* other, and no line feed but at the end.
LEMMA LossyForm ==
  ASSUME NEW s \in AllSentences, NEW i \in 0..Len(Text(s)), i # 1
  PROVE  LET T == Text(s)
             n == Len(T)
             L == Lossy(T, i)
         IN /\ i = 0 => L = T
            /\ i \in 2..(n - 5) => L = [T EXCEPT ![i] = Char("spoilt")]
            /\ i \notin {0} \cup 2..(n - 5) => L = RemoveAt(T, i) /\ i \in (n - 4)..n
<1> DEFINE T == Text(s)
           n == Len(T)
<1>1. n \in 7..8
  BY TextForm
<1> HIDE DEF T
<1>2. i # 0 => (i - 1 \in 1..(n - 6) <=> i \in 2..(n - 5))
  BY <1>1
<1>3. i \in 0..n
  BY DEF T
<1>4. i \notin {0} \cup 2..(n - 5) => i \in (n - 4)..n
  BY <1>1, <1>3
<1>5. i \in 2..(n - 5) => i # 0
  OBVIOUS
<1> QED
  BY <1>2, <1>4, <1>5 DEF T, Lossy

\* What is heard of a sentence on a new line is the sentence or nothing, and all of
\* it when nothing is lost.
Spoken(s, i, r) ==
  \/ r = Reader(<<>>, <<Plain(s)>>)
  \/ r \in {Reader(<<>>, <<>>), Reader(Front(Text(s)), <<>>)} /\ (i = 0 => s[1] = "PGTOP")

\* It is heard whole when nothing is lost.
LEMMA WholeHeard ==
  ASSUME NEW s \in AllSentences, NEW line \in Seq(Characters)
  PROVE  Spoken(s, 0, Heard(line, Text(s)))
<1> DEFINE T == Text(s)
           n == Len(T)
           f == Front(T)
           d == Data(s)
<1>1. /\ T \in Seq(Characters) /\ n = Len(s) + 6 /\ n \in 7..8
      /\ T[1] = Char("$") /\ \A j \in 2..(n - 5) : T[j] = d[j - 1]
      /\ T[n - 4] = Char("*") /\ T[n - 3] = Sum(d) /\ T[n - 2] = Sum(d)
      /\ T[n - 1] = Char("CR") /\ T[n] = Char("LF")
  BY TextForm
<1>2. d \in Seq(Letters) /\ Len(d) = Len(s) /\ \A j \in 1..Len(s) : d[j] = Char(s[j])
  BY DataRead
<1>3. Len(s) \in 1..2
  BY SentenceLength
<1>4. Heard(line, T) = Reader(<<>>, IF Refused(f) THEN <<>> ELSE <<Content(f)>>)
  <2>1. \A j \in 2..(n - 1) : T[j] \notin {Char("$"), Char("LF")}
    BY TextInside
  <2>2. n \in 2..8
    BY <1>1
  <2> HIDE DEF T
  <2> QED
    BY <1>1, <2>1, <2>2, LineHeard
<1>5. f \in Seq(Characters) /\ Len(f) = n - 1 /\ \A j \in 1..(n - 1) : f[j] = T[j]
  BY <1>1, Begins DEF Front
<1> HIDE DEF T, f, d
<1>6. ~ChecksumWrong(f)
  <2> DEFINE read == SubSeq(f, 2, Len(f) - 4)
  <2>1. /\ Len(f) - 3 = n - 4 /\ Len(f) - 2 = n - 3 /\ Len(f) - 1 = n - 2
        /\ f[n - 4] = T[n - 4] /\ f[n - 3] = T[n - 3] /\ f[n - 2] = T[n - 2]
    BY <1>1, <1>5
  <2>2. read = d
    <3>1. Len(f) - 4 = n - 5 /\ n - 5 = 1 + Len(s) /\ 2 <= n - 5
      BY <1>1, <1>3, <1>5
    <3>2. \A j \in 2..(n - 5) : f[j] = d[j - 1] /\ d[j - 1] \in Letters
      BY <1>1, <1>2, <1>3, <1>5
    <3>3. /\ read \in Seq(Letters) /\ Len(read) = Len(s)
          /\ \A j \in 1..Len(s) : read[j] = f[1 + j]
      BY <1>3, <3>1, <3>2, SubSeqProperties
    <3>4. \A j \in 1..Len(s) : read[j] = d[j]
      BY <1>3, <3>1, <3>2, <3>3
    <3> HIDE DEF read
    <3> QED
      BY <1>2, <3>3, <3>4, SeqEqual
  <2> QED
    BY <1>1, <2>1, <2>2 DEF ChecksumWrong
<1>7. f[1] = Char("$") /\ f[2] = Char(s[1])
  <2>1. 1 \in 1..(n - 1) /\ 2 \in 1..(n - 1) /\ 2 \in 2..(n - 5) /\ 2 - 1 = 1 /\ 1 \in 1..Len(s)
    BY <1>1, <1>3
  <2>2. f[1] = T[1] /\ f[2] = T[2] /\ T[2] = d[2 - 1] /\ d[1] = Char(s[1])
    BY <1>1, <1>2, <1>5, <2>1
  <2> QED
    BY <1>1, <2>1, <2>2
<1>8. Len(s) = 2 => f[3] = Char(s[2])
  BY <1>1, <1>2, <1>3, <1>5
<1>9. Len(s) = 1 => f[3] = Char("*")
  BY <1>1, <1>3, <1>5
<1>10. CASE Refused(f)
  <2>1. s[1] = "PGTOP"
    <3>1. SUFFICES ASSUME s[1] # "PGTOP"
                   PROVE  FALSE
      OBVIOUS
    <3>2. s[1] = "GPGGA" \/ (s[1] = "GPRMC" /\ Len(s) = 2 /\ s[2] \in {"A", "V"})
      <4>1. s \in {<<"GPRMC", "A">>, <<"GPRMC", "V">>}
              \/ s \in {<<"GPGGA", "low">>, <<"GPGGA", "high">>} \/ s = <<"GPGGA">>
        BY <3>1, SentenceForms
      <4>2. ASSUME s \in {<<"GPRMC", "A">>, <<"GPRMC", "V">>}
            PROVE  s[1] = "GPRMC" /\ Len(s) = 2 /\ s[2] \in {"A", "V"}
        BY <4>2
      <4>3. ASSUME s \in {<<"GPGGA", "low">>, <<"GPGGA", "high">>} \/ s = <<"GPGGA">>
            PROVE  s[1] = "GPGGA"
        BY <4>3
      <4> QED
        BY ONLY <4>1, <4>2, <4>3
    <3>3. Known(f)
      BY <1>7, <3>2 DEF Known
    <3>4. Char("GPGGA") # Char("GPRMC")
      BY CharsDiffer
    <3> QED
      BY <1>6, <1>7, <1>8, <1>10, <3>2, <3>3, <3>4 DEF Refused
  <2> QED
    BY <1>4, <1>10, <2>1 DEF Spoken, T
<1>11. CASE ~Refused(f)
  <2>1. Char("*") \notin {Char("high"), Char("spoilt")}
    BY CharsDiffer
  <2>2. Content(f) = Plain(s)
    BY <1>7, <1>8, <1>9, <1>11, <2>1, ContentPlain DEF Refused
  <2>3. Heard(line, T) = Reader(<<>>, <<Plain(s)>>)
    BY <1>4, <1>11, <2>2
  <2> QED
    BY <2>3 DEF Spoken, T
<1> QED
  BY <1>10, <1>11

\* A character spoilt is noticed.
LEMMA SpoiltHeard ==
  ASSUME NEW s \in AllSentences, NEW line \in Seq(Characters),
         NEW i \in 2..(Len(Text(s)) - 5)
  PROVE  Heard(line, [Text(s) EXCEPT ![i] = Char("spoilt")]) = Reader(<<>>, <<>>)
<1> DEFINE T == Text(s)
           n == Len(T)
           L == [T EXCEPT ![i] = Char("spoilt")]
           f == Front(L)
           d == Data(s)
<1>1. /\ T \in Seq(Characters) /\ n = Len(s) + 6 /\ n \in 7..8
      /\ T[1] = Char("$") /\ \A j \in 2..(n - 5) : T[j] = d[j - 1]
      /\ T[n - 4] = Char("*") /\ T[n - 3] = Sum(d) /\ T[n - 2] = Sum(d)
      /\ T[n] = Char("LF") /\ \A j \in 2..(n - 1) : T[j] \notin {Char("$"), Char("LF")}
  BY TextForm, TextInside
<1>2. d \in Seq(Letters) /\ Len(d) = Len(s)
        /\ \A j \in 1..Len(s) : d[j] = Char(s[j]) /\ s[j] \in Words
  BY DataRead
<1>3. Char("spoilt") \in Characters /\ Char("spoilt") \notin {Char("$"), Char("LF")}
  BY CharsDiffer DEF Characters, Letters
<1>4. i \in 2..(n - 5) /\ i \in 1..n
  BY <1>1
<1> HIDE DEF T, d
<1>5. /\ L \in Seq(Characters) /\ Len(L) = n
      /\ \A j \in 1..n : L[j] = IF j = i THEN Char("spoilt") ELSE T[j]
  BY <1>1, <1>3, <1>4, ExceptSeq
<1> HIDE DEF L
<1>6. Heard(line, L) = Reader(<<>>, IF Refused(f) THEN <<>> ELSE <<Content(f)>>)
  <2>1. L[1] = Char("$") /\ L[Len(L)] = Char("LF") /\ Len(L) \in 2..8
    BY <1>1, <1>4, <1>5
  <2>2. \A j \in 2..(Len(L) - 1) : L[j] \notin {Char("$"), Char("LF")}
    BY <1>1, <1>3, <1>4, <1>5
  <2> QED
    BY <1>5, <2>1, <2>2, LineHeard
<1>7. f \in Seq(Characters) /\ Len(f) = n - 1 /\ \A j \in 1..(n - 1) : f[j] = L[j]
  BY <1>1, <1>5, Begins DEF Front
<1> HIDE DEF f
<1>8. ChecksumWrong(f)
  <2> DEFINE read == SubSeq(f, 2, Len(f) - 4)
  <2>1. /\ Len(f) - 3 = n - 4 /\ Len(f) - 2 = n - 3 /\ Len(f) - 1 = n - 2 /\ Len(f) - 4 = n - 5
    BY <1>1, <1>7
  <2>2. f[n - 4] = T[n - 4] /\ f[n - 3] = T[n - 3] /\ f[n - 2] = T[n - 2]
    <3>1. ASSUME NEW j \in (n - 4)..(n - 2)
          PROVE  f[j] = T[j]
      <4>1. j \in 1..(n - 1) /\ j \in 1..n /\ j # i
        BY <1>1, <1>4
      <4> QED
        BY <1>5, <1>7, <4>1
    <3>2. n - 4 \in (n - 4)..(n - 2) /\ n - 3 \in (n - 4)..(n - 2) /\ n - 2 \in (n - 4)..(n - 2)
      BY <1>1
    <3> QED
      BY ONLY <3>1, <3>2
  <2>3. read[i - 1] = Char("spoilt")
    <3>1. \A j \in 2..(n - 5) : f[j] \in Characters
      BY <1>1, <1>7
    <3>2. read[i - 1] = f[2 + (i - 1) - 1] /\ 2 + (i - 1) - 1 = i
      BY <1>1, <1>4, <2>1, <3>1, SubSeqProperties
    <3>3. f[i] = Char("spoilt")
      BY <1>1, <1>4, <1>5, <1>7
    <3> QED
      BY <3>2, <3>3
  <2>4. d[i - 1] # Char("spoilt")
    <3>1. i - 1 \in 1..Len(s)
      BY <1>1, <1>4
    <3>2. d[i - 1] = Char(s[i - 1]) /\ s[i - 1] # "spoilt"
      BY <1>2, <3>1 DEF Words
    <3> QED
      BY <3>2, CharsDiffer
  <2>5. read # d
    BY <2>3, <2>4
  <2>6. Sum(d) # Sum(read)
    BY <2>5, CharsDiffer
  <2> QED
    BY <1>1, <2>1, <2>2, <2>6 DEF ChecksumWrong
<1>9. Refused(f)
  BY <1>8 DEF Refused
<1> QED
  BY <1>6, <1>9 DEF L, T

\* When what ends a sentence is damaged, the sentence is heard all the same, or
\* nothing is; without its line feed it stays in the line.
LEMMA EndLostHeard ==
  ASSUME NEW s \in AllSentences, NEW line \in Seq(Characters),
         NEW i \in (Len(Text(s)) - 4)..Len(Text(s))
  PROVE  Spoken(s, i, Heard(line, RemoveAt(Text(s), i)))
<1> DEFINE T == Text(s)
           n == Len(T)
           L == RemoveAt(T, i)
           f == Front(L)
           d == Data(s)
<1>1. /\ T \in Seq(Characters) /\ n = Len(s) + 6 /\ n \in 7..8
      /\ T[1] = Char("$") /\ \A j \in 2..(n - 5) : T[j] = d[j - 1]
      /\ T[n - 4] = Char("*") /\ T[n - 3] = Sum(d) /\ T[n] = Char("LF")
      /\ \A j \in 2..(n - 1) : T[j] \notin {Char("$"), Char("LF")}
  BY TextForm, TextInside
<1>2. Len(d) = Len(s) /\ \A j \in 1..Len(s) : d[j] = Char(s[j])
  BY DataRead
<1>3. Len(s) \in 1..2
  BY SentenceLength
<1>4. i \in (n - 4)..n /\ i \in 1..n /\ i # 0
  BY <1>1
<1> HIDE DEF T, d
<1>5. /\ L \in Seq(Characters) /\ Len(L) = n - 1
      /\ \A j \in 1..(n - 1) : L[j] = IF j < i THEN T[j] ELSE T[j + 1]
  BY <1>1, <1>4, Removed
<1>6. /\ f \in Seq(Characters) /\ Len(f) = n - 2 /\ \A j \in 1..(n - 2) : f[j] = L[j]
  BY <1>1, <1>5, Begins DEF Front
<1> HIDE DEF L
<1>7. L[1] = Char("$") /\ Len(L) \in 2..8 /\ Len(L) <= 7
        /\ \A j \in 2..(Len(L) - 1) : L[j] \notin {Char("$"), Char("LF")}
  <2>1. 1 \in 1..(n - 1) /\ 1 < i /\ n - 1 \in 2..8 /\ n - 1 <= 7
    BY <1>1, <1>4
  <2>2. ASSUME NEW j \in 2..((n - 1) - 1)
        PROVE  L[j] \notin {Char("$"), Char("LF")}
    <3>1. j \in 1..(n - 1) /\ j \in 2..(n - 1) /\ j + 1 \in 2..(n - 1)
      BY <1>1
    <3>2. L[j] = T[j] \/ L[j] = T[j + 1]
      BY <1>5, <3>1
    <3> QED
      BY ONLY <1>1, <3>1, <3>2
  <2> QED
    BY ONLY <1>1, <1>5, <2>1, <2>2
<1>8. CASE i = n
  <2>1. \A j \in 1..(n - 1) : L[j] = T[j]
    BY <1>1, <1>5, <1>8
  <2>2. L[Len(L)] = T[n - 1] /\ n - 1 \in 2..(n - 1)
    BY <1>1, <1>5, <2>1
  <2>3. Heard(line, L) = Reader(L, <<>>)
    BY <1>1, <1>5, <1>7, <2>2, LineHeard
  <2>4. L = Front(T)
    <3> DEFINE front == Front(T)
    <3>1. front \in Seq(Characters) /\ Len(front) = n - 1 /\ \A j \in 1..(n - 1) : front[j] = T[j]
      BY <1>1, Begins DEF Front
    <3> HIDE DEF front
    <3>2. \A j \in 1..Len(L) : L[j] = front[j]
      BY <1>5, <2>1, <3>1
    <3>3. L = front
      BY <1>5, <3>1, <3>2, SeqEqual
    <3> QED
      BY <3>3 DEF front
  <2>5. Heard(line, L) = Reader(Front(T), <<>>)
    BY <2>3, <2>4
  <2> QED
    BY <1>4, <2>5 DEF Spoken, L, T
<1>9. CASE i # n
  <2>1. L[Len(L)] = Char("LF")
    BY <1>1, <1>4, <1>5, <1>9
  <2>2. Heard(line, L) = Reader(<<>>, IF Refused(f) THEN <<>> ELSE <<Content(f)>>)
    BY <1>5, <1>7, <2>1, LineHeard
  <2> HIDE DEF f
  <2>3. CASE Refused(f)
    BY <1>4, <2>2, <2>3 DEF Spoken, L, T
  <2>4. CASE ~Refused(f)
    <3>1. f[2] = Char(s[1])
      <4>1. 2 \in 1..(n - 2) /\ 2 \in 1..(n - 1) /\ 2 < i /\ 2 \in 2..(n - 5) /\ 2 - 1 = 1
              /\ 1 \in 1..Len(s)
        BY <1>1, <1>3, <1>4
      <4>2. f[2] = L[2] /\ L[2] = T[2] /\ T[2] = d[2 - 1] /\ d[1] = Char(s[1])
        BY <1>1, <1>2, <1>5, <1>6, <4>1
      <4> QED
        BY <4>1, <4>2
    <3>2. ASSUME Len(s) = 2
          PROVE  f[3] = Char(s[2])
      <4>1. 3 \in 1..(n - 2) /\ 3 \in 1..(n - 1) /\ 3 < i /\ 3 \in 2..(n - 5) /\ 3 - 1 = 2
              /\ 2 \in 1..Len(s)
        BY <1>1, <1>4, <3>2
      <4>2. f[3] = L[3] /\ L[3] = T[3] /\ T[3] = d[3 - 1] /\ d[2] = Char(s[2])
        BY <1>1, <1>2, <1>5, <1>6, <4>1
      <4> QED
        BY <4>1, <4>2
    <3>3. ASSUME Len(s) = 1
          PROVE  f[3] \notin {Char("high"), Char("spoilt")}
      <4>1. n - 4 = 3 /\ n - 3 = 4 /\ 3 + 1 = 4 /\ 3 \in 1..(n - 2) /\ 3 \in 1..(n - 1)
        BY <1>1, <3>3
      <4>2. f[3] = L[3] /\ L[3] = IF 3 < i THEN T[3] ELSE T[3 + 1]
        BY <1>5, <1>6, <4>1
      <4>3. f[3] \in {Char("*"), Sum(d)}
        BY <1>1, <4>1, <4>2
      <4>4. Char("*") \notin {Char("high"), Char("spoilt")} /\ Sum(d) \notin {Char("high"), Char("spoilt")}
        BY CharsDiffer
      <4> QED
        BY <4>3, <4>4
    <3>4. Content(f) = Plain(s)
      BY <2>4, <3>1, <3>2, <3>3, ContentPlain DEF Refused
    <3>5. Heard(line, L) = Reader(<<>>, <<Plain(s)>>)
      BY <2>2, <2>4, <3>4
    <3> QED
      BY <3>5 DEF Spoken, L, T
  <2> QED
    BY <2>3, <2>4
<1> QED
  BY <1>8, <1>9

\* A line that was left is the beginning of a sentence, or none.
LEMMA LinesKept ==
  ASSUME NEW t \in AllSentences
  PROVE  LET line == Front(Text(t))
         IN /\ line \in Seq(Characters) /\ Len(line) \in 6..7
            /\ Known(line) => Content(line) = Plain(t)
<1> DEFINE T == Text(t)
           n == Len(T)
           f == Front(T)
           d == Data(t)
<1>1. /\ T \in Seq(Characters) /\ n = Len(t) + 6 /\ n \in 7..8
      /\ \A j \in 2..(n - 5) : T[j] = d[j - 1]
      /\ T[n - 4] = Char("*")
  BY TextForm
<1>2. Len(d) = Len(t) /\ \A j \in 1..Len(t) : d[j] = Char(t[j])
  BY DataRead
<1>3. Len(t) \in 1..2
  BY SentenceLength
<1>4. f \in Seq(Characters) /\ Len(f) = n - 1 /\ \A j \in 1..(n - 1) : f[j] = T[j]
  BY <1>1, Begins DEF Front
<1> HIDE DEF T, f, d
<1>5. f[2] = Char(t[1])
  <2>1. 2 \in 1..(n - 1) /\ 2 \in 2..(n - 5) /\ 2 - 1 = 1 /\ 1 \in 1..Len(t)
    BY <1>1, <1>3
  <2>2. f[2] = T[2] /\ T[2] = d[2 - 1] /\ d[1] = Char(t[1])
    BY <1>1, <1>2, <1>4, <2>1
  <2> QED
    BY <2>1, <2>2
<1>6. Len(t) = 2 => f[3] = Char(t[2])
  BY <1>1, <1>2, <1>3, <1>4
<1>7. Len(t) = 1 => f[3] \notin {Char("high"), Char("spoilt")}
  <2>1. Len(t) = 1 => f[3] = Char("*")
    BY <1>1, <1>3, <1>4
  <2> QED
    BY <2>1, CharsDiffer
<1>8. Known(f) => Content(f) = Plain(t)
  BY <1>5, <1>6, <1>7, ContentPlain
<1> QED
  BY <1>1, <1>4, <1>8 DEF f, T

\* What is heard when the beginning of a sentence is lost is what was there before.
LEMMA BeginningLostHeard ==
  ASSUME NEW s \in AllSentences, NEW line \in Lines
  PROVE  \/ Heard(line, RemoveAt(Text(s), 1)) = Reader(<<>>, <<>>)
         \/ \E t \in AllSentences : \E accepted \in Seq({Plain(t)}) :
              /\ line = Front(Text(t))
              /\ Heard(line, RemoveAt(Text(s), 1)) = Reader(<<>>, accepted)
<1> DEFINE T == Text(s)
           n == Len(T)
           L == RemoveAt(T, 1)
<1>1. /\ T \in Seq(Characters) /\ n \in 7..8 /\ T[n] = Char("LF")
      /\ \A j \in 2..(n - 1) : T[j] \notin {Char("$"), Char("LF")}
  BY TextForm, TextInside
<1> HIDE DEF T
<1>2. /\ L \in Seq(Characters) /\ Len(L) = n - 1
      /\ \A j \in 1..(n - 1) : L[j] = IF j < 1 THEN T[j] ELSE T[j + 1]
  <2>1. 1 \in 1..n
    BY <1>1
  <2> QED
    BY <1>1, <2>1, Removed
<1> HIDE DEF L
<1>3. /\ Len(L) >= 2 /\ L[Len(L)] = Char("LF")
      /\ \A j \in 1..(Len(L) - 1) : L[j] \notin {Char("$"), Char("LF")}
  <2>1. ASSUME NEW j \in 1..(n - 1)
        PROVE  L[j] = T[j + 1] /\ (j <= n - 2 => j + 1 \in 2..(n - 1))
    <3>1. ~(j < 1) /\ (j <= n - 2 => j + 1 \in 2..(n - 1))
      BY <1>1
    <3> QED
      BY <1>2, <3>1
  <2>2. n - 1 >= 2 /\ n - 1 \in 1..(n - 1) /\ (n - 1) + 1 = n
          /\ \A j \in 1..((n - 1) - 1) : j \in 1..(n - 1) /\ j <= n - 2
    BY <1>1
  <2>3. L[n - 1] = T[(n - 1) + 1]
    BY ONLY <2>1, <2>2
  <2>4. \A j \in 1..((n - 1) - 1) : L[j] \notin {Char("$"), Char("LF")}
    BY ONLY <1>1, <2>1, <2>2
  <2> QED
    BY ONLY <1>1, <1>2, <2>2, <2>3, <2>4
<1>4. CASE line = <<>>
  <2>1. Heard(<<>>, L) = Reader(<<>>, <<>>)
    BY <1>2, <1>3, LineWithoutBeginning
  <2> QED
    BY <1>4, <2>1 DEF L, T
<1>5. CASE line # <<>>
  <2>1. PICK t \in AllSentences : line = Front(Text(t))
    BY <1>5 DEF Lines
  <2>2. line \in Seq(Characters) /\ Len(line) \in 6..7 /\ (Known(line) => Content(line) = Plain(t))
    BY <2>1, LinesKept
  <2>3. Len(line) \in 3..(MAXLINELENGTH - 1)
    <3> DEFINE k == Len(line)
    <3>1. k \in 6..7
      BY <2>2
    <3> HIDE DEF k
    <3>2. k \in 3..(MAXLINELENGTH - 1)
      BY ONLY <3>1, LineAssumption
    <3> QED
      BY <3>2 DEF k
  <2>4. PICK accepted \in Seq({Content(line)}) :
          /\ Heard(line, L) = Reader(<<>>, accepted)
          /\ accepted # <<>> => Known(line)
    BY <1>2, <1>3, <2>2, <2>3, LineSpoilt, Len(L) >= 1
  <2>5. CASE accepted = <<>>
    BY <2>4, <2>5 DEF L, T
  <2>6. CASE accepted # <<>>
    <3>1. accepted \in Seq({Plain(t)})
      BY <2>2, <2>4, <2>6
    <3> QED
      BY <2>1, <2>4, <3>1 DEF L, T
  <2> QED
    BY <2>5, <2>6
<1> QED
  BY <1>4, <1>5

\* What is heard of a sentence i characters into which one is lost: it, what was in
\* the line before, or nothing.
LEMMA HeardOfOne ==
  ASSUME NEW line \in Lines, NEW s \in AllSentences, NEW i \in 0..Len(Text(s))
  PROVE  \E left \in Lines, t \in {s} \cup {u \in AllSentences : line = Front(Text(u))} :
         \E accepted \in Seq({Plain(t)}) :
           /\ Heard(line, Lossy(Text(s), i)) = Reader(left, accepted)
           /\ i = 0 => t = s /\ (accepted = <<>> => s[1] = "PGTOP")
<1> DEFINE r == Heard(line, Lossy(Text(s), i))
           Sought == \E left \in Lines, t \in {s} \cup {u \in AllSentences : line = Front(Text(u))} :
                     \E accepted \in Seq({Plain(t)}) :
                       /\ r = Reader(left, accepted)
                       /\ i = 0 => t = s /\ (accepted = <<>> => s[1] = "PGTOP")
<1>1. line \in Seq(Characters)
  BY LinesKept, EmptySeq DEF Lines
<1>2. <<>> \in Lines /\ Front(Text(s)) \in Lines
  BY DEF Lines
<1>3. ASSUME Spoken(s, i, r)
      PROVE  Sought
  <2>1. <<Plain(s)>> \in Seq({Plain(s)}) /\ <<Plain(s)>> # <<>> /\ <<>> \in Seq({Plain(s)})
    OBVIOUS
  <2>2. CASE r = Reader(<<>>, <<Plain(s)>>)
    BY <1>2, <2>1, <2>2
  <2>3. CASE r \in {Reader(<<>>, <<>>), Reader(Front(Text(s)), <<>>)} /\ (i = 0 => s[1] = "PGTOP")
    BY <1>2, <2>1, <2>3
  <2> QED
    BY <1>3, <2>2, <2>3 DEF Spoken
<1>4. CASE i = 1
  <2>1. Lossy(Text(s), i) = RemoveAt(Text(s), 1)
    BY <1>4 DEF Lossy
  <2>2. CASE r = Reader(<<>>, <<>>)
    <3>1. s \in {s} \cup {u \in AllSentences : line = Front(Text(u))}
      OBVIOUS
    <3>2. <<>> \in Seq({Plain(s)})
      BY EmptySeq
    <3>3. r = Reader(<<>>, <<>>) /\ i # 0
      BY <1>4, <2>2
    <3> HIDE DEF r
    <3> USE <1>2, <3>1, <3>2
    <3> WITNESS <<>> \in Lines, s \in {s} \cup {u \in AllSentences : line = Front(Text(u))}
    <3> WITNESS <<>> \in Seq({Plain(s)})
    <3> QED
      BY <3>3 DEF r
  <2>3. CASE r # Reader(<<>>, <<>>)
    <3>0. PICK t \in AllSentences : \E accepted \in Seq({Plain(t)}) :
              line = Front(Text(t)) /\ r = Reader(<<>>, accepted)
      BY <2>1, <2>3, BeginningLostHeard
    <3>1. PICK accepted \in Seq({Plain(t)}) :
              line = Front(Text(t)) /\ r = Reader(<<>>, accepted)
      BY <3>0
    <3>2. t \in {s} \cup {u \in AllSentences : line = Front(Text(u))} /\ i # 0
      BY <1>4, <3>1
    <3>3. r = Reader(<<>>, accepted)
      BY <3>1
    <3> HIDE DEF r
    <3> USE <1>2, <3>1, <3>2
    <3> WITNESS <<>> \in Lines, t \in {s} \cup {u \in AllSentences : line = Front(Text(u))}
    <3> WITNESS accepted \in Seq({Plain(t)})
    <3> QED
      BY <3>2, <3>3 DEF r
  <2> QED
    BY <2>2, <2>3
<1>5. CASE i # 1
  <2>1. Spoken(s, i, r)
    <3>1. CASE i = 0
      <4>1. Lossy(Text(s), i) = Text(s)
        BY <3>1 DEF Lossy
      <4> QED
        BY <1>1, <3>1, <4>1, WholeHeard
    <3>2. CASE i \in 2..(Len(Text(s)) - 5)
      <4>1. Lossy(Text(s), i) = [Text(s) EXCEPT ![i] = Char("spoilt")]
        BY <1>5, <3>2, LossyForm
      <4>2. r = Reader(<<>>, <<>>)
        BY <1>1, <3>2, <4>1, SpoiltHeard
      <4> QED
        BY <3>2, <4>2 DEF Spoken
    <3>3. CASE i \notin {0} \cup 2..(Len(Text(s)) - 5)
      <4>1. Lossy(Text(s), i) = RemoveAt(Text(s), i) /\ i \in (Len(Text(s)) - 4)..Len(Text(s))
        BY <1>5, <3>3, LossyForm
      <4> QED
        BY <1>1, <4>1, EndLostHeard
    <3> QED
      BY <3>1, <3>2, <3>3
  <2> QED
    BY <1>3, <2>1
<1> QED
  BY <1>4, <1>5

-----------------------------------------------------------------------------
(* What is known after a sentence                                          *)

\* g follows the publishing of what was accepted.
Publishes(g, accepted) ==
  g = [n \in 0..Len(accepted) |-> IF n = 0 THEN known ELSE Tells(accepted[n], g[n - 1])]

LEMMA PublishingDefined ==
  ASSUME NEW accepted, Len(accepted) \in Nat
  PROVE  \E g : Publishes(g, accepted)
<1> DEFINE n == Len(accepted)
           F(g, m) == g = [k \in 0..m |-> IF k = 0 THEN known ELSE Tells(accepted[k], g[k - 1])]
           S == {m \in 0..n : \E g : F(g, m)}
<1>1. 0 \in S
  <2>1. F([k \in 0..0 |-> known], 0) /\ 0 \in 0..n
    OBVIOUS
  <2> HIDE DEF F
  <2> QED
    BY <2>1
<1>2. ASSUME NEW m \in 0..(n - 1), m \in S
      PROVE  m + 1 \in S
  <2>1. PICK e : F(e, m)
    BY <1>2
  <2> DEFINE g == [k \in 0..(m + 1) |-> IF k <= m THEN e[k] ELSE Tells(accepted[m + 1], e[m])]
  <2>2. \A k \in 0..m : g[k] = e[k]
    OBVIOUS
  <2>3. ASSUME NEW k \in 0..(m + 1)
        PROVE  g[k] = IF k = 0 THEN known ELSE Tells(accepted[k], g[k - 1])
    <3>1. CASE k = m + 1
      BY <3>1
    <3>2. CASE k # m + 1
      <4>1. k \in 0..m /\ (k # 0 => k - 1 \in 0..m)
        BY <3>2
      <4>2. e[k] = IF k = 0 THEN known ELSE Tells(accepted[k], e[k - 1])
        BY <2>1, <4>1
      <4> QED
        BY <2>2, <4>1, <4>2
    <3> QED
      BY <3>1, <3>2
  <2> HIDE DEF g
  <2>4. F(g, m + 1)
    BY <2>3 DEF g
  <2>5. m + 1 \in 0..n
    OBVIOUS
  <2> QED
    BY <2>4, <2>5
<1>3. n \in S
  <2> HIDE DEF S
  <2>1. 0..n \subseteq S
    BY <1>1, <1>2, Counting
  <2> QED
    BY <2>1
<1> QED
  BY <1>3 DEF Publishes

\* To tell the same again changes nothing.
LEMMA ToldTwice ==
  ASSUME NEW s, NEW before
  PROVE  Tells(s, Tells(s, before)) = Tells(s, before)
<1>1. CASE s[1] = "GPRMC"
  BY <1>1 DEF Tells
<1>2. CASE s[1] = "GPGGA"
  BY <1>2 DEF Tells
<1>3. CASE s[1] \notin {"GPRMC", "GPGGA"}
  BY <1>3 DEF Tells
<1> QED
  BY <1>1, <1>2, <1>3

\* What is read tells what was sent.
LEMMA PlainTells ==
  ASSUME NEW s \in AllSentences, NEW before
  PROVE  Tells(Plain(s), before) = Tells(s, before)
<1>1. CASE Len(s) = 1
  <2>1. s = <<"GPGGA">> /\ Plain(s) = <<"GPGGA", "low">>
    BY <1>1, SentenceForms DEF Plain
  <2> QED
    BY <1>1, <2>1 DEF Tells
<1>2. CASE Len(s) # 1
  BY <1>2 DEF Plain
<1> QED
  BY <1>1, <1>2

\* However often one thing is told, it is known or nothing is new.
LEMMA ToldOnce ==
  ASSUME NEW c, NEW accepted \in Seq({c}), NEW g, Publishes(g, accepted)
  PROVE  g[Len(accepted)] = IF accepted = <<>> THEN known ELSE Tells(c, known)
<1> DEFINE n == Len(accepted)
           S == {k \in 0..n : g[k] = IF k = 0 THEN known ELSE Tells(c, known)}
<1>1. 0 \in S
  BY DEF Publishes
<1>2. ASSUME NEW k \in 0..(n - 1), k \in S
      PROVE  k + 1 \in S
  <2>1. accepted[k + 1] = c /\ k + 1 \in 0..n /\ k + 1 # 0 /\ k + 1 - 1 = k
    OBVIOUS
  <2>2. g[k + 1] = Tells(accepted[k + 1], g[k + 1 - 1])
    <3> HIDE DEF n
    <3> QED
      BY <2>1 DEF Publishes, n
  <2>3. g[k + 1] = Tells(c, known)
    BY <1>2, <2>1, <2>2, ToldTwice
  <2> QED
    BY <2>1, <2>3
<1>3. n \in S
  <2>1. n \in Nat /\ n \in 0..n
    OBVIOUS
  <2> HIDE DEF S, n
  <2> QED
    BY ONLY <1>1, <1>2, <2>1, Counting
<1>4. accepted = <<>> <=> n = 0
  BY EmptySeq
<1> QED
  BY <1>3, <1>4 DEF S

\* A sentence, received with or without a loss, tells itself, or what was in the
\* line, or nothing; whole, it tells itself.
LEMMA ReceiveTells ==
  ASSUME NEW s \in AllSentences, NEW i \in 0..Len(Text(s)), currentline \in Lines, Receive(s, i)
  PROVE  /\ currentline' \in Lines
         /\ known' = known \/ \E t \in {s} \cup {u \in AllSentences : currentline = Front(Text(u))} :
                                known' = Tells(t, known)
         /\ i = 0 => known' = Tells(s, known)
<1> DEFINE r == Hearing[currentline][s][i]
<1>1. r = Heard(currentline, Lossy(Text(s), i))
  BY DEF Hearing
<1> HIDE DEF r
<1>2. PICK left \in Lines, t \in {s} \cup {u \in AllSentences : currentline = Front(Text(u))} :
        \E accepted \in Seq({Plain(t)}) :
          /\ r = Reader(left, accepted)
          /\ i = 0 => t = s /\ (accepted = <<>> => s[1] = "PGTOP")
  <2>1. \E left \in Lines, t \in {s} \cup {u \in AllSentences : currentline = Front(Text(u))} :
        \E accepted \in Seq({Plain(t)}) :
          /\ Heard(currentline, Lossy(Text(s), i)) = Reader(left, accepted)
          /\ i = 0 => t = s /\ (accepted = <<>> => s[1] = "PGTOP")
    BY HeardOfOne
  <2> QED
    BY <1>1, <2>1
<1>3. PICK accepted \in Seq({Plain(t)}) :
          /\ r = Reader(left, accepted)
          /\ i = 0 => t = s /\ (accepted = <<>> => s[1] = "PGTOP")
  BY <1>2
<1>4. r.line = left /\ r.accepted = accepted
  BY <1>3 DEF Reader
<1> DEFINE report == CHOOSE g : Publishes(g, accepted)
<1>5. currentline' = left /\ known' = report[Len(accepted)]
  BY <1>4 DEF Receive, Publishes, r
<1>6. Len(accepted) \in Nat
  OBVIOUS
<1>7. Publishes(report, accepted)
  BY <1>6, PublishingDefined
<1> HIDE DEF report
<1>8. known' = IF accepted = <<>> THEN known ELSE Tells(Plain(t), known)
  BY <1>5, <1>7, ToldOnce
<1>9. t \in AllSentences
  OBVIOUS
<1>10. accepted # <<>> => known' = Tells(t, known)
  BY <1>8, <1>9, PlainTells
<1>11. s[1] = "PGTOP" => Tells(s, known) = known
  BY DEF Tells
<1> QED
  BY <1>2, <1>3, <1>5, <1>8, <1>10, <1>11

\* What the line holds is always the beginning of a sentence.
GpsInv == currentline \in Lines /\ locked \in BOOLEAN

LEMMA SentencesAreSentences == \A located \in BOOLEAN : Sentences(located) \subseteq AllSentences
BY DEF AllSentences

LEMMA GpsStep ==
  ASSUME GpsInv, SystemNext
  PROVE  GpsInv' /\ [Believed]_gps
<1>1. Sentences(locked) \subseteq AllSentences
  BY SentencesAreSentences DEF GpsInv
<1>2. CASE UNCHANGED gps
  BY <1>2 DEF gps, GpsInv
<1>3. CASE ReceiveAny
  <2>0. PICK s \in Sentences(locked) : \E i \in 0..Len(Text(s)) : Receive(s, i)
    BY <1>3 DEF ReceiveAny
  <2>1. PICK i \in 0..Len(Text(s)) : Receive(s, i)
    BY <2>0
  <2>2. /\ currentline' \in Lines
        /\ known' = known \/ \E t \in {s} \cup {u \in AllSentences : currentline = Front(Text(u))} :
                               known' = Tells(t, known)
    BY <1>1, <2>1, ReceiveTells DEF GpsInv
  <2>3. ASSUME NEW z \in Sentences(locked), Receive(z, 0)
        PROVE  known' = Tells(z, known)
    <3>1. 0 \in 0..Len(Text(z)) /\ z \in AllSentences
      BY <1>1, TextForm
    <3> QED
      BY <2>3, <3>1, ReceiveTells DEF GpsInv
  <2>4. locked' = locked
    BY <2>1 DEF Receive
  <2> QED
    BY <2>1, <2>2, <2>3, <2>4 DEF Believed, GpsInv
<1>4. CASE LockChanges
  <2>1. currentline' = currentline /\ known' = known /\ locked' = ~locked
    BY <1>4 DEF LockChanges
  <2>2. ASSUME NEW z \in Sentences(locked), Receive(z, 0)
        PROVE  FALSE
    <3>1. locked' = locked
      BY <2>2 DEF Receive
    <3> QED
      BY <2>1, <3>1 DEF GpsInv
  <2>3. GpsInv'
    BY <2>1 DEF GpsInv
  <2>4. Believed
    BY ONLY <2>1, <2>2 DEF Believed
  <2> QED
    BY <2>3, <2>4
<1>5. CASE TakeReport
  <2>1. currentline' = currentline /\ known' = known /\ locked' = locked /\ navigatorQueue # <<>>
    BY <1>5 DEF TakeReport
  <2>2. ASSUME NEW z \in Sentences(locked), Receive(z, 0)
        PROVE  FALSE
    <3>1. navigatorQueue = <<>>
      BY <2>2 DEF Receive
    <3> QED
      BY <2>1, <3>1
  <2> QED
    BY <2>1, <2>2 DEF Believed, GpsInv
<1> QED
  BY <1>2, <1>3, <1>4, <1>5 DEF SystemNext, PollIMU, TakeOther

\* Whatever is lost of the receiver's characters, and however long a line may be, the
\* driver believes what was sent and nothing else, and hears what comes through.
THEOREM SentencesAreBelieved == SystemSpec => SentencesBelieved
<1>1. SystemInit => GpsInv
  BY DEF SystemInit, GpsInit, GpsInv, Lines
<1>2. GpsInv /\ [SystemNext]_<<vars, gps>> => GpsInv'
  <2>1. GpsInv /\ UNCHANGED <<vars, gps>> => GpsInv'
    BY DEF gps, GpsInv
  <2> QED
    BY <2>1, GpsStep
<1>3. GpsInv /\ [SystemNext]_<<vars, gps>> => [Believed]_gps
  BY GpsStep
<1> QED
  BY <1>1, <1>2, <1>3, PTL DEF SystemSpec, SentencesBelieved
=============================================================================
