----------------------------- MODULE GpsReader ------------------------------
(***************************************************************************)
(* The GPS driver of src/Modules/navigator/GPS.c: a thread that reads the  *)
(* receiver's UART character by character, and publishes a GPS_REPORT for  *)
(* every sentence it accepts.  The receiver sends what its output has been *)
(* limited to, GPGGA and GPRMC, and the status of its antenna.  On the way *)
(* a character of a sentence may be lost.                                  *)
(*                                                                         *)
(* A text is a sequence of characters; the name of a sentence and the      *)
(* field that is used are taken as one character each, of which, when part *)
(* of them is lost, something else is left.  The checksum is the text it   *)
(* was computed from: that of another text is never right by chance.       *)
(* Only the status of GPRMC and the HDOP of GPGGA are kept; positions and  *)
(* times go where these go.                                                *)
(*                                                                         *)
(* A sentence is read in one step, for the line is the thread's own.  The  *)
(* queue holds the GPS_REPORTs for the navigator, and no sentence is read  *)
(* until it is empty: to wait in the queue is no different from waiting in *)
(* the UART.                                                               *)
(***************************************************************************)
EXTENDS Integers, Sequences, SequencesExt

CONSTANT MAXLINELENGTH

\* A line holds a whole sentence but for its line feed.
ASSUME LineAssumption == MAXLINELENGTH \in Nat /\ MAXLINELENGTH >= 8

VARIABLES
  locked,       \* whether the receiver knows where it is
  currentline,  \* the characters read since the last line
  known,        \* fix and HDOP, from the last GPRMC and the last GPGGA
  navigatorQueue

gps == <<locked, currentline, known, navigatorQueue>>

-----------------------------------------------------------------------------
(* What the receiver sends                                                 *)

\* Without a position the field for HDOP is empty.
Sentences(located) ==
  {<<"GPRMC", IF located THEN "A" ELSE "V">>, <<"PGTOP", "3">>}
  \cup (IF located THEN {<<"GPGGA", "low">>, <<"GPGGA", "high">>} ELSE {<<"GPGGA">>})

Char(c) == <<c>>

\* The digits of a checksum stand for what they were computed from.
Sum(data) == <<"sum of", data>>

Text(s) ==
  LET data == [i \in DOMAIN s |-> Char(s[i])]
  IN <<Char("$")>> \o data \o <<Char("*"), Sum(data), Sum(data), Char("CR"), Char("LF")>>

\* What is left of a text when the character at i is lost; 0 for none.
Lossy(text, i) ==
  IF i = 0 THEN text
  ELSE IF i - 1 \in 1..(Len(text) - 6) THEN [text EXCEPT ![i] = Char("spoilt")]
  ELSE RemoveAt(text, i)

-----------------------------------------------------------------------------
(* What the thread makes of it                                             *)

\* Mutant of ChecksumWrong: the carriage return is forgotten.
ChecksumMisplaced(line) ==
  LET n == Len(line)
      sum == Sum(SubSeq(line, 2, n - 3))
  IN line[n - 2] = Char("*") /\ ~(line[n - 1] = sum /\ line[n] = sum)

\* The checksum is only looked at where the line has a '*' in its place.
ChecksumWrong(line) ==
  LET n == Len(line)
      sum == Sum(SubSeq(line, 2, n - 4))
  IN line[n - 3] = Char("*") /\ ~(line[n - 2] = sum /\ line[n - 1] = sum)

\* The sentences that are looked for.
Known(line) == line[1] = Char("$") /\ line[2] \in {Char("GPGGA"), Char("GPRMC")}

\* ParseNMEA's false.
Refused(line) ==
  \/ ChecksumWrong(line) \/ ~Known(line)
  \/ line[2] = Char("GPRMC") /\ line[3] \notin {Char("A"), Char("V")}

\* An empty field counts as 0.
Number(c) == IF c \in {Char("high"), Char("spoilt")} THEN c[1] ELSE "low"

\* What an accepted line has told: a sentence, whatever follows it in the line.
Content(line) ==
  IF line[2] = Char("GPRMC") THEN <<"GPRMC", line[3][1]>> ELSE <<"GPGGA", Number(line[3])>>

\* The reader r after a line.
ParseNMEA(r, line) ==
  IF Refused(line) THEN r ELSE [r EXCEPT !.accepted = Append(@, Content(line))]

\* A line too long loses its last character and is parsed at once, and again
\* after each character more.
ReadChar(r, c) ==
  LET begun == IF c = Char("$") THEN <<>> ELSE r.line
      line == Append(begun, c)
      cut == SubSeq(line, 1, MAXLINELENGTH - 1)
  IN IF c = Char("LF") THEN ParseNMEA([r EXCEPT !.line = <<>>], r.line)
     ELSE IF Len(line) >= MAXLINELENGTH THEN ParseNMEA([r EXCEPT !.line = cut], cut)
     ELSE [r EXCEPT !.line = line]

\* What is heard of a text when a line is left from before: sentences accepted,
\* and what is left now.
Heard(line, text) ==
  LET reader[k \in 0..Len(text)] ==
        IF k = 0 THEN [line |-> line, accepted |-> <<>>] ELSE ReadChar(reader[k - 1], text[k])
  IN reader[Len(text)]

AllSentences == Sentences(TRUE) \cup Sentences(FALSE)
Lines == {<<>>} \cup {Front(Text(s)) : s \in AllSentences}

\* All that may be heard, where one character may be lost: a table.
Hearing ==
  [line \in Lines |-> [s \in AllSentences |->
     [i \in 0..Len(Text(s)) |-> Heard(line, Lossy(Text(s), i))]]]

-----------------------------------------------------------------------------
\* Mutant of Tells: that the position is lost is not heard.
TellsFoundOnly(s, before) ==
  CASE s[1] = "GPRMC" -> [before EXCEPT !.gpsStatus = @ \/ s[2] = "A"]
    [] s[1] = "GPGGA" -> [before EXCEPT !.HDOP = IF Len(s) = 1 THEN "low" ELSE s[2]]
    [] OTHER -> before

\* What the thread knows after a sentence.
Tells(s, before) ==
  CASE s[1] = "GPRMC" -> [before EXCEPT !.gpsStatus = s[2] = "A"]
    [] s[1] = "GPGGA" -> [before EXCEPT !.HDOP = IF Len(s) = 1 THEN "low" ELSE s[2]]
    [] OTHER -> before

GpsInit ==
  /\ locked \in BOOLEAN
  /\ currentline = <<>>
  /\ known = [gpsStatus |-> FALSE, HDOP |-> "low"]
  /\ navigatorQueue = <<>>

\* The sentence s arrives but for the character at i, and each line accepted is
\* published, with the status and the HDOP known by then.
Receive(s, i) ==
  /\ navigatorQueue = <<>>
  /\ LET r == Hearing[currentline][s][i]
         report[n \in 0..Len(r.accepted)] ==
           IF n = 0 THEN known ELSE Tells(r.accepted[n], report[n - 1])
     IN /\ currentline' = r.line
        /\ known' = report[Len(r.accepted)]
        /\ navigatorQueue' = [n \in 1..Len(r.accepted) |-> report[n]]
  /\ UNCHANGED locked

ReceiveAny == \E s \in Sentences(locked) : \E i \in 0..Len(Text(s)) : Receive(s, i)

\* The receiver finds, or loses, its position.
LockChanges ==
  /\ locked' = ~locked
  /\ UNCHANGED <<currentline, known, navigatorQueue>>

-----------------------------------------------------------------------------
\* What a sentence or the line before it may tell, and what a whole one must.
Believed ==
  /\ \/ known' = known
     \/ \E s \in Sentences(locked) \cup {t \in AllSentences : currentline = Front(Text(t))} :
          known' = Tells(s, known)
  /\ \A s \in Sentences(locked) : Receive(s, 0) => known' = Tells(s, known)
=============================================================================
