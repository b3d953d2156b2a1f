-------------------------- MODULE SerialLogProofs ---------------------------
(***************************************************************************)
(* Theorems about SerialLog: its types, with the bound of errorCount, that *)
(* a log message is printed once and a message of the overmind sent once,  *)
(* and that the first MaxError errors are forwarded.                       *)
(***************************************************************************)
EXTENDS SerialLog, FiniteSetTheorems, TLAPS

(* Sequences of messages *)

\* Appending a message whose number is new keeps each number once.
LEMMA AppendFacts ==
  ASSUME NEW S, NEW s \in Seq(S), NEW m \in S
  PROVE  /\ Append(s, m) \in Seq(S)
         /\ Numbers(Append(s, m)) = Numbers(s) \cup {m.number}
         /\ OnceEach(s) /\ m.number \notin Numbers(s) => OnceEach(Append(s, m))
<1> DEFINE t == Append(s, m)
<1>1. /\ t \in Seq(S) /\ Len(t) = Len(s) + 1 /\ Len(s) \in Nat
      /\ \A i \in 1..Len(s) : t[i] = s[i]
      /\ t[Len(s) + 1] = m
  OBVIOUS
<1>2. Numbers(t) = Numbers(s) \cup {m.number}
  <2>1. ASSUME NEW i \in 1..Len(t) PROVE t[i].number \in Numbers(s) \cup {m.number}
    <3>1. CASE i = Len(s) + 1  BY <1>1, <3>1
    <3>2. CASE i # Len(s) + 1
      <4>1. i \in 1..Len(s)  BY <1>1, <3>2
      <4> QED BY <1>1, <4>1 DEF Numbers
    <3> QED BY <3>1, <3>2
  <2>2. ASSUME NEW i \in 1..Len(s) PROVE s[i].number \in Numbers(t)
    <3>1. i \in 1..Len(t) /\ t[i] = s[i]  BY <1>1
    <3> QED BY <3>1 DEF Numbers
  <2>3. m.number \in Numbers(t)
    <3>1. Len(s) + 1 \in 1..Len(t)  BY <1>1
    <3> QED BY <1>1, <3>1 DEF Numbers
  <2> QED BY <2>1, <2>2, <2>3 DEF Numbers
<1>3. ASSUME OnceEach(s), m.number \notin Numbers(s) PROVE OnceEach(t)
  <2> SUFFICES ASSUME NEW i \in 1..Len(t), NEW j \in 1..Len(t), t[i].number = t[j].number
               PROVE  i = j
    BY DEF OnceEach
  <2>1. \A k \in 1..Len(s) : t[k] = s[k] /\ t[k].number # m.number
    BY <1>1, <1>3 DEF Numbers
  <2>2. CASE i \in 1..Len(s) /\ j \in 1..Len(s)
    BY <1>3, <2>1, <2>2 DEF OnceEach
  <2>3. CASE i = Len(s) + 1
    BY <1>1, <2>1, <2>3
  <2>4. CASE j = Len(s) + 1
    BY <1>1, <2>1, <2>4
  <2> QED BY <1>1, <2>2, <2>3, <2>4
<1> QED BY <1>1, <1>2, <1>3

\* Taking the first message leaves the others, each number once, without its own.
LEMMA TailFacts ==
  ASSUME NEW S, NEW s \in Seq(S), s # <<>>
  PROVE  /\ Head(s) \in S /\ Tail(s) \in Seq(S)
         /\ Len(Tail(s)) = Len(s) - 1 /\ Len(s) > 0
         /\ Head(s).number \in Numbers(s)
         /\ Numbers(Tail(s)) \subseteq Numbers(s)
         /\ OnceEach(s) => OnceEach(Tail(s)) /\ Head(s).number \notin Numbers(Tail(s))
<1>1. /\ Len(s) \in Nat /\ Len(s) > 0
      /\ Head(s) = s[1] /\ Head(s) \in S
      /\ Tail(s) \in Seq(S) /\ Len(Tail(s)) = Len(s) - 1
      /\ \A i \in 1..Len(Tail(s)) : Tail(s)[i] = s[i + 1]
  OBVIOUS
<1>2. \A i \in 1..Len(Tail(s)) : i + 1 \in 1..Len(s) /\ i + 1 # 1
  BY <1>1
<1>3. Head(s).number \in Numbers(s)
  <2>1. 1 \in 1..Len(s)  BY <1>1
  <2> QED BY <1>1, <2>1 DEF Numbers
<1>4. Numbers(Tail(s)) \subseteq Numbers(s)
  BY <1>1, <1>2 DEF Numbers
<1>5. ASSUME OnceEach(s) PROVE OnceEach(Tail(s)) /\ Head(s).number \notin Numbers(Tail(s))
  <2>1. OnceEach(Tail(s))
    <3> SUFFICES ASSUME NEW i \in 1..Len(Tail(s)), NEW j \in 1..Len(Tail(s)),
                        Tail(s)[i].number = Tail(s)[j].number
                 PROVE  i = j
      BY DEF OnceEach
    <3>1. s[i + 1].number = s[j + 1].number  BY <1>1
    <3>2. i + 1 = j + 1  BY <1>2, <1>5, <3>1 DEF OnceEach
    <3> QED BY <1>1, <3>2
  <2>2. ASSUME NEW i \in 1..Len(Tail(s)) PROVE Tail(s)[i].number # Head(s).number
    <3>1. i + 1 \in 1..Len(s) /\ 1 \in 1..Len(s) /\ i + 1 # 1  BY <1>1, <1>2
    <3>2. s[i + 1].number # s[1].number  BY <1>5, <3>1 DEF OnceEach
    <3> QED BY <1>1, <3>2
  <2> QED BY <2>1, <2>2 DEF Numbers
<1> QED BY <1>1, <1>3, <1>4, <1>5
-----------------------------------------------------------------------------
(* The invariant *)

\* What LogProcessMessage accepts.
Loggable == {m \in Message : \/ m.type = "BBBLOG_MSG" /\ m.source = "OVERMIND"
                             \/ m.type = "SYSLOG_MSG" /\ m.source # "OVERMIND"}

\* A message of the MCP that has not been routed yet; an error not yet forwarded.
Arriving == rx # <<>> /\ rx[1].source # "OVERMIND"
Unsent == logger.at \in {"loading", "storing", "queueing"}

Types ==
  /\ published \in Nat
  /\ logQueue \in Seq(Loggable) /\ logFile \in Seq(Loggable)
  /\ uartTxQueue \in Seq(Sendable) /\ written \in Seq(Sendable)
  /\ errorCount \in Int
  /\ logger \in [at : {"waiting", "loading", "storing", "queueing", "printing"},
                 msg : Message, count : Int]
  /\ logger.at # "waiting" => logger.msg \in Loggable
  /\ Unsent => IsOwnError(logger.msg)
  /\ tx \in [at : {"waiting", "loading", "storing"}, msg : Message, count : Int]
  /\ rx \in Seq(Message) /\ Len(rx) <= 1
  /\ rx # <<>> => rx[1].type # "BBBLOG_MSG"

\* Messages that may have been counted: not those still waiting to be.
Counted ==
  published - Len(logQueue)
    - (IF logger.at \in {"loading", "storing"} THEN 1 ELSE 0)
    - (IF Arriving THEN 1 ELSE 0)

CountInv ==
  /\ errorCount <= Counted
  /\ logger.at = "storing" => logger.count <= Counted
  /\ tx.at = "storing" => tx.count <= Counted

Sent == Numbers(uartTxQueue) \cup Numbers(written)
Logged == Numbers(logQueue) \cup Numbers(logFile)

\* No number is new.
NumbersInv ==
  /\ \A n \in Sent \cup Logged : n <= published
  /\ logger.msg.number <= published
  /\ Arriving => rx[1].number <= published

\* A number is in one place of the log, once.
LogInv ==
  /\ OnceEach(logQueue) /\ OnceEach(logFile)
  /\ Numbers(logQueue) \cap Numbers(logFile) = {}
  /\ logger.at # "waiting" => logger.msg.number \notin Logged

\* A number is in one place of the UART, once, and no copy goes before its error.
UartInv ==
  /\ OnceEach(uartTxQueue) /\ OnceEach(written)
  /\ Numbers(uartTxQueue) \cap Numbers(written) = {}
  /\ Numbers(logQueue) \cap Sent = {}
  /\ Unsent => logger.msg.number \notin Sent

\* What arrives from the MCP is nowhere else.
ArrivalInv ==
  Arriving => /\ rx[1].number \notin Sent \cup Logged
              /\ logger.at # "waiting" => rx[1].number # logger.msg.number

Inv == Types /\ CountInv /\ NumbersInv /\ LogInv /\ UartInv /\ ArrivalInv

\* What the types say of the numbers and of the lengths.
LEMMA TypeFacts ==
  ASSUME Types
  PROVE  /\ Loggable \subseteq Message /\ Sendable \subseteq Message
         /\ published \in Nat /\ logger.msg \in Message /\ logger.msg.number \in Nat
         /\ rx # <<>> => rx[1] \in Message /\ rx[1].number \in Nat
         /\ \A n \in Sent \cup Logged : n \in Nat
         /\ Len(logQueue) \in Nat
         /\ Counted \in Int
<1>1. Loggable \subseteq Message /\ Sendable \subseteq Message
  BY DEF Loggable, Sendable
<1>2. published \in Nat /\ logger.msg \in Message /\ logger.msg.number \in Nat
  BY DEF Types, Message
<1>3. ASSUME rx # <<>> PROVE rx[1] \in Message /\ rx[1].number \in Nat
  <2>1. rx \in Seq(Message)  BY DEF Types
  <2>2. 1 \in 1..Len(rx)  BY <1>3, <2>1
  <2>3. rx[1] \in Message  BY <2>1, <2>2
  <2> QED BY <2>3 DEF Message
<1>4. \A s \in Seq(Message) : \A n \in Numbers(s) : n \in Nat
  <2> SUFFICES ASSUME NEW s \in Seq(Message), NEW i \in 1..Len(s) PROVE s[i].number \in Nat
    BY DEF Numbers
  <2>1. s[i] \in Message  OBVIOUS
  <2> QED BY <2>1 DEF Message
<1>5. /\ logQueue \in Seq(Message) /\ logFile \in Seq(Message)
      /\ uartTxQueue \in Seq(Message) /\ written \in Seq(Message)
  <2>1. \A S : S \subseteq Message => Seq(S) \subseteq Seq(Message)
    OBVIOUS
  <2> QED BY <1>1, <2>1 DEF Types
<1>6. \A n \in Sent \cup Logged : n \in Nat
  BY <1>4, <1>5 DEF Sent, Logged
<1>7. Len(logQueue) \in Nat
  BY <1>5
<1>8. Counted \in Int
  BY <1>2, <1>7 DEF Counted
<1> QED BY <1>1, <1>2, <1>3, <1>6, <1>7, <1>8

\* LogProcessMessage appends a message of the log, and nothing else.
LEMMA LogStep ==
  ASSUME NEW m \in Message, m.type = "BBBLOG_MSG" => m.source = "OVERMIND",
         LogProcessMessage(m)
  PROVE  IF m \in Loggable THEN logQueue' = Append(logQueue, m) ELSE logQueue' = logQueue
  BY DEF LogProcessMessage, Loggable

\* RouteMessage of a message that is not an error copy: it goes to the log, to the
\* UART or to neither.
LEMMA RouteStep ==
  ASSUME NEW m \in Message, m.type = "BBBLOG_MSG" => m.source = "OVERMIND",
         ~(m.type = "SYSLOG_MSG" /\ m.source = "OVERMIND"),
         RouteMessage(m)
  PROVE  \/ /\ m \in Loggable /\ logQueue' = Append(logQueue, m)
            /\ uartTxQueue' = uartTxQueue
         \/ /\ m \in Sendable /\ uartTxQueue' = Append(uartTxQueue, m)
            /\ logQueue' = logQueue /\ m.source = "OVERMIND"
         \/ logQueue' = logQueue /\ uartTxQueue' = uartTxQueue
<1>1. IF m \in Loggable THEN logQueue' = Append(logQueue, m) ELSE logQueue' = logQueue
  BY LogStep DEF RouteMessage
<1>2. uartTxQueue' = IF m.type = "OTHER" /\ m.source = "OVERMIND"
                     THEN Append(uartTxQueue, m) ELSE uartTxQueue
  BY DEF RouteMessage, SerialBrokerProcessMessage
<1>3. m.type = "OTHER" /\ m.source = "OVERMIND" => m \in Sendable /\ m \notin Loggable
  BY DEF Sendable, Loggable
<1> QED BY <1>1, <1>2, <1>3

\* A new message is published and routed.
LEMMA PublishStep ==
  ASSUME Inv, NEW type \in {"BBBLOG_MSG", "OTHER"}, NEW severe \in BOOLEAN,
         Publish(type, severe)
  PROVE  Inv'
<1> DEFINE m == Numbered(type, "OVERMIND", severe)
<1>0. Types /\ CountInv /\ NumbersInv /\ LogInv /\ UartInv /\ ArrivalInv  BY DEF Inv
<1>1. /\ m \in Message /\ m.number = published + 1
      /\ m.type = type /\ m.source = "OVERMIND"
  BY <1>0 DEF Numbered, Message, Types
<1>2. \/ /\ m \in Loggable /\ logQueue' = Append(logQueue, m)
         /\ uartTxQueue' = uartTxQueue
      \/ /\ m \in Sendable /\ uartTxQueue' = Append(uartTxQueue, m)
         /\ logQueue' = logQueue
      \/ logQueue' = logQueue /\ uartTxQueue' = uartTxQueue
  <2>1. RouteMessage(m)  BY DEF Publish
  <2> HIDE DEF m
  <2> QED BY <1>1, <2>1, RouteStep
<1>3. /\ UNCHANGED <<errorCount, logger, tx, rx, logFile, written>>
      /\ published' = published + 1 /\ published \in Nat
  BY <1>0 DEF Publish, Types
<1>4. m.number \notin Sent \cup Logged
  BY <1>0, <1>1, <1>3 DEF NumbersInv
<1>5. /\ m.number # logger.msg.number
      /\ Arriving => m.number # rx[1].number
  BY <1>0, <1>1, <1>3 DEF NumbersInv
<1>6. (Arriving' <=> Arriving) /\ (Unsent' <=> Unsent)
  BY <1>3 DEF Arriving, Unsent
<1>7. /\ logger.msg.number \in Nat /\ (Arriving => rx[1].number \in Nat)
      /\ \A n \in Sent \cup Logged : n \in Nat
      /\ Len(logQueue) \in Nat /\ Counted \in Int
  BY <1>0, TypeFacts DEF Arriving
<1> HIDE DEF m
<1>8. CASE m \in Loggable /\ logQueue' = Append(logQueue, m) /\ uartTxQueue' = uartTxQueue
  <2>1. /\ logQueue' \in Seq(Loggable) /\ Len(logQueue') = Len(logQueue) + 1
        /\ Numbers(logQueue') = Numbers(logQueue) \cup {m.number}
        /\ OnceEach(logQueue) /\ m.number \notin Numbers(logQueue) => OnceEach(logQueue')
    BY <1>0, <1>8, AppendFacts DEF Types
  <2>2. Sent' = Sent /\ Logged' = Logged \cup {m.number}
    BY <1>3, <1>8, <2>1 DEF Sent, Logged
  <2>3. Types'  BY <1>0, <1>3, <1>8, <2>1 DEF Types, Unsent
  <2>4. CountInv'
    <3>1. Counted' = Counted
      BY <1>0, <1>3, <1>6, <1>7, <2>1 DEF Counted
    <3> QED BY <1>0, <1>3, <3>1 DEF CountInv
  <2>5. NumbersInv'  BY <1>0, <1>1, <1>3, <1>6, <1>7, <2>2 DEF NumbersInv
  <2>6. LogInv'  BY <1>0, <1>3, <1>4, <1>5, <2>1, <2>2 DEF LogInv, Logged
  <2>7. UartInv'  BY <1>0, <1>3, <1>4, <1>6, <1>8, <2>1, <2>2 DEF UartInv
  <2>8. ArrivalInv'  BY <1>0, <1>3, <1>5, <1>6, <2>2 DEF ArrivalInv
  <2> QED BY <2>3, <2>4, <2>5, <2>6, <2>7, <2>8 DEF Inv
<1>9. CASE m \in Sendable /\ uartTxQueue' = Append(uartTxQueue, m) /\ logQueue' = logQueue
  <2>1. /\ uartTxQueue' \in Seq(Sendable)
        /\ Numbers(uartTxQueue') = Numbers(uartTxQueue) \cup {m.number}
        /\ OnceEach(uartTxQueue) /\ m.number \notin Numbers(uartTxQueue) => OnceEach(uartTxQueue')
    BY <1>0, <1>9, AppendFacts DEF Types
  <2>2. Sent' = Sent \cup {m.number} /\ Logged' = Logged
    BY <1>3, <1>9, <2>1 DEF Sent, Logged
  <2>3. Types'  BY <1>0, <1>3, <1>9, <2>1 DEF Types, Unsent
  <2>4. CountInv'
    <3>1. Counted' = Counted + 1 /\ Counted \in Int
      BY <1>0, <1>3, <1>6, <1>7, <1>9 DEF Counted
    <3> QED BY <1>0, <1>3, <3>1 DEF CountInv, Types
  <2>5. NumbersInv'  BY <1>0, <1>1, <1>3, <1>6, <1>7, <2>2 DEF NumbersInv
  <2>6. LogInv'  BY <1>0, <1>3, <1>9, <2>2 DEF LogInv
  <2>7. UartInv'  BY <1>0, <1>3, <1>4, <1>5, <1>6, <1>9, <2>1, <2>2 DEF UartInv, Sent, Logged
  <2>8. ArrivalInv'  BY <1>0, <1>3, <1>5, <1>6, <2>2 DEF ArrivalInv
  <2> QED BY <2>3, <2>4, <2>5, <2>6, <2>7, <2>8 DEF Inv
<1>10. CASE logQueue' = logQueue /\ uartTxQueue' = uartTxQueue
  <2>2. Sent' = Sent /\ Logged' = Logged
    BY <1>3, <1>10 DEF Sent, Logged
  <2>3. Types'  BY <1>0, <1>3, <1>10 DEF Types, Unsent
  <2>4. CountInv'
    <3>1. Counted' = Counted + 1 /\ Counted \in Int
      BY <1>0, <1>3, <1>6, <1>7, <1>10 DEF Counted
    <3> QED BY <1>0, <1>3, <3>1 DEF CountInv, Types
  <2>5. NumbersInv'  BY <1>0, <1>3, <1>6, <1>7, <2>2 DEF NumbersInv
  <2>6. LogInv'  BY <1>0, <1>3, <1>10, <2>2 DEF LogInv
  <2>7. UartInv'  BY <1>0, <1>3, <1>6, <1>10, <2>2 DEF UartInv
  <2>8. ArrivalInv'  BY <1>0, <1>3, <1>6, <2>2 DEF ArrivalInv
  <2> QED BY <2>3, <2>4, <2>5, <2>6, <2>7, <2>8 DEF Inv
<1> QED BY <1>2, <1>8, <1>9, <1>10

\* The logging thread takes a message: its number leaves the queue.
LEMMA TakeLogStep == ASSUME Inv, TakeLog PROVE Inv'
<1> DEFINE m == Head(logQueue)
<1>0. Types /\ CountInv /\ NumbersInv /\ LogInv /\ UartInv /\ ArrivalInv  BY DEF Inv
<1>1. /\ logger.at = "waiting" /\ logQueue # <<>> /\ logQueue' = Tail(logQueue)
      /\ UNCHANGED <<published, errorCount, rx, logFile, uartTxQueue, tx, written>>
  BY DEF TakeLog, uart
<1>2. /\ m \in Loggable /\ Tail(logQueue) \in Seq(Loggable)
      /\ Len(Tail(logQueue)) = Len(logQueue) - 1
      /\ m.number \in Numbers(logQueue) /\ Numbers(Tail(logQueue)) \subseteq Numbers(logQueue)
      /\ OnceEach(Tail(logQueue)) /\ m.number \notin Numbers(Tail(logQueue))
  BY <1>0, <1>1, TailFacts DEF Types, LogInv
<1>3. m \in Message  BY <1>0, <1>2, TypeFacts
<1>4. /\ logger' \in [at : {"waiting", "loading", "storing", "queueing", "printing"},
                      msg : Message, count : Int]
      /\ logger'.msg = m
      /\ logger'.at = IF IsOwnError(m) THEN "loading" ELSE "printing"
  <2>1. logger' = [logger EXCEPT !.msg = m,
                                 !.at = IF IsOwnError(m) THEN "loading" ELSE "printing"]
    BY DEF TakeLog
  <2> HIDE DEF m
  <2> QED BY <1>0, <1>3, <2>1 DEF Types
<1> HIDE DEF m
<1>5. /\ Sent' = Sent /\ Logged' \subseteq Logged /\ m.number \notin Logged'
      /\ m.number \in Logged
  BY <1>0, <1>1, <1>2 DEF Sent, Logged, LogInv
<1>6. Arriving' <=> Arriving
  BY <1>1 DEF Arriving
<1>7. Types'
  BY <1>0, <1>1, <1>2, <1>4 DEF Types, Unsent
<1>8. CountInv'
  <2>1. /\ published \in Nat /\ Len(logQueue) \in Nat /\ Counted \in Int
        /\ errorCount \in Int /\ tx.count \in Int
    BY <1>0, TypeFacts DEF Types
  <2>2. Counted <= Counted' /\ Counted' \in Int
    BY <1>1, <1>2, <1>6, <2>1 DEF Counted
  <2> QED BY <1>0, <1>1, <1>4, <2>1, <2>2 DEF CountInv
<1>9. NumbersInv'  BY <1>0, <1>1, <1>4, <1>5, <1>6 DEF NumbersInv
<1>10. LogInv'  BY <1>0, <1>1, <1>2, <1>4, <1>5 DEF LogInv
<1>11. UartInv'  BY <1>0, <1>1, <1>2, <1>4, <1>5 DEF UartInv
<1>12. ArrivalInv'  BY <1>0, <1>1, <1>4, <1>5, <1>6 DEF ArrivalInv
<1> QED BY <1>7, <1>8, <1>9, <1>10, <1>11, <1>12 DEF Inv

\* The steps that count: the log skips the copy, and no list changes.
LEMMA CountStep == ASSUME Inv, LoadCount \/ StoreCount \/ LoadSent \/ StoreSent PROVE Inv'
<1>0. Types /\ CountInv /\ NumbersInv /\ LogInv /\ UartInv /\ ArrivalInv  BY DEF Inv
<1>1. UNCHANGED <<published, logQueue, rx, logFile, uartTxQueue, written>>
  <2>1. CASE LoadCount
    <3>1. Copy \in Message /\ Copy.type = "SYSLOG_MSG" /\ Copy.source = "OVERMIND"
      BY <1>0, TypeFacts DEF Copy, Message
    <3>2. logQueue' = logQueue
      BY <2>1, <3>1, LogStep DEF LoadCount, Loggable
    <3> QED BY <2>1, <3>2 DEF LoadCount, uart
  <2>2. CASE StoreCount  BY <2>2 DEF StoreCount, uart
  <2>3. CASE LoadSent  BY <2>3 DEF LoadSent, log
  <2>4. CASE StoreSent  BY <2>4 DEF StoreSent, log
  <2> QED BY <2>1, <2>2, <2>3, <2>4
<1>2. /\ errorCount \in Int /\ logger.count \in Int /\ tx.count \in Int
      /\ Counted \in Int /\ published \in Nat /\ Len(logQueue) \in Nat
  BY <1>0, TypeFacts DEF Types
<1>3. /\ logger'.msg = logger.msg
      /\ logger.at = "waiting" <=> logger'.at = "waiting"
      /\ Unsent' => Unsent
      /\ logger' \in [at : {"waiting", "loading", "storing", "queueing", "printing"},
                      msg : Message, count : Int]
  <2>1. CASE LoadCount  BY <1>0, <1>2, <2>1 DEF LoadCount, Types, Unsent
  <2>2. CASE StoreCount  BY <1>0, <1>2, <2>2 DEF StoreCount, Types, Unsent
  <2>3. CASE LoadSent  BY <1>0, <2>3 DEF LoadSent, log, Types, Unsent
  <2>4. CASE StoreSent  BY <1>0, <2>4 DEF StoreSent, log, Types, Unsent
  <2> QED BY <2>1, <2>2, <2>3, <2>4
<1>4. /\ tx' \in [at : {"waiting", "loading", "storing"}, msg : Message, count : Int]
      /\ errorCount' \in Int
  <2>1. NoMsg \in Message  BY DEF NoMsg, Message
  <2>2. CASE LoadCount  BY <1>0, <2>2 DEF LoadCount, uart, Types
  <2>3. CASE StoreCount  BY <1>0, <1>2, <2>3 DEF StoreCount, uart, Types
  <2>4. CASE LoadSent  BY <1>0, <1>2, <2>4 DEF LoadSent, Types
  <2>5. CASE StoreSent
    <3>1. tx' = [tx EXCEPT !.at = "waiting", !.msg = NoMsg]  BY <2>5 DEF StoreSent
    <3>2. errorCount' \in Int  BY <1>2, <2>5 DEF StoreSent
    <3> QED BY <1>0, <2>1, <3>1, <3>2 DEF Types
  <2> QED BY <2>2, <2>3, <2>4, <2>5
<1>5. Sent' = Sent /\ Logged' = Logged /\ (Arriving' <=> Arriving)
  BY <1>1 DEF Sent, Logged, Arriving
<1>6. Types'
  BY <1>0, <1>1, <1>3, <1>4 DEF Types
<1>7. CountInv'
  <2>1. CASE LoadCount
    <3>1. /\ logger.at = "loading" /\ logger'.at = "storing" /\ logger'.count = errorCount
          /\ UNCHANGED <<errorCount, tx>>
      BY <1>0, <2>1 DEF LoadCount, uart, Types
    <3>2. Counted' = Counted  BY <1>1, <1>5, <3>1 DEF Counted
    <3> QED BY <1>0, <3>1, <3>2 DEF CountInv
  <2>2. CASE StoreCount
    <3>1. /\ logger.at = "storing" /\ logger'.at \in {"printing", "queueing"}
          /\ errorCount' = logger.count + 1 /\ tx' = tx
      BY <1>0, <2>2 DEF StoreCount, uart, Types
    <3>2. Counted' = Counted + 1  BY <1>1, <1>2, <1>5, <3>1 DEF Counted
    <3> QED BY <1>0, <1>2, <3>1, <3>2 DEF CountInv
  <2>3. CASE LoadSent
    <3>1. UNCHANGED <<errorCount, logger>> /\ tx'.count = errorCount
      BY <1>0, <2>3 DEF LoadSent, log, Types
    <3>2. Counted' = Counted  BY <1>1, <1>5, <3>1 DEF Counted
    <3> QED BY <1>0, <3>1, <3>2 DEF CountInv
  <2>4. CASE StoreSent
    <3>1. /\ tx.at = "storing" /\ tx'.at = "waiting"
          /\ errorCount' = tx.count - 1 /\ logger' = logger
      BY <1>0, <2>4 DEF StoreSent, log, Types
    <3>2. Counted' = Counted  BY <1>1, <1>5, <3>1 DEF Counted
    <3> QED BY <1>0, <1>2, <3>1, <3>2 DEF CountInv
  <2> QED BY <2>1, <2>2, <2>3, <2>4
<1>8. NumbersInv'  BY <1>0, <1>1, <1>3, <1>5 DEF NumbersInv
<1>9. LogInv'  BY <1>0, <1>1, <1>3, <1>5 DEF LogInv
<1>10. UartInv'  BY <1>0, <1>1, <1>3, <1>5 DEF UartInv
<1>11. ArrivalInv'  BY <1>0, <1>1, <1>3, <1>5 DEF ArrivalInv
<1> QED BY <1>6, <1>7, <1>8, <1>9, <1>10, <1>11 DEF Inv

\* The copy is queued for the UART, where its number was not.
LEMMA QueueCopyStep == ASSUME Inv, QueueCopy PROVE Inv'
<1>0. Types /\ CountInv /\ NumbersInv /\ LogInv /\ UartInv /\ ArrivalInv  BY DEF Inv
<1>1. /\ logger.at = "queueing" /\ uartTxQueue' = Append(uartTxQueue, Copy)
      /\ logger' = [logger EXCEPT !.at = "printing"]
      /\ UNCHANGED <<published, logQueue, errorCount, tx, rx, logFile, written>>
  BY DEF QueueCopy
<1>2. Copy \in Sendable /\ Copy.number = logger.msg.number
  <2>1. logger.msg \in Message /\ logger.msg.severe = TRUE
    BY <1>0, <1>1, TypeFacts DEF Types, Unsent, IsOwnError
  <2> QED BY <2>1 DEF Copy, Message, Sendable
<1>3. /\ logger' \in [at : {"waiting", "loading", "storing", "queueing", "printing"},
                      msg : Message, count : Int]
      /\ logger'.at = "printing" /\ logger'.msg = logger.msg
  BY <1>0, <1>1 DEF Types
<1>4. logger.msg.number \notin Sent
  BY <1>0, <1>1 DEF UartInv, Unsent
<1>5. /\ uartTxQueue' \in Seq(Sendable)
      /\ Numbers(uartTxQueue') = Numbers(uartTxQueue) \cup {logger.msg.number}
      /\ OnceEach(uartTxQueue')
  BY <1>0, <1>1, <1>2, <1>4, AppendFacts DEF Types, UartInv, Sent
<1>6. /\ Sent' = Sent \cup {logger.msg.number} /\ Logged' = Logged
      /\ (Arriving' <=> Arriving)
  BY <1>1, <1>5 DEF Sent, Logged, Arriving
<1>7. Types'  BY <1>0, <1>1, <1>3, <1>5 DEF Types, Unsent
<1>8. CountInv'
  <2>1. Counted' = Counted  BY <1>1, <1>3, <1>6 DEF Counted
  <2> QED BY <1>0, <1>1, <1>3, <2>1 DEF CountInv
<1>9. NumbersInv'  BY <1>0, <1>1, <1>3, <1>6 DEF NumbersInv
<1>10. LogInv'  BY <1>0, <1>1, <1>3, <1>6 DEF LogInv
<1>11. UartInv'
  <2>1. logger.msg.number \notin Numbers(logQueue) /\ logger.msg.number \notin Numbers(written)
    BY <1>0, <1>1, <1>4 DEF LogInv, Logged, Sent
  <2> QED BY <1>0, <1>1, <1>3, <1>5, <1>6, <2>1 DEF UartInv, Unsent
<1>12. ArrivalInv'  BY <1>0, <1>1, <1>3, <1>6 DEF ArrivalInv
<1> QED BY <1>7, <1>8, <1>9, <1>10, <1>11, <1>12 DEF Inv

\* The message in hand is printed, where its number was not.
LEMMA PrintLogStep == ASSUME Inv, PrintLog PROVE Inv'
<1>0. Types /\ CountInv /\ NumbersInv /\ LogInv /\ UartInv /\ ArrivalInv  BY DEF Inv
<1>1. /\ logger.at = "printing" /\ logFile' = Append(logFile, logger.msg)
      /\ logger' = [logger EXCEPT !.at = "waiting", !.msg = NoMsg]
      /\ UNCHANGED <<published, logQueue, errorCount, rx, uartTxQueue, tx, written>>
  BY DEF PrintLog, uart
<1>2. NoMsg \in Message /\ NoMsg.number = 0  BY DEF NoMsg, Message
<1>3. /\ logger' \in [at : {"waiting", "loading", "storing", "queueing", "printing"},
                      msg : Message, count : Int]
      /\ logger'.at = "waiting" /\ logger'.msg.number = 0
  BY <1>0, <1>1, <1>2 DEF Types
<1>4. logger.msg \in Loggable /\ logger.msg.number \notin Logged
  BY <1>0, <1>1 DEF Types, LogInv
<1>5. /\ logFile' \in Seq(Loggable)
      /\ Numbers(logFile') = Numbers(logFile) \cup {logger.msg.number}
      /\ OnceEach(logFile')
  BY <1>0, <1>1, <1>4, AppendFacts DEF Types, LogInv, Logged
<1>6. /\ Sent' = Sent /\ Logged' = Logged \cup {logger.msg.number}
      /\ (Arriving' <=> Arriving)
  BY <1>1, <1>5 DEF Sent, Logged, Arriving
<1>7. Types'  BY <1>0, <1>1, <1>3, <1>5 DEF Types, Unsent
<1>8. CountInv'
  <2>1. Counted' = Counted  BY <1>1, <1>3, <1>6 DEF Counted
  <2> QED BY <1>0, <1>1, <1>3, <2>1 DEF CountInv
<1>9. NumbersInv'  BY <1>0, <1>1, <1>3, <1>6, TypeFacts DEF NumbersInv
<1>10. LogInv'  BY <1>0, <1>1, <1>3, <1>4, <1>5 DEF LogInv, Logged
<1>11. UartInv'  BY <1>0, <1>1, <1>3, <1>6 DEF UartInv, Unsent
<1>12. ArrivalInv'
  BY <1>0, <1>1, <1>3, <1>6 DEF ArrivalInv
<1> QED BY <1>7, <1>8, <1>9, <1>10, <1>11, <1>12 DEF Inv

\* A message is written: its number moves from the queue to what is written.
LEMMA SendStep == ASSUME Inv, Send PROVE Inv'
<1> DEFINE m == Head(uartTxQueue)
<1>0. Types /\ CountInv /\ NumbersInv /\ LogInv /\ UartInv /\ ArrivalInv  BY DEF Inv
<1>1. /\ uartTxQueue # <<>> /\ tx.at = "waiting" /\ uartTxQueue' = Tail(uartTxQueue)
      /\ written' = Append(written, m)
      /\ UNCHANGED <<published, errorCount, rx, logQueue, logger, logFile>>
  BY DEF Send, log
<1>2. /\ m \in Sendable /\ Tail(uartTxQueue) \in Seq(Sendable)
      /\ m.number \in Numbers(uartTxQueue)
      /\ Numbers(Tail(uartTxQueue)) \subseteq Numbers(uartTxQueue)
      /\ OnceEach(Tail(uartTxQueue)) /\ m.number \notin Numbers(Tail(uartTxQueue))
  BY <1>0, <1>1, TailFacts DEF Types, UartInv
<1>3. m \in Message  BY <1>0, <1>2, TypeFacts
<1>4. /\ tx' \in [at : {"waiting", "loading", "storing"}, msg : Message, count : Int]
      /\ tx'.at # "storing"
  <2>1. tx' = IF m.type = "SYSLOG_MSG" THEN [tx EXCEPT !.msg = m, !.at = "loading"] ELSE tx
    BY DEF Send
  <2> HIDE DEF m
  <2> QED BY <1>0, <1>1, <1>3, <2>1 DEF Types
<1> HIDE DEF m
<1>5. /\ written' \in Seq(Sendable)
      /\ Numbers(written') = Numbers(written) \cup {m.number}
      /\ OnceEach(written')
  BY <1>0, <1>1, <1>2, AppendFacts DEF Types, UartInv
<1>6. Sent' \subseteq Sent /\ Logged' = Logged /\ (Arriving' <=> Arriving)
  BY <1>1, <1>2, <1>5 DEF Sent, Logged, Arriving
<1>7. Types'  BY <1>0, <1>1, <1>2, <1>4, <1>5 DEF Types, Unsent
<1>8. CountInv'
  <2>1. Counted' = Counted  BY <1>1, <1>6 DEF Counted
  <2> QED BY <1>0, <1>1, <1>4, <2>1 DEF CountInv
<1>9. NumbersInv'  BY <1>0, <1>1, <1>6 DEF NumbersInv
<1>10. LogInv'  BY <1>0, <1>1, <1>6 DEF LogInv
<1>11. UartInv'
  <2>1. Numbers(uartTxQueue') \cap Numbers(written') = {}
    BY <1>0, <1>1, <1>2, <1>5 DEF UartInv
  <2> QED BY <1>0, <1>1, <1>2, <1>5, <1>6, <2>1 DEF UartInv, Unsent
<1>12. ArrivalInv'  BY <1>0, <1>1, <1>6 DEF ArrivalInv
<1> QED BY <1>7, <1>8, <1>9, <1>10, <1>11, <1>12 DEF Inv

\* A new message of the MCP arrives, or one it returns.
LEMMA ArriveStep ==
  ASSUME Inv, MCPReturns \/ \E severe \in BOOLEAN :
                              MCPSends("SYSLOG_MSG", severe) \/ MCPSends("OTHER", severe)
  PROVE  Inv'
<1>0. Types /\ CountInv /\ NumbersInv /\ LogInv /\ UartInv /\ ArrivalInv  BY DEF Inv
<1>1. /\ rx = <<>>
      /\ UNCHANGED <<errorCount, logQueue, logger, logFile, uartTxQueue, tx, written>>
  BY DEF MCPReturns, MCPSends, log, uart
<1>2. Sent' = Sent /\ Logged' = Logged /\ (Unsent' <=> Unsent) /\ ~Arriving
  BY <1>1 DEF Sent, Logged, Unsent, Arriving
<1>3. /\ published \in Nat /\ Len(logQueue) \in Nat /\ Counted \in Int
      /\ logger.msg.number \in Nat /\ \A n \in Sent \cup Logged : n \in Nat
  BY <1>0, TypeFacts
<1>4. ASSUME NEW type \in {"SYSLOG_MSG", "OTHER"}, NEW severe \in BOOLEAN,
             MCPSends(type, severe)
      PROVE  Inv'
  <2> DEFINE m == Numbered(type, "MCP", severe)
  <2>1. /\ m \in Message /\ m.number = published + 1 /\ m.source = "MCP"
        /\ m.type # "BBBLOG_MSG"
    BY <1>3 DEF Numbered, Message
  <2>2. rx' = <<m>> /\ published' = published + 1
    BY <1>4 DEF MCPSends
  <2> HIDE DEF m
  <2>3. /\ rx' \in Seq(Message) /\ Len(rx') = 1 /\ rx' # <<>> /\ rx'[1] = m
    BY <2>1, <2>2
  <2>4. Arriving'  BY <2>1, <2>3 DEF Arriving
  <2>5. Types'  BY <1>0, <1>1, <1>2, <2>1, <2>2, <2>3 DEF Types
  <2>6. CountInv'
    <3>1. Counted' = Counted  BY <1>1, <1>2, <1>3, <2>2, <2>4 DEF Counted
    <3> QED BY <1>0, <1>1, <3>1 DEF CountInv
  <2>7. NumbersInv'  BY <1>0, <1>1, <1>2, <1>3, <2>1, <2>2, <2>3 DEF NumbersInv
  <2>8. LogInv'  BY <1>0, <1>1, <1>2 DEF LogInv
  <2>9. UartInv'  BY <1>0, <1>1, <1>2 DEF UartInv
  <2>10. m.number \notin Sent \cup Logged /\ m.number # logger.msg.number
    BY <1>0, <1>3, <2>1 DEF NumbersInv
  <2>11. ArrivalInv'  BY <1>1, <1>2, <2>3, <2>10 DEF ArrivalInv
  <2> QED BY <2>5, <2>6, <2>7, <2>8, <2>9, <2>11 DEF Inv
<1>5. CASE MCPReturns
  <2>1. PICK i \in 1..Len(written) : rx' = <<written[i]>>
    BY <1>5 DEF MCPReturns
  <2>2. published' = published  BY <1>5 DEF MCPReturns
  <2>3. /\ written[i] \in Message /\ written[i].source = "OVERMIND"
        /\ written[i].type # "BBBLOG_MSG"
    <3>1. written \in Seq(Sendable)  BY <1>0 DEF Types
    <3>2. written[i] \in Sendable  BY <3>1
    <3> QED BY <3>2 DEF Sendable
  <2>4. /\ rx' \in Seq(Message) /\ Len(rx') = 1 /\ rx'[1] = written[i]
    BY <2>1, <2>3
  <2>5. ~Arriving'  BY <2>3, <2>4 DEF Arriving
  <2>6. Types'  BY <1>0, <1>1, <1>2, <2>2, <2>3, <2>4 DEF Types
  <2>7. CountInv'
    <3>1. Counted' = Counted  BY <1>1, <1>2, <2>2, <2>5 DEF Counted
    <3> QED BY <1>0, <1>1, <3>1 DEF CountInv
  <2>8. NumbersInv'  BY <1>0, <1>1, <1>2, <2>2, <2>5 DEF NumbersInv
  <2>9. LogInv'  BY <1>0, <1>1, <1>2 DEF LogInv
  <2>10. UartInv'  BY <1>0, <1>1, <1>2 DEF UartInv
  <2>11. ArrivalInv'  BY <2>5 DEF ArrivalInv
  <2> QED BY <2>6, <2>7, <2>8, <2>9, <2>10, <2>11 DEF Inv
<1> QED BY <1>4, <1>5

\* What has arrived is routed, to the log at most, or dropped if it was returned.
LEMMA RxStep == ASSUME Inv, RxThread PROVE Inv'
<1> DEFINE m == rx[1]
<1>0. Types /\ CountInv /\ NumbersInv /\ LogInv /\ UartInv /\ ArrivalInv  BY DEF Inv
<1>1. /\ rx # <<>> /\ rx' = <<>>
      /\ UNCHANGED <<published, errorCount, logger, logFile, tx, written>>
      /\ IF m.source # "OVERMIND" THEN RouteMessage(m) ELSE UNCHANGED <<logQueue, uartTxQueue>>
  BY DEF RxThread
<1>2. m \in Message /\ m.type # "BBBLOG_MSG"
  BY <1>0, <1>1, TypeFacts DEF Types
<1>3. /\ published \in Nat /\ Len(logQueue) \in Nat /\ Counted \in Int
      /\ errorCount \in Int /\ logger.count \in Int /\ tx.count \in Int
  BY <1>0, TypeFacts DEF Types
<1>4. ~Arriving' /\ (Unsent' <=> Unsent) /\ rx' \in Seq(Message) /\ Len(rx') <= 1
  BY <1>1 DEF Arriving, Unsent
<1>5. \/ /\ m \in Loggable /\ Arriving /\ logQueue' = Append(logQueue, m)
         /\ uartTxQueue' = uartTxQueue
      \/ logQueue' = logQueue /\ uartTxQueue' = uartTxQueue
  <2>1. CASE m.source # "OVERMIND"
    <3> HIDE DEF m
    <3> QED BY <1>1, <1>2, <2>1, RouteStep DEF m, Arriving
  <2>2. CASE m.source = "OVERMIND"
    BY <1>1, <2>2
  <2> QED BY <2>1, <2>2
<1>6. CASE /\ m \in Loggable /\ Arriving /\ logQueue' = Append(logQueue, m)
           /\ uartTxQueue' = uartTxQueue
  <2>1. /\ m.number <= published /\ m.number \notin Sent \cup Logged
        /\ logger.at # "waiting" => m.number # logger.msg.number
    BY <1>0, <1>6 DEF NumbersInv, ArrivalInv
  <2> HIDE DEF m
  <2>2. /\ logQueue' \in Seq(Loggable) /\ Len(logQueue') = Len(logQueue) + 1
        /\ Numbers(logQueue') = Numbers(logQueue) \cup {m.number}
        /\ OnceEach(logQueue')
    <3>1. logQueue \in Seq(Loggable)  BY <1>0 DEF Types
    <3> QED BY <1>0, <1>6, <2>1, <3>1, AppendFacts DEF LogInv, Logged
  <2>3. Sent' = Sent /\ Logged' = Logged \cup {m.number}
    BY <1>1, <1>6, <2>2 DEF Sent, Logged
  <2>4. Types'  BY <1>0, <1>1, <1>4, <1>6, <2>2 DEF Types
  <2>5. CountInv'
    <3>1. Counted' = Counted  BY <1>1, <1>3, <1>4, <1>6, <2>2 DEF Counted
    <3> QED BY <1>0, <1>1, <3>1 DEF CountInv
  <2>6. NumbersInv'  BY <1>0, <1>1, <1>4, <2>1, <2>3 DEF NumbersInv
  <2>7. LogInv'  BY <1>0, <1>1, <2>1, <2>2, <2>3 DEF LogInv, Logged
  <2>8. UartInv'  BY <1>0, <1>1, <1>4, <1>6, <2>1, <2>2, <2>3 DEF UartInv
  <2>9. ArrivalInv'  BY <1>4 DEF ArrivalInv
  <2> QED BY <2>4, <2>5, <2>6, <2>7, <2>8, <2>9 DEF Inv
<1>7. CASE logQueue' = logQueue /\ uartTxQueue' = uartTxQueue
  <2>1. Sent' = Sent /\ Logged' = Logged
    BY <1>1, <1>7 DEF Sent, Logged
  <2>2. Types'  BY <1>0, <1>1, <1>4, <1>7 DEF Types
  <2>3. CountInv'
    <3>1. Counted <= Counted' /\ Counted' \in Int
      BY <1>1, <1>3, <1>4, <1>7 DEF Counted
    <3> QED BY <1>0, <1>1, <1>3, <3>1 DEF CountInv
  <2>4. NumbersInv'  BY <1>0, <1>1, <1>4, <2>1 DEF NumbersInv
  <2>5. LogInv'  BY <1>0, <1>1, <1>7, <2>1 DEF LogInv
  <2>6. UartInv'  BY <1>0, <1>1, <1>4, <1>7, <2>1 DEF UartInv
  <2>7. ArrivalInv'  BY <1>4 DEF ArrivalInv
  <2> QED BY <2>2, <2>3, <2>4, <2>5, <2>6, <2>7 DEF Inv
<1> QED BY <1>5, <1>6, <1>7
-----------------------------------------------------------------------------
(* The theorems *)

\* All of it is invariant.
THEOREM Invariance == Spec => []Inv
<1>1. Init => Inv
  <2> SUFFICES ASSUME Init PROVE Inv
    OBVIOUS
  <2>1. NoMsg \in Message /\ NoMsg.number = 0  BY DEF NoMsg, Message
  <2>2. Types  BY <2>1 DEF Init, Types, Unsent
  <2>3. /\ Numbers(logQueue) = {} /\ Numbers(logFile) = {}
        /\ Numbers(uartTxQueue) = {} /\ Numbers(written) = {}
        /\ OnceEach(logQueue) /\ OnceEach(logFile)
        /\ OnceEach(uartTxQueue) /\ OnceEach(written)
    BY DEF Init, Numbers, OnceEach
  <2>4. ~Arriving /\ ~Unsent /\ Sent = {} /\ Logged = {}
    BY <2>3 DEF Init, Arriving, Unsent, Sent, Logged
  <2>5. CountInv  BY <2>4 DEF Init, CountInv, Counted
  <2>6. NumbersInv  BY <2>1, <2>4 DEF Init, NumbersInv
  <2>7. LogInv /\ UartInv /\ ArrivalInv
    BY <2>3, <2>4 DEF Init, LogInv, UartInv, ArrivalInv
  <2> QED BY <2>2, <2>5, <2>6, <2>7 DEF Inv
<1>2. Inv /\ [Next]_vars => Inv'
  <2> SUFFICES ASSUME Inv, [Next]_vars PROVE Inv'
    OBVIOUS
  <2>1. ASSUME NEW severe \in BOOLEAN, Publish("BBBLOG_MSG", severe) PROVE Inv'
    BY <2>1, PublishStep
  <2>2. CASE Publish("OTHER", FALSE)
    BY <2>2, PublishStep
  <2>3. CASE LoggingThread
    BY <2>3, TakeLogStep, CountStep, QueueCopyStep, PrintLogStep DEF LoggingThread
  <2>4. CASE TxThread
    BY <2>4, SendStep, CountStep DEF TxThread
  <2>5. ASSUME NEW severe \in BOOLEAN, MCPSends("SYSLOG_MSG", severe) PROVE Inv'
    BY <2>5, ArriveStep
  <2>6. CASE MCPSends("OTHER", FALSE)
    BY <2>6, ArriveStep
  <2>7. CASE MCPReturns
    BY <2>7, ArriveStep
  <2>8. CASE RxThread
    BY <2>8, RxStep
  <2>9. CASE UNCHANGED vars
    BY <2>9 DEF vars, Inv, Types, CountInv, NumbersInv, LogInv, UartInv, ArrivalInv,
                Counted, Arriving, Unsent, Sent, Logged
  <2> QED BY <2>1, <2>2, <2>3, <2>4, <2>5, <2>6, <2>7, <2>8, <2>9 DEF Next
<1> QED BY <1>1, <1>2, PTL DEF Spec

\* Every variable of the log and of the serial broker keeps its type, and
\* errorCount never counts more than was published, whatever updates are lost.
THEOREM Typing == Spec => []TypeOK
<1>1. Inv => TypeOK
  <2> SUFFICES ASSUME Inv PROVE TypeOK
    OBVIOUS
  <2>1. Types /\ CountInv  BY DEF Inv
  <2>2. \A S : S \subseteq Message => Seq(S) \subseteq Seq(Message)
    OBVIOUS
  <2>3. /\ Loggable \subseteq Message /\ Sendable \subseteq Message
        /\ published \in Nat /\ Len(logQueue) \in Nat /\ Counted \in Int
    BY <2>1, TypeFacts
  <2>4. /\ logQueue \in Seq(Message) /\ logFile \in Seq(Message)
        /\ uartTxQueue \in Seq(Message) /\ written \in Seq(Message)
    BY <2>1, <2>2, <2>3 DEF Types
  <2>5. Counted <= published
    BY <2>3 DEF Counted
  <2>6. errorCount <= published
    BY <2>1, <2>3, <2>5 DEF CountInv, Types
  <2> QED BY <2>1, <2>4, <2>6 DEF Types, TypeOK
<1> QED BY <1>1, Invariance, PTL

\* No log message is ever printed twice, although copies of errors pass the log
\* and the UART.
THEOREM LoggedOnceOnly == Spec => []LoggedOnce
<1>1. Inv => LoggedOnce  BY DEF Inv, LogInv, LoggedOnce
<1> QED BY <1>1, Invariance, PTL

\* No message is sent to the MCP twice, and none but those of the overmind, whatever
\* the MCP sends or returns.
THEOREM SentOnceOnly == Spec => []SentOnce
<1>1. Inv => SentOnce  BY DEF Inv, Types, UartInv, SentOnce
<1> QED BY <1>1, Invariance, PTL
-----------------------------------------------------------------------------
(* The quota of errors *)

\* What Append does to the errors of a file and to their ranks.
LEMMA OwnErrorsFacts ==
  ASSUME NEW s \in Seq(Message), NEW m \in Message
  PROVE  /\ Cardinality(OwnErrors(s)) \in Nat
         /\ Cardinality(OwnErrors(Append(s, m))) =
              Cardinality(OwnErrors(s)) + (IF IsOwnError(m) THEN 1 ELSE 0)
         /\ \A i \in OwnErrors(Append(s, m)) :
              \/ /\ i \in OwnErrors(s) /\ Append(s, m)[i] = s[i]
                 /\ {j \in OwnErrors(Append(s, m)) : j <= i} = {j \in OwnErrors(s) : j <= i}
              \/ /\ IsOwnError(m) /\ Append(s, m)[i] = m
                 /\ {j \in OwnErrors(Append(s, m)) : j <= i} = OwnErrors(Append(s, m))
<1> DEFINE t == Append(s, m)
<1>1. /\ Len(s) \in Nat /\ Len(t) = Len(s) + 1
      /\ \A i \in 1..Len(s) : t[i] = s[i]
      /\ t[Len(s) + 1] = m
  OBVIOUS
<1>2. OwnErrors(s) \subseteq 1..Len(s) /\ OwnErrors(t) \subseteq 1..(Len(s) + 1)
  BY <1>1 DEF OwnErrors
<1>3. IsFiniteSet(OwnErrors(s)) /\ Cardinality(OwnErrors(s)) \in Nat
  <2>1. IsFiniteSet(1..Len(s))  BY <1>1, FS_Interval
  <2>2. IsFiniteSet(OwnErrors(s))  BY <1>2, <2>1, FS_Subset
  <2> QED BY <2>2, FS_CardinalityType
<1>4. \A i \in 1..Len(s) : i \in OwnErrors(t) <=> i \in OwnErrors(s)
  BY <1>1 DEF OwnErrors
<1>5. Len(s) + 1 \in OwnErrors(t) <=> IsOwnError(m)
  BY <1>1 DEF OwnErrors
<1> HIDE DEF t
<1>6. Cardinality(OwnErrors(t)) =
        Cardinality(OwnErrors(s)) + (IF IsOwnError(m) THEN 1 ELSE 0)
  <2>1. CASE IsOwnError(m)
    <3>1. OwnErrors(t) = OwnErrors(s) \cup {Len(s) + 1}
      BY <1>1, <1>2, <1>4, <1>5, <2>1
    <3>2. Len(s) + 1 \notin OwnErrors(s)  BY <1>1, <1>2
    <3> QED BY <1>3, <2>1, <3>1, <3>2, FS_AddElement
  <2>2. CASE ~IsOwnError(m)
    <3>1. \A i : i \in OwnErrors(t) <=> i \in OwnErrors(s)
      BY <1>1, <1>2, <1>4, <1>5, <2>2
    <3>2. OwnErrors(t) = OwnErrors(s)  BY <3>1
    <3> QED BY <1>3, <2>2, <3>2
  <2> QED BY <2>1, <2>2
<1>7. ASSUME NEW i \in OwnErrors(t)
      PROVE  \/ /\ i \in OwnErrors(s) /\ t[i] = s[i]
                /\ {j \in OwnErrors(t) : j <= i} = {j \in OwnErrors(s) : j <= i}
             \/ /\ IsOwnError(m) /\ t[i] = m
                /\ {j \in OwnErrors(t) : j <= i} = OwnErrors(t)
  <2>1. CASE i \in 1..Len(s)
    <3>1. \A j : j \in OwnErrors(t) /\ j <= i <=> j \in OwnErrors(s) /\ j <= i
      BY <1>1, <1>2, <1>4, <2>1
    <3> QED BY <1>1, <1>4, <2>1, <3>1
  <2>2. CASE i = Len(s) + 1
    <3>1. \A j \in OwnErrors(t) : j <= i  BY <1>1, <1>2, <2>2
    <3> QED BY <1>1, <1>5, <2>2, <3>1
  <2> QED BY <1>1, <1>2, <2>1, <2>2
<1> QED BY <1>3, <1>6, <1>7 DEF t

\* Taking the first message leaves every other number.
LEMMA HeadOrTail ==
  ASSUME NEW S, NEW s \in Seq(S), s # <<>>
  PROVE  Numbers(s) \subseteq {Head(s).number} \cup Numbers(Tail(s))
<1> SUFFICES ASSUME NEW i \in 1..Len(s)
             PROVE  s[i].number \in {Head(s).number} \cup Numbers(Tail(s))
  BY DEF Numbers
<1>1. /\ Len(s) \in Nat /\ Head(s) = s[1] /\ Len(Tail(s)) = Len(s) - 1
      /\ \A j \in 1..Len(Tail(s)) : Tail(s)[j] = s[j + 1]
  OBVIOUS
<1>2. CASE i = 1  BY <1>1, <1>2
<1>3. CASE i # 1
  <2>1. i - 1 \in 1..Len(Tail(s)) /\ Tail(s)[i - 1] = s[i]  BY <1>1, <1>3
  <2> QED BY <2>1 DEF Numbers
<1> QED BY <1>2, <1>3

\* Errors the quota has been charged with: those printed, and the one in hand once
\* it was counted.
Errors == Cardinality(OwnErrors(logFile))
Charged ==
  Errors + (IF logger.at \in {"queueing", "printing"} /\ IsOwnError(logger.msg) THEN 1 ELSE 0)

\* No count is ever ahead of the errors charged: an update that is lost lowers it.
ChargeInv ==
  /\ errorCount <= Charged
  /\ logger.at = "storing" => logger.count <= Charged
  /\ tx.at = "storing" => tx.count <= Charged

\* What is about to be printed was forwarded, if it is one of the first errors.
HandInv ==
  logger.at = "printing" /\ IsOwnError(logger.msg) /\ Errors + 1 <= MaxError
    => logger.msg.number \in Sent

QuotaInv == ChargeInv /\ HandInv /\ FirstErrorsForwarded

\* The types of what the quota is about.
LEMMA QuotaFacts ==
  ASSUME Types
  PROVE  /\ Errors \in Nat /\ Charged \in Nat /\ errorCount \in Int
         /\ logger.count \in Int /\ tx.count \in Int
         /\ logFile \in Seq(Message) /\ logger.msg \in Message
<1>1. logFile \in Seq(Message) /\ logger.msg \in Message
  <2>1. \A S : S \subseteq Message => Seq(S) \subseteq Seq(Message)
    OBVIOUS
  <2> QED BY <2>1, TypeFacts DEF Types
<1>2. Errors \in Nat  BY <1>1, OwnErrorsFacts DEF Errors
<1>3. Charged \in Nat  BY <1>2 DEF Charged
<1> QED BY <1>1, <1>2, <1>3 DEF Types

\* What is forwarded stays so: while nothing is printed, no error loses its copy.
LEMMA ForwardedStays ==
  ASSUME FirstErrorsForwarded, logFile' = logFile, Sent \subseteq Sent'
  PROVE  FirstErrorsForwarded'
  BY DEF FirstErrorsForwarded, Sent

\* Steps of threads that neither log nor send.
LEMMA OthersKeepQuota ==
  ASSUME QuotaInv, Sent \subseteq Sent', UNCHANGED <<errorCount, logger, tx, logFile>>
  PROVE  QuotaInv'
<1>1. Errors' = Errors /\ Charged' = Charged  BY DEF Errors, Charged
<1>2. ChargeInv' /\ HandInv'  BY <1>1 DEF QuotaInv, ChargeInv, HandInv
<1> QED BY <1>2, ForwardedStays DEF QuotaInv

\* Messages routed to the UART go behind those that wait.
LEMMA RouteKeepsQuota ==
  ASSUME Inv, QuotaInv, uartTxQueue' = uartTxQueue \/ \E m \in Sendable :
                                           uartTxQueue' = Append(uartTxQueue, m),
         UNCHANGED <<errorCount, logger, tx, logFile, written>>
  PROVE  QuotaInv'
<1>1. Sent \subseteq Sent'
  <2>1. CASE uartTxQueue' = uartTxQueue  BY <2>1 DEF Sent
  <2>2. ASSUME NEW m \in Sendable, uartTxQueue' = Append(uartTxQueue, m)
        PROVE  Sent \subseteq Sent'
    <3>1. uartTxQueue \in Seq(Sendable)  BY DEF Inv, Types
    <3>2. Numbers(uartTxQueue') = Numbers(uartTxQueue) \cup {m.number}
      BY <2>2, <3>1, AppendFacts
    <3> QED BY <3>2 DEF Sent
  <2> QED BY <2>1, <2>2
<1> QED BY <1>1, OthersKeepQuota

\* A message is taken, or the count loaded: nothing is charged yet.
LEMMA LoadKeepsQuota ==
  ASSUME Inv, QuotaInv, TakeLog \/ LoadCount
  PROVE  QuotaInv'
<1>0. Types  BY DEF Inv
<1>1. /\ UNCHANGED <<errorCount, logFile, uartTxQueue, tx, written>>
      /\ logger' \in [at : {"waiting", "loading", "storing", "queueing", "printing"},
                      msg : Message, count : Int]
  <2>1. CASE TakeLog
    <3>1. Head(logQueue) \in Message
      <4>1. logQueue # <<>> /\ logQueue \in Seq(Loggable)  BY <1>0, <2>1 DEF TakeLog, Types
      <4>2. Head(logQueue) \in Loggable  BY <4>1, TailFacts
      <4> QED BY <4>2 DEF Loggable
    <3> QED BY <1>0, <2>1, <3>1 DEF TakeLog, Types, uart
  <2>2. CASE LoadCount  BY <1>0, <2>2 DEF LoadCount, Types, uart
  <2> QED BY <2>1, <2>2
<1>2. Errors' = Errors /\ Sent' = Sent  BY <1>1 DEF Errors, Sent
<1>3. /\ Errors \in Nat /\ errorCount \in Int /\ tx.count \in Int
  BY <1>0, QuotaFacts
<1>4. logger.at \in {"waiting", "loading"} /\ Charged = Errors
  BY <1>3 DEF TakeLog, LoadCount, Charged
<1>5. logger'.at # "storing" \/ logger'.count = errorCount
  BY <1>0 DEF TakeLog, LoadCount, Types
<1>6. ~(logger'.at = "printing" /\ IsOwnError(logger'.msg)) /\ logger'.at # "queueing"
  <2>1. CASE TakeLog
    <3> DEFINE m == Head(logQueue)
    <3>1. logger' = [logger EXCEPT !.msg = m, !.at = IF IsOwnError(m) THEN "loading" ELSE "printing"]
      BY <2>1 DEF TakeLog
    <3> HIDE DEF m
    <3> QED BY <1>0, <3>1 DEF Types
  <2>2. CASE LoadCount  BY <1>0, <2>2 DEF LoadCount, Types
  <2> QED BY <2>1, <2>2
<1>7. Charged' = Charged
  BY <1>2, <1>3, <1>4, <1>6 DEF Charged
<1>8. ChargeInv'  BY <1>1, <1>5, <1>7 DEF QuotaInv, ChargeInv
<1>9. HandInv'  BY <1>6 DEF HandInv
<1>10. FirstErrorsForwarded'  BY <1>1, <1>2, ForwardedStays DEF QuotaInv
<1> QED BY <1>8, <1>9, <1>10 DEF QuotaInv

\* The error in hand is charged; only when the quota is used up it is not queued.
LEMMA StoreKeepsQuota == ASSUME Inv, QuotaInv, StoreCount PROVE QuotaInv'
<1>0. Types  BY DEF Inv
<1>1. /\ logger.at = "storing" /\ errorCount' = logger.count + 1
      /\ logger' = [logger EXCEPT !.at = IF logger.count >= MaxError THEN "printing" ELSE "queueing"]
      /\ UNCHANGED <<logFile, uartTxQueue, tx, written>>
  BY DEF StoreCount, uart
<1>2. /\ Errors \in Nat /\ logger.count \in Int /\ tx.count \in Int /\ MaxError \in Nat
  BY <1>0, QuotaFacts, QuotaAssumption
<1>3. IsOwnError(logger.msg)  BY <1>0, <1>1 DEF Types, Unsent
<1>4. /\ logger'.msg = logger.msg
      /\ logger'.at = IF logger.count >= MaxError THEN "printing" ELSE "queueing"
  BY <1>0, <1>1 DEF Types
<1>5. Errors' = Errors /\ Sent' = Sent  BY <1>1 DEF Errors, Sent
<1>6. Charged = Errors /\ Charged' = Errors + 1
  BY <1>1, <1>2, <1>3, <1>4, <1>5 DEF Charged
<1>7. ChargeInv'
  BY <1>1, <1>2, <1>4, <1>6 DEF QuotaInv, ChargeInv
<1>8. HandInv'
  BY <1>1, <1>2, <1>4, <1>5, <1>6 DEF QuotaInv, ChargeInv, HandInv
<1>9. FirstErrorsForwarded'  BY <1>1, <1>5, ForwardedStays DEF QuotaInv
<1> QED BY <1>7, <1>8, <1>9 DEF QuotaInv

\* The copy is queued before its error is printed.
LEMMA QueueKeepsQuota == ASSUME Inv, QuotaInv, QueueCopy PROVE QuotaInv'
<1>0. Types  BY DEF Inv
<1>1. /\ logger.at = "queueing" /\ uartTxQueue' = Append(uartTxQueue, Copy)
      /\ logger' = [logger EXCEPT !.at = "printing"]
      /\ UNCHANGED <<errorCount, tx, logFile, written>>
  BY DEF QueueCopy
<1>2. Copy \in Sendable /\ Copy.number = logger.msg.number
  <2>1. logger.msg \in Message /\ logger.msg.severe = TRUE
    BY <1>0, <1>1, TypeFacts DEF Types, Unsent, IsOwnError
  <2> QED BY <2>1 DEF Copy, Message, Sendable
<1>3. logger'.at = "printing" /\ logger'.msg = logger.msg /\ IsOwnError(logger.msg)
  BY <1>0, <1>1 DEF Types, Unsent
<1>4. Sent' = Sent \cup {logger.msg.number}
  <2>1. uartTxQueue \in Seq(Sendable)  BY <1>0 DEF Types
  <2>2. Numbers(uartTxQueue') = Numbers(uartTxQueue) \cup {logger.msg.number}
    BY <1>1, <1>2, <2>1, AppendFacts
  <2> QED BY <1>1, <2>2 DEF Sent
<1>5. Errors' = Errors /\ Charged' = Charged
  BY <1>1, <1>3 DEF Errors, Charged
<1>6. ChargeInv'  BY <1>1, <1>3, <1>5 DEF QuotaInv, ChargeInv
<1>7. HandInv'  BY <1>3, <1>4 DEF HandInv
<1>8. FirstErrorsForwarded'  BY <1>1, <1>4, ForwardedStays DEF QuotaInv
<1> QED BY <1>6, <1>7, <1>8 DEF QuotaInv

\* The error printed takes the rank after those before it: its copy went first.
LEMMA PrintKeepsQuota == ASSUME Inv, QuotaInv, PrintLog PROVE QuotaInv'
<1> DEFINE m == logger.msg
<1>0. Types  BY DEF Inv
<1>1. /\ logger.at = "printing" /\ logFile' = Append(logFile, m)
      /\ logger' = [logger EXCEPT !.at = "waiting", !.msg = NoMsg]
      /\ UNCHANGED <<errorCount, uartTxQueue, tx, written>>
  BY DEF PrintLog, uart
<1>2. /\ logFile \in Seq(Message) /\ m \in Message /\ Errors \in Nat /\ MaxError \in Nat
  BY <1>0, QuotaFacts, QuotaAssumption
<1>3. logger'.at = "waiting"  BY <1>0, <1>1 DEF Types
<1>4. Errors' = Errors + (IF IsOwnError(m) THEN 1 ELSE 0)
  BY <1>1, <1>2, OwnErrorsFacts DEF Errors
<1>5. Charged' = Charged
  BY <1>1, <1>2, <1>3, <1>4 DEF Charged
<1>6. ChargeInv'  BY <1>1, <1>3, <1>5 DEF QuotaInv, ChargeInv
<1>7. HandInv'  BY <1>3 DEF HandInv
<1>8. Sent' = Sent  BY <1>1 DEF Sent
<1>9. FirstErrorsForwarded'
  <2> SUFFICES ASSUME NEW i \in OwnErrors(logFile'),
                      Cardinality({j \in OwnErrors(logFile') : j <= i}) <= MaxError
               PROVE  logFile'[i].number \in Sent'
    BY DEF FirstErrorsForwarded, Sent
  <2>1. \/ /\ i \in OwnErrors(logFile) /\ logFile'[i] = logFile[i]
           /\ {j \in OwnErrors(logFile') : j <= i} = {j \in OwnErrors(logFile) : j <= i}
        \/ /\ IsOwnError(m) /\ logFile'[i] = m
           /\ {j \in OwnErrors(logFile') : j <= i} = OwnErrors(logFile')
    <3>1. i \in OwnErrors(Append(logFile, m))  BY <1>1
    <3> HIDE DEF m
    <3> QED BY <1>1, <1>2, <3>1, OwnErrorsFacts
  <2>2. CASE /\ i \in OwnErrors(logFile) /\ logFile'[i] = logFile[i]
             /\ {j \in OwnErrors(logFile') : j <= i} = {j \in OwnErrors(logFile) : j <= i}
    BY <1>8, <2>2 DEF QuotaInv, FirstErrorsForwarded, Sent
  <2>3. CASE /\ IsOwnError(m) /\ logFile'[i] = m
             /\ {j \in OwnErrors(logFile') : j <= i} = OwnErrors(logFile')
    <3>1. Errors + 1 <= MaxError  BY <1>4, <2>3 DEF Errors
    <3> QED BY <1>1, <1>8, <2>3, <3>1 DEF QuotaInv, HandInv
  <2> QED BY <2>1, <2>2, <2>3
<1> QED BY <1>6, <1>7, <1>9 DEF QuotaInv

\* The transmit thread moves numbers from the queue to what is written, and its
\* decrement only lowers the count.
LEMMA TransmitKeepsQuota == ASSUME Inv, QuotaInv, TxThread PROVE QuotaInv'
<1>0. Types  BY DEF Inv
<1>1. UNCHANGED <<logger, logFile>>
  BY DEF TxThread, Send, LoadSent, StoreSent, log
<1>2. Errors' = Errors /\ Charged' = Charged  BY <1>1 DEF Errors, Charged
<1>3. /\ Charged \in Nat /\ errorCount \in Int /\ tx.count \in Int
  BY <1>0, QuotaFacts
<1>4. Sent \subseteq Sent'
  <2>1. CASE Send
    <3>1. /\ uartTxQueue # <<>> /\ uartTxQueue \in Seq(Sendable) /\ written \in Seq(Sendable)
          /\ uartTxQueue' = Tail(uartTxQueue) /\ written' = Append(written, Head(uartTxQueue))
      BY <1>0, <2>1 DEF Send, Types
    <3>2. Head(uartTxQueue) \in Sendable  BY <3>1, TailFacts
    <3>3. Numbers(written') = Numbers(written) \cup {Head(uartTxQueue).number}
      BY <3>1, <3>2, AppendFacts
    <3>4. Numbers(uartTxQueue) \subseteq {Head(uartTxQueue).number} \cup Numbers(uartTxQueue')
      BY <3>1, HeadOrTail
    <3> QED BY <3>3, <3>4 DEF Sent
  <2>2. CASE LoadSent \/ StoreSent  BY <2>2 DEF LoadSent, StoreSent, Sent
  <2> QED BY <2>1, <2>2 DEF TxThread
<1>5. errorCount' <= Charged /\ (tx'.at = "storing" => tx'.count <= Charged)
  <2>1. CASE Send
    <3>1. errorCount' = errorCount /\ tx'.at # "storing"
      BY <1>0, <2>1 DEF Send, Types
    <3> QED BY <3>1 DEF QuotaInv, ChargeInv
  <2>2. CASE LoadSent
    <3>1. errorCount' = errorCount /\ tx'.count = errorCount
      BY <1>0, <2>2 DEF LoadSent, Types
    <3> QED BY <3>1 DEF QuotaInv, ChargeInv
  <2>3. CASE StoreSent
    <3>1. tx.at = "storing" /\ errorCount' = tx.count - 1 /\ tx'.at = "waiting"
      BY <1>0, <2>3 DEF StoreSent, Types
    <3> QED BY <1>3, <3>1 DEF QuotaInv, ChargeInv
  <2> QED BY <2>1, <2>2, <2>3 DEF TxThread
<1>6. ChargeInv'  BY <1>1, <1>2, <1>5 DEF QuotaInv, ChargeInv
<1>7. HandInv'  BY <1>1, <1>2, <1>4 DEF QuotaInv, HandInv
<1>8. FirstErrorsForwarded'  BY <1>1, <1>4, ForwardedStays DEF QuotaInv
<1> QED BY <1>6, <1>7, <1>8 DEF QuotaInv

\* RouteMessage appends at most one message that may be sent.
LEMMA RouteAppends ==
  ASSUME NEW m \in Message, SerialBrokerProcessMessage(m)
  PROVE  uartTxQueue' = uartTxQueue \/ \E n \in Sendable : uartTxQueue' = Append(uartTxQueue, n)
<1>1. m.type = "OTHER" /\ m.source = "OVERMIND" => m \in Sendable
  BY DEF Sendable
<1> QED BY <1>1 DEF SerialBrokerProcessMessage

\* The first MaxError errors that are printed have all been handed to the UART,
\* whatever updates of errorCount the logging and the transmit thread lose.
THEOREM FirstErrorsAreForwarded == Spec => []FirstErrorsForwarded
<1>1. Init => QuotaInv
  <2> SUFFICES ASSUME Init PROVE QuotaInv
    OBVIOUS
  <2>1. OwnErrors(logFile) = {}  BY DEF Init, OwnErrors
  <2>2. Errors = 0  BY <2>1, FS_EmptySet DEF Errors
  <2>3. /\ errorCount = 0 /\ logger.at = "waiting" /\ tx.at = "waiting" /\ Charged = 0
    BY <2>2 DEF Init, Charged
  <2> QED BY <2>1, <2>3 DEF QuotaInv, ChargeInv, HandInv, FirstErrorsForwarded
<1>2. Inv /\ QuotaInv /\ [Next]_vars => QuotaInv'
  <2> SUFFICES ASSUME Inv, QuotaInv, [Next]_vars PROVE QuotaInv'
    OBVIOUS
  <2>0. Types  BY DEF Inv
  <2>1. ASSUME NEW type \in {"BBBLOG_MSG", "OTHER"}, NEW severe \in BOOLEAN,
               Publish(type, severe)
        PROVE  QuotaInv'
    <3>1. Numbered(type, "OVERMIND", severe) \in Message
      BY <2>0 DEF Numbered, Message, Types
    <3>2. SerialBrokerProcessMessage(Numbered(type, "OVERMIND", severe))
      BY <2>1 DEF Publish, RouteMessage
    <3>3. uartTxQueue' = uartTxQueue
          \/ \E n \in Sendable : uartTxQueue' = Append(uartTxQueue, n)
      BY <3>1, <3>2, RouteAppends
    <3>4. UNCHANGED <<errorCount, logger, tx, logFile, written>>
      BY <2>1 DEF Publish
    <3> QED BY <3>3, <3>4, RouteKeepsQuota
  <2>2. CASE LoggingThread
    BY <2>2, LoadKeepsQuota, StoreKeepsQuota, QueueKeepsQuota, PrintKeepsQuota
       DEF LoggingThread
  <2>3. CASE TxThread
    BY <2>3, TransmitKeepsQuota
  <2>4. CASE MCPReturns \/ \E type \in {"SYSLOG_MSG", "OTHER"}, severe \in BOOLEAN :
                             MCPSends(type, severe)
    <3>1. UNCHANGED <<errorCount, logger, tx, logFile, uartTxQueue, written>>
      BY <2>4 DEF MCPReturns, MCPSends, log, uart
    <3> QED BY <3>1, RouteKeepsQuota
  <2>5. CASE RxThread
    <3>1. UNCHANGED <<errorCount, logger, tx, logFile, written>>
      BY <2>5 DEF RxThread
    <3>2. rx[1] \in Message  BY <2>0, <2>5, TypeFacts DEF RxThread
    <3>3. uartTxQueue' = uartTxQueue \/ SerialBrokerProcessMessage(rx[1])
      BY <2>5 DEF RxThread, RouteMessage
    <3>4. uartTxQueue' = uartTxQueue
          \/ \E n \in Sendable : uartTxQueue' = Append(uartTxQueue, n)
      BY <3>2, <3>3, RouteAppends
    <3> QED BY <3>1, <3>4, RouteKeepsQuota
  <2>6. CASE UNCHANGED vars
    <3>1. UNCHANGED <<errorCount, logger, tx, logFile, uartTxQueue, written>>
      BY <2>6 DEF vars
    <3> QED BY <3>1, RouteKeepsQuota
  <2> QED BY <2>1, <2>2, <2>3, <2>4, <2>5, <2>6 DEF Next
<1>3. QuotaInv => FirstErrorsForwarded  BY DEF QuotaInv
<1> QED BY <1>1, <1>2, <1>3, Invariance, PTL DEF Spec
=============================================================================
