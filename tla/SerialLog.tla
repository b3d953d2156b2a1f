----------------------------- MODULE SerialLog ------------------------------
(***************************************************************************)
(* The system log (src/Modules/syslog/syslog.c) and the serial broker      *)
(* (src/Modules/pubsub/serialBroker.c) with the part of RouteMessage that  *)
(* joins them (src/Modules/pubsub/pubsub.c).                               *)
(*                                                                         *)
(* Threads publish log messages and others; the logging thread prints each *)
(* log message and forwards a copy of an error to the UART, within a quota *)
(* kept in errorCount; the transmit thread sends; the receive thread       *)
(* routes what the motor processor, the MCP, sends.  errorCount is changed *)
(* by two threads without a lock: ++ and -- are a load and a store.        *)
(*                                                                         *)
(* BBBLOG_MSG has topic OVM_LOG_TOPIC and SYSLOG_MSG has LOG_TOPIC, as the *)
(* comments of RouteMessage say: the table of topics is external.  The MCP *)
(* is external too: it may send messages of its own, and return messages   *)
(* it was sent.  SYSLOG_LEVEL and LOG_TO_SERIAL are LOG_ALL: all is        *)
(* printed.  The queues are sequences: BrokerQ shows that they may be.     *)
(***************************************************************************)
EXTENDS Integers, Sequences, FiniteSets

CONSTANTS
  MaxError,    \* MAX_ERROR: reports that may wait for the UART
  MaxMessages  \* bound: messages published or received, returned ones apart

\* Two natural numbers.
ASSUME QuotaAssumption == MaxError \in Nat /\ MaxMessages \in Nat

VARIABLES
  published,     \* messages so far: their number is the name of the next
  logQueue, uartTxQueue,
  errorCount,
  logger,        \* the logging thread: location, message in hand, count loaded
  tx,            \* the transmit thread, likewise
  rx,            \* messages parsed by the receive thread and not yet routed: one or none
  logFile,       \* messages printed
  written        \* messages given to the UART

uart == <<uartTxQueue, tx, written>>
log == <<logQueue, logger, logFile>>
vars == <<published, logQueue, uartTxQueue, errorCount, logger, tx, rx, logFile, written>>

\* The copy forwarded of a message has its number, and another type.
Message == [number : Nat, type : {"BBBLOG_MSG", "SYSLOG_MSG", "OTHER"},
            source : {"OVERMIND", "MCP"}, severe : BOOLEAN]
Numbered(type, source, severe) ==
  [number |-> published + 1, type |-> type, source |-> source, severe |-> severe]
NoMsg == [number |-> 0, type |-> "OTHER", source |-> "OVERMIND", severe |-> FALSE]

Init ==
  /\ published = 0
  /\ logQueue = <<>> /\ uartTxQueue = <<>>
  /\ errorCount = 0
  /\ logger = [at |-> "waiting", msg |-> NoMsg, count |-> 0]
  /\ tx = [at |-> "waiting", msg |-> NoMsg, count |-> 0]
  /\ rx = <<>>
  /\ logFile = <<>> /\ written = <<>>
-----------------------------------------------------------------------------
(* RouteMessage, for what this module is about *)

\* Mutant of LogProcessMessage: forwarded copies are not skipped.
LogAllMessages(m) ==
  logQueue' = IF m.type # "OTHER" THEN Append(logQueue, m) ELSE logQueue

LogProcessMessage(m) ==
  logQueue' = IF \/ m.type = "BBBLOG_MSG"
                 \/ m.type = "SYSLOG_MSG" /\ m.source # "OVERMIND"
              THEN Append(logQueue, m) ELSE logQueue

\* Mutant of SerialBrokerProcessMessage: the source does not matter.
SerialBrokerForwardsAll(m) ==
  uartTxQueue' = IF m.type = "OTHER" THEN Append(uartTxQueue, m) ELSE uartTxQueue

\* Log messages apart: theirs is the logging thread's, step by step.
SerialBrokerProcessMessage(m) ==
  uartTxQueue' = IF m.type = "OTHER" /\ m.source = "OVERMIND"
                 THEN Append(uartTxQueue, m) ELSE uartTxQueue

RouteMessage(m) ==
  /\ LogProcessMessage(m)
  /\ SerialBrokerProcessMessage(m)

\* Any thread of the overmind publishes: _LogMessage, or a message to the MCP.
Publish(type, severe) ==
  /\ published < MaxMessages
  /\ published' = published + 1
  /\ RouteMessage(Numbered(type, "OVERMIND", severe))
  /\ UNCHANGED <<errorCount, logger, tx, rx, logFile, written>>
-----------------------------------------------------------------------------
(* The logging thread *)

\* Of the severities SYSLOG_ERROR and SYSLOG_FAILURE.
IsOwnError(m) == m.type = "BBBLOG_MSG" /\ m.severe

TakeLog ==
  /\ logger.at = "waiting" /\ logQueue # <<>>
  /\ logger' = [logger EXCEPT
       !.msg = Head(logQueue),
       !.at = IF IsOwnError(Head(logQueue)) THEN "loading" ELSE "printing"]
  /\ logQueue' = Tail(logQueue)
  /\ UNCHANGED <<published, errorCount, rx, logFile, uart>>

Copy == [logger.msg EXCEPT !.type = "SYSLOG_MSG", !.source = "OVERMIND"]

\* RouteMessage of the copy: the log skips it, the serial broker counts it.
LoadCount ==
  /\ logger.at = "loading"
  /\ LogProcessMessage(Copy)
  /\ logger' = [logger EXCEPT !.count = errorCount, !.at = "storing"]
  /\ UNCHANGED <<published, errorCount, rx, logFile, uart>>

\* Mutant of StoreCount: a report over the quota is not printed either.
StoreCountAndDrop ==
  /\ logger.at = "storing"
  /\ errorCount' = logger.count + 1
  /\ logger' = [logger EXCEPT !.at = IF logger.count >= MaxError THEN "waiting" ELSE "queueing"]
  /\ UNCHANGED <<published, logQueue, rx, logFile, uart>>

StoreCount ==
  /\ logger.at = "storing"
  /\ errorCount' = logger.count + 1
  /\ logger' = [logger EXCEPT !.at = IF logger.count >= MaxError THEN "printing" ELSE "queueing"]
  /\ UNCHANGED <<published, logQueue, rx, logFile, uart>>

QueueCopy ==
  /\ logger.at = "queueing"
  /\ uartTxQueue' = Append(uartTxQueue, Copy)
  /\ logger' = [logger EXCEPT !.at = "printing"]
  /\ UNCHANGED <<published, logQueue, errorCount, tx, rx, logFile, written>>

PrintLog ==
  /\ logger.at = "printing"
  /\ logFile' = Append(logFile, logger.msg)
  /\ logger' = [logger EXCEPT !.at = "waiting", !.msg = NoMsg]
  /\ UNCHANGED <<published, logQueue, errorCount, rx, uart>>

LoggingThread == TakeLog \/ LoadCount \/ StoreCount \/ QueueCopy \/ PrintLog
-----------------------------------------------------------------------------
(* The transmit thread *)

\* The message is written; a short write is only reported.
Send ==
  /\ tx.at = "waiting" /\ uartTxQueue # <<>>
  /\ written' = Append(written, Head(uartTxQueue))
  /\ uartTxQueue' = Tail(uartTxQueue)
  /\ tx' = IF Head(uartTxQueue).type = "SYSLOG_MSG"
           THEN [tx EXCEPT !.msg = Head(uartTxQueue), !.at = "loading"] ELSE tx
  /\ UNCHANGED <<published, errorCount, rx, log>>

LoadSent ==
  /\ tx.at = "loading"
  /\ tx' = [tx EXCEPT !.count = errorCount, !.at = "storing"]
  /\ UNCHANGED <<published, errorCount, rx, log, uartTxQueue, written>>

\* Mutant of StoreSent: the count goes up again.
StoreSentUpwards ==
  /\ tx.at = "storing"
  /\ errorCount' = tx.count + 1
  /\ tx' = [tx EXCEPT !.at = "waiting", !.msg = NoMsg]
  /\ UNCHANGED <<published, rx, log, uartTxQueue, written>>

StoreSent ==
  /\ tx.at = "storing"
  /\ errorCount' = tx.count - 1
  /\ tx' = [tx EXCEPT !.at = "waiting", !.msg = NoMsg]
  /\ UNCHANGED <<published, rx, log, uartTxQueue, written>>

TxThread == Send \/ LoadSent \/ StoreSent
-----------------------------------------------------------------------------
(* The receive thread, and the MCP *)

MCPSends(type, severe) ==
  /\ rx = <<>> /\ published < MaxMessages
  /\ published' = published + 1
  /\ rx' = <<Numbered(type, "MCP", severe)>>
  /\ UNCHANGED <<errorCount, log, uart>>

MCPReturns ==
  /\ rx = <<>>
  /\ \E i \in 1..Len(written) : rx' = <<written[i]>>
  /\ UNCHANGED <<published, errorCount, log, uart>>

\* Mutant of RxThread: returned messages are routed.
RxThreadTrusting ==
  /\ rx # <<>>
  /\ rx' = <<>>
  /\ RouteMessage(rx[1])
  /\ UNCHANGED <<published, errorCount, logger, logFile, tx, written>>

RxThread ==
  /\ rx # <<>>
  /\ rx' = <<>>
  /\ IF rx[1].source # "OVERMIND" THEN RouteMessage(rx[1])
     ELSE UNCHANGED <<logQueue, uartTxQueue>>
  /\ UNCHANGED <<published, errorCount, logger, logFile, tx, written>>

Next ==
  \/ \E severe \in BOOLEAN : Publish("BBBLOG_MSG", severe)
  \/ Publish("OTHER", FALSE)
  \/ LoggingThread
  \/ TxThread
  \/ \E severe \in BOOLEAN : MCPSends("SYSLOG_MSG", severe)
  \/ MCPSends("OTHER", FALSE)
  \/ MCPReturns
  \/ RxThread

Spec == Init /\ [][Next]_vars

\* The logging thread runs; nothing else is needed for the log.
FairSpec == Spec /\ WF_vars(LoggingThread)
-----------------------------------------------------------------------------
\* Every variable has its type; errorCount counts no more than was published,
\* whatever updates are lost.
TypeOK ==
  /\ published \in Nat
  /\ logQueue \in Seq(Message) /\ uartTxQueue \in Seq(Message)
  /\ errorCount \in Int /\ errorCount <= published
  /\ logger \in [at : {"waiting", "loading", "storing", "queueing", "printing"},
                 msg : Message, count : Int]
  /\ tx \in [at : {"waiting", "loading", "storing"}, msg : Message, count : Int]
  /\ rx \in Seq(Message) /\ Len(rx) <= 1
  /\ logFile \in Seq(Message) /\ written \in Seq(Message)

Numbers(s) == {s[i].number : i \in 1..Len(s)}
OnceEach(s) == \A i, j \in 1..Len(s) : s[i].number = s[j].number => i = j

\* A log message is printed once, although an error also travels as a copy that
\* passes the log again when it is forwarded, and comes back when the MCP
\* returns it: "skip forwarded copies".
LoggedOnce == OnceEach(logFile)

Sendable ==
  {m \in Message : /\ m.source = "OVERMIND"
                   /\ m.type = "SYSLOG_MSG" => m.severe
                   /\ m.type # "BBBLOG_MSG"}

\* Each message of the overmind is sent to the MCP once and nothing else is sent:
\* no message of the MCP goes back, none it returns goes round, no log message but
\* an error is forwarded.
SentOnce == OnceEach(written) /\ written \in Seq(Sendable)

OwnErrors(s) == {i \in 1..Len(s) : IsOwnError(s[i])}

\* The first MaxError errors are all forwarded, however the two threads that change
\* errorCount interleave: an update that is lost never closes the quota early.
FirstErrorsForwarded ==
  \A i \in OwnErrors(logFile) :
    Cardinality({j \in OwnErrors(logFile) : j <= i}) <= MaxError
      => logFile[i].number \in Numbers(uartTxQueue) \cup Numbers(written)

\* Every log message queued is printed, forwarded or not.
EveryLogPrinted ==
  \A n \in 1..MaxMessages : n \in Numbers(logQueue) ~> n \in Numbers(logFile)
=============================================================================
