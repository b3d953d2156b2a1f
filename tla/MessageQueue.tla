---------------------------- MODULE MessageQueue ----------------------------
(***************************************************************************)
(* What the broker queues of src/Modules/pubsub/brokerQ.c promise to the   *)
(* subsystems that use them: each queue is an unbounded first-in first-out *)
(* sequence of messages, GetNextMessage hands its oldest message to the    *)
(* one thread that reads the queue, and the message in that thread's hand  *)
(* stays as it was published until the thread is done with it.  No entry,  *)
(* pointer, mutex or condition variable appears here.                      *)
(***************************************************************************)
EXTENDS Sequences

CONSTANTS
  Queues,   \* the queues (brokerQueue, logQueue, autopilotQueue, ...)
  Threads,  \* every thread that publishes or reads
  Reader,   \* the thread that reads each queue
  Msgs,     \* the contents a message may have
  NoMsg     \* "no message in hand"

VARIABLES
  contents, \* contents[q]: the messages published to q and not yet taken
  hand      \* hand[t]: the message t is working on

vars == <<contents, hand>>

Init ==
  /\ contents = [q \in Queues |-> <<>>]
  /\ hand = [t \in Threads |-> NoMsg]

\* CopyMessageToQ, Notify: any thread publishes to any queue.
Put(q, m) ==
  /\ contents' = [contents EXCEPT ![q] = Append(@, m)]
  /\ UNCHANGED hand

\* GetNextMessage: the reader of q takes the oldest message.
Take(q) ==
  /\ contents[q] # <<>>
  /\ hand[Reader[q]] = NoMsg
  /\ contents' = [contents EXCEPT ![q] = Tail(@)]
  /\ hand' = [hand EXCEPT ![Reader[q]] = Head(contents[q])]

\* DoneWithMessage, or handing the entry on with AppendQueueEntry.
Release(t) ==
  /\ hand[t] # NoMsg
  /\ hand' = [hand EXCEPT ![t] = NoMsg]
  /\ UNCHANGED contents

Next ==
  \/ \E q \in Queues : Take(q) \/ \E m \in Msgs : Put(q, m)
  \/ \E t \in Threads : Release(t)

Spec == Init /\ [][Next]_vars
=============================================================================
