------------------------------ MODULE BrokerQ -------------------------------
(***************************************************************************)
(* The message queues of src/Modules/pubsub/brokerQ.c, pointer by pointer. *)
(*                                                                         *)
(* All queues draw their entries from one freelist, guarded by freeMtx;    *)
(* each queue is a singly linked list guarded by its own mutex, with a     *)
(* condition variable that is signalled, after the mutex is released, only *)
(* when the queue was empty.  A thread is an instance of the C code: it    *)
(* publishes (CopyMessageToQ, Notify), or reads the queues it owns         *)
(* (GetNextMessage ... DoneWithMessage), publishing while it holds a       *)
(* message or handing the held entry on (AppendQueueEntry).                *)
(*                                                                         *)
(* A critical section is two steps: one takes the mutex and reads the      *)
(* shared word the code branches on into a local, the other writes and     *)
(* unlocks.  HeapSize bounds the entries calloc will ever return.          *)
(*                                                                         *)
(* order, spare and place are history variables: no guard and no other     *)
(* variable depends on them.                                               *)
(***************************************************************************)
EXTENDS Integers, Sequences, Functions

CONSTANTS
  Queues, Threads, Reader, Msgs, NoMsg,
  NoThread,  \* a mutex nobody holds
  Targets,   \* Targets[t]: the queues thread t publishes to
  HeapSize,  \* entries calloc can return before it returns NULL
  Pre        \* entries BrokerQueueInit puts on the freelist

\* There is a queue (brokerQueue is one).
ASSUME QueuesAssumption == Queues # {}
\* The reader of a queue is one of the threads.
ASSUME ReaderAssumption == Reader \in [Queues -> Threads]
\* Threads publish to queues of the system.
ASSUME TargetsAssumption == Targets \in [Threads -> SUBSET Queues]
\* The preloaded entries came out of the same heap.
ASSUME HeapAssumption == HeapSize \in Nat /\ Pre \in 0..HeapSize
\* The two "none" values are not values of their kind.
ASSUME NoneAssumption == NoMsg \notin Msgs /\ NoThread \notin Threads

Null == 0
Entries == 1..HeapSize
Pointers == Entries \cup {Null}

VARIABLES
  freelist, freeMtx, \* the shared pool and the holder of its mutex
  used,              \* entries 1..used have been allocated
  next, msg,         \* the fields of an entry
  qHead, qTail, mtx, \* the fields of a queue
  pc,                \* where each thread is
  target,            \* the queue it operates on
  entry,             \* its local e
  wake,              \* its local wake
  held,              \* the message it got from GetNextMessage, or Null
  order, spare,      \* history: the entries of each queue, of the freelist
  place              \* history: who owns each entry

heap == <<used, next, msg>>
lists == <<freelist, qHead, qTail>>
locals == <<pc, target, entry, wake, held>>
history == <<order, spare, place>>
vars == <<freelist, freeMtx, used, next, msg, qHead, qTail, mtx,
          pc, target, entry, wake, held, order, spare, place>>

Unallocated == <<"heap", NoThread>>
Spare == <<"spare", NoThread>>
Queued(q) == <<"queue", q>>
With(t) == <<"thread", t>>

\* BrokerQueueInit(Pre) has run: each new entry was pushed on the freelist.
Init ==
  /\ freelist = Pre
  /\ freeMtx = NoThread
  /\ used = Pre
  /\ next = [e \in Entries |-> IF e <= Pre THEN e - 1 ELSE Null]
  /\ msg = [e \in Entries |-> NoMsg]
  /\ qHead = [q \in Queues |-> Null]
  /\ qTail = [q \in Queues |-> Null]
  /\ mtx = [q \in Queues |-> NoThread]
  /\ pc = [t \in Threads |-> "idle"]
  /\ target = [t \in Threads |-> CHOOSE q \in Queues : TRUE]
  /\ entry = [t \in Threads |-> Null]
  /\ wake = [t \in Threads |-> FALSE]
  /\ held = [t \in Threads |-> Null]
  /\ order = [q \in Queues |-> <<>>]
  /\ spare = [i \in 1..Pre |-> Pre + 1 - i]
  /\ place = [e \in Entries |-> IF e <= Pre THEN Spare ELSE Unallocated]

\* Where a thread goes on once it has published.
Resume(t) == IF held[t] = Null THEN "idle" ELSE "working"

-----------------------------------------------------------------------------
(* GetFreeEntry *)

\* A thread starts to publish to q: outside any handler, or in the middle of one.
Publish(t, q) ==
  /\ pc[t] \in {"idle", "working"}
  /\ q \in Targets[t]
  /\ pc' = [pc EXCEPT ![t] = "getFree"]
  /\ target' = [target EXCEPT ![t] = q]
  /\ UNCHANGED <<heap, lists, freeMtx, mtx, entry, wake, held, history>>

LockFreeToGet(t) ==
  /\ pc[t] = "getFree"
  /\ freeMtx = NoThread
  /\ freeMtx' = t
  /\ entry' = [entry EXCEPT ![t] = freelist]
  /\ pc' = [pc EXCEPT ![t] = "popping"]
  /\ UNCHANGED <<heap, lists, mtx, target, wake, held, history>>

PopFree(t) ==
  LET e == entry[t] IN
  /\ pc[t] = "popping"
  /\ e # Null
  /\ freelist' = next[e]
  /\ next' = [next EXCEPT ![e] = Null]
  /\ freeMtx' = NoThread
  /\ pc' = [pc EXCEPT ![t] = "filling"]
  /\ spare' = Tail(spare)
  /\ place' = [place EXCEPT ![e] = With(t)]
  /\ UNCHANGED <<used, msg, qHead, qTail, mtx, target, entry, wake, held, order>>

\* Mutant of AllocEntry: the result of calloc is used unchecked.
AllocUnchecked(t) ==
  /\ pc[t] = "popping"
  /\ entry[t] = Null
  /\ used' = used + 1
  /\ entry' = [entry EXCEPT ![t] = used + 1]
  /\ freeMtx' = NoThread
  /\ pc' = [pc EXCEPT ![t] = "filling"]
  /\ UNCHANGED <<next, msg, lists, mtx, target, wake, held, history>>

\* NewQueueEntry, called with freeMtx held: calloc succeeds.
AllocEntry(t) ==
  /\ pc[t] = "popping"
  /\ entry[t] = Null
  /\ used < HeapSize
  /\ used' = used + 1
  /\ entry' = [entry EXCEPT ![t] = used + 1]
  /\ freeMtx' = NoThread
  /\ pc' = [pc EXCEPT ![t] = "filling"]
  /\ place' = [place EXCEPT ![used + 1] = With(t)]
  /\ UNCHANGED <<next, msg, lists, mtx, target, wake, held, order, spare>>

\* calloc returns NULL: LogError publishes a message of its own, through
\* _LogMessage, RouteMessage, LogProcessMessage and CopyMessageToQ, and so
\* calls GetFreeEntry again, which locks the freeMtx this thread holds.  A
\* PTHREAD_MUTEX_INITIALIZER mutex is not recursive: the thread stops here.
NoMemory(t) ==
  /\ pc[t] = "popping"
  /\ entry[t] = Null
  /\ used = HeapSize
  /\ pc' = [pc EXCEPT ![t] = "selfLocked"]
  /\ UNCHANGED <<heap, lists, freeMtx, mtx, target, entry, wake, held, history>>

-----------------------------------------------------------------------------
(* CopyMessageToQ and AppendQueueEntry *)

\* The memcpy of CopyMessageToQ, into an entry only this thread knows.
Fill(t, m) ==
  /\ pc[t] = "filling"
  /\ msg' = [msg EXCEPT ![entry[t]] = m]
  /\ pc' = [pc EXCEPT ![t] = "appending"]
  /\ UNCHANGED <<used, next, lists, freeMtx, mtx, target, entry, wake, held, history>>

\* Mutant of Forward: the reader goes on using the entry it handed on.
ForwardKeepsHeld(t, q) ==
  /\ pc[t] = "working"
  /\ q \in Targets[t]
  /\ pc' = [pc EXCEPT ![t] = "appending"]
  /\ target' = [target EXCEPT ![t] = q]
  /\ entry' = [entry EXCEPT ![t] = held[t]]
  /\ UNCHANGED <<heap, lists, freeMtx, mtx, wake, held, history>>

\* A reader hands the entry it holds on to another queue (navigator.c does)
\* instead of calling DoneWithMessage.
Forward(t, q) ==
  /\ pc[t] = "working"
  /\ q \in Targets[t]
  /\ pc' = [pc EXCEPT ![t] = "appending"]
  /\ target' = [target EXCEPT ![t] = q]
  /\ entry' = [entry EXCEPT ![t] = held[t]]
  /\ held' = [held EXCEPT ![t] = Null]
  /\ UNCHANGED <<heap, lists, freeMtx, mtx, wake, history>>

\* Mutant of LockQueueToPut: AppendQueueEntry tests qHead without the mutex.
PutUnlocked(t) ==
  LET q == target[t] IN
  /\ pc[t] = "appending"
  /\ mtx' = [mtx EXCEPT ![q] = t]
  /\ next' = [next EXCEPT ![entry[t]] = Null]
  /\ wake' = [wake EXCEPT ![t] = (qHead[q] = Null)]
  /\ pc' = [pc EXCEPT ![t] = "linking"]
  /\ UNCHANGED <<used, msg, lists, freeMtx, target, entry, held, history>>

LockQueueToPut(t) ==
  LET q == target[t] IN
  /\ pc[t] = "appending"
  /\ mtx[q] = NoThread
  /\ mtx' = [mtx EXCEPT ![q] = t]
  /\ next' = [next EXCEPT ![entry[t]] = Null]
  /\ wake' = [wake EXCEPT ![t] = (qHead[q] = Null)]
  /\ pc' = [pc EXCEPT ![t] = "linking"]
  /\ UNCHANGED <<used, msg, lists, freeMtx, target, entry, held, history>>

\* Mutant of LinkEntry: signals when the queue was not empty.
LinkEntryWakesBusy(t) ==
  LET q == target[t]
      e == entry[t]
  IN
  /\ pc[t] = "linking"
  /\ IF wake[t]
     THEN qHead' = [qHead EXCEPT ![q] = e] /\ UNCHANGED next
     ELSE next' = [next EXCEPT ![qTail[q]] = e] /\ UNCHANGED qHead
  /\ qTail' = [qTail EXCEPT ![q] = e]
  /\ mtx' = [mtx EXCEPT ![q] = NoThread]
  /\ pc' = [pc EXCEPT ![t] = IF wake[t] THEN Resume(t) ELSE "signalling"]
  /\ entry' = [entry EXCEPT ![t] = Null]
  /\ order' = [order EXCEPT ![q] = Append(@, e)]
  /\ place' = [place EXCEPT ![e] = Queued(q)]
  /\ UNCHANGED <<used, msg, freelist, freeMtx, target, wake, held, spare>>

LinkEntry(t) ==
  LET q == target[t]
      e == entry[t]
  IN
  /\ pc[t] = "linking"
  /\ IF wake[t]
     THEN qHead' = [qHead EXCEPT ![q] = e] /\ UNCHANGED next
     ELSE next' = [next EXCEPT ![qTail[q]] = e] /\ UNCHANGED qHead
  /\ qTail' = [qTail EXCEPT ![q] = e]
  /\ mtx' = [mtx EXCEPT ![q] = NoThread]
  /\ pc' = [pc EXCEPT ![t] = IF wake[t] THEN "signalling" ELSE Resume(t)]
  /\ entry' = [entry EXCEPT ![t] = Null]
  /\ order' = [order EXCEPT ![q] = Append(@, e)]
  /\ place' = [place EXCEPT ![e] = Queued(q)]
  /\ UNCHANGED <<used, msg, freelist, freeMtx, target, wake, held, spare>>

Waiting(t, q) == pc[t] = "waiting" /\ target[t] = q

\* Mutant of Signal: the signal goes to a condition variable nobody waits on.
SignalNobody(t) ==
  /\ pc[t] = "signalling"
  /\ pc' = [pc EXCEPT ![t] = Resume(t)]
  /\ UNCHANGED <<heap, lists, freeMtx, mtx, target, entry, wake, held, history>>

\* pthread_cond_signal: wakes the reader if it waits, does nothing otherwise.
Signal(t) ==
  LET q == target[t]
      r == Reader[q]
  IN
  /\ pc[t] = "signalling"
  /\ pc' = IF Waiting(r, q)
           THEN [pc EXCEPT ![t] = Resume(t), ![r] = "woken"]
           ELSE [pc EXCEPT ![t] = Resume(t)]
  /\ UNCHANGED <<heap, lists, freeMtx, mtx, target, entry, wake, held, history>>

-----------------------------------------------------------------------------
(* GetNextMessage and DoneWithMessage *)

\* Lock, and read the head for the test of the while loop.
LockQueueToTake(t, q) ==
  /\ Reader[q] = t
  /\ pc[t] = "idle" \/ (pc[t] = "woken" /\ target[t] = q)
  /\ mtx[q] = NoThread
  /\ mtx' = [mtx EXCEPT ![q] = t]
  /\ target' = [target EXCEPT ![t] = q]
  /\ entry' = [entry EXCEPT ![t] = qHead[q]]
  /\ pc' = [pc EXCEPT ![t] = "taking"]
  /\ UNCHANGED <<heap, lists, freeMtx, wake, held, history>>

\* pthread_cond_wait releases the mutex and sleeps, atomically.
WaitForMessage(t) ==
  /\ pc[t] = "taking"
  /\ entry[t] = Null
  /\ mtx' = [mtx EXCEPT ![target[t]] = NoThread]
  /\ pc' = [pc EXCEPT ![t] = "waiting"]
  /\ UNCHANGED <<heap, lists, freeMtx, target, entry, wake, held, history>>

\* pthread_cond_wait may return without a signal.
SpuriousWakeup(t) ==
  /\ pc[t] = "waiting"
  /\ pc' = [pc EXCEPT ![t] = "woken"]
  /\ UNCHANGED <<heap, lists, freeMtx, mtx, target, entry, wake, held, history>>

\* Mutant of UnlinkEntry: qTail is not reset when the queue empties.
UnlinkKeepsTail(t) ==
  LET q == target[t]
      e == entry[t]
  IN
  /\ pc[t] = "taking"
  /\ e # Null
  /\ qHead' = [qHead EXCEPT ![q] = next[e]]
  /\ next' = [next EXCEPT ![e] = Null]
  /\ mtx' = [mtx EXCEPT ![q] = NoThread]
  /\ held' = [held EXCEPT ![t] = e]
  /\ entry' = [entry EXCEPT ![t] = Null]
  /\ pc' = [pc EXCEPT ![t] = "working"]
  /\ order' = [order EXCEPT ![q] = Tail(@)]
  /\ place' = [place EXCEPT ![e] = With(t)]
  /\ UNCHANGED <<used, msg, qTail, freelist, freeMtx, target, wake, spare>>

UnlinkEntry(t) ==
  LET q == target[t]
      e == entry[t]
  IN
  /\ pc[t] = "taking"
  /\ e # Null
  /\ qHead' = [qHead EXCEPT ![q] = next[e]]
  /\ qTail' = [qTail EXCEPT ![q] = IF next[e] = Null THEN Null ELSE @]
  /\ next' = [next EXCEPT ![e] = Null]
  /\ mtx' = [mtx EXCEPT ![q] = NoThread]
  /\ held' = [held EXCEPT ![t] = e]
  /\ entry' = [entry EXCEPT ![t] = Null]
  /\ pc' = [pc EXCEPT ![t] = "working"]
  /\ order' = [order EXCEPT ![q] = Tail(@)]
  /\ place' = [place EXCEPT ![e] = With(t)]
  /\ UNCHANGED <<used, msg, freelist, freeMtx, target, wake, spare>>

DoneWithMessage(t) ==
  /\ pc[t] = "working"
  /\ pc' = [pc EXCEPT ![t] = "addFree"]
  /\ UNCHANGED <<heap, lists, freeMtx, mtx, target, entry, wake, held, history>>

\* AddToFreelist
LockFreeToAdd(t) ==
  /\ pc[t] = "addFree"
  /\ freeMtx = NoThread
  /\ freeMtx' = t
  /\ next' = [next EXCEPT ![held[t]] = freelist]
  /\ pc' = [pc EXCEPT ![t] = "pushing"]
  /\ UNCHANGED <<used, msg, lists, mtx, target, entry, wake, held, history>>

PushFree(t) ==
  /\ pc[t] = "pushing"
  /\ freelist' = held[t]
  /\ freeMtx' = NoThread
  /\ held' = [held EXCEPT ![t] = Null]
  /\ pc' = [pc EXCEPT ![t] = "idle"]
  /\ spare' = <<held[t]>> \o spare
  /\ place' = [place EXCEPT ![held[t]] = Spare]
  /\ UNCHANGED <<heap, qHead, qTail, mtx, target, entry, wake, order>>

-----------------------------------------------------------------------------
\* The steps a thread takes without waiting for a mutex.
Running(t) ==
  \/ PopFree(t) \/ AllocEntry(t) \/ NoMemory(t)
  \/ \E m \in Msgs : Fill(t, m)
  \/ LinkEntry(t) \/ Signal(t)
  \/ WaitForMessage(t) \/ UnlinkEntry(t) \/ PushFree(t)

Next == \E t \in Threads :
  \/ Running(t)
  \/ LockFreeToGet(t) \/ LockQueueToPut(t) \/ LockFreeToAdd(t)
  \/ DoneWithMessage(t) \/ SpuriousWakeup(t)
  \/ \E q \in Queues : Publish(t, q) \/ Forward(t, q) \/ LockQueueToTake(t, q)

\* The scheduler runs every runnable thread, a mutex that is released again
\* and again is eventually obtained by each thread waiting for it, and a
\* handler does not publish for ever before it is done with its message.
Fairness == \A t \in Threads :
  /\ WF_vars(Running(t))
  /\ SF_vars(LockFreeToGet(t))
  /\ SF_vars(LockFreeToAdd(t))
  /\ SF_vars(LockQueueToPut(t))
  /\ SF_vars(DoneWithMessage(t))
  /\ \A q \in Queues : SF_vars(LockQueueToTake(t, q))

Spec == Init /\ [][Next]_vars
FairSpec == Spec /\ Fairness
-----------------------------------------------------------------------------
Locations == {"idle", "working", "getFree", "popping", "selfLocked", "filling",
              "appending", "linking", "signalling", "taking", "waiting",
              "woken", "addFree", "pushing"}

Places == {Unallocated, Spare} \cup {Queued(q) : q \in Queues}
                               \cup {With(t) : t \in Threads}

\* Every variable has its type; the history variables too.
TypeOK ==
  /\ freelist \in Pointers
  /\ freeMtx \in Threads \cup {NoThread}
  /\ used \in 0..HeapSize
  /\ next \in [Entries -> Pointers]
  /\ msg \in [Entries -> Msgs \cup {NoMsg}]
  /\ qHead \in [Queues -> Pointers]
  /\ qTail \in [Queues -> Pointers]
  /\ mtx \in [Queues -> Threads \cup {NoThread}]
  /\ pc \in [Threads -> Locations]
  /\ target \in [Threads -> Queues]
  /\ entry \in [Threads -> Pointers]
  /\ wake \in [Threads -> BOOLEAN]
  /\ held \in [Threads -> Pointers]
  /\ order \in [Queues -> Seq(Entries)]
  /\ spare \in Seq(Entries)
  /\ place \in [Entries -> Places]

\* Following the next fields n from head visits the entries of s, and ends.
IsList(n, head, s) ==
  /\ head = IF s = <<>> THEN Null ELSE s[1]
  /\ \A i \in 1..Len(s) : n[s[i]] = IF i = Len(s) THEN Null ELSE s[i + 1]

\* The linked structures of brokerQ.c are proper lists whenever no thread is
\* between the two writes that change one: the freelist and every queue visit
\* exactly their entries and end in NULL, and qTail is the last entry of the
\* queue.  A lost update of freelist, qHead, qTail or a next field (entries
\* leaked, a cycle, a message skipped) breaks it.
ListsWellFormed ==
  /\ IsList(next, freelist, spare)
  /\ \A q \in Queues :
       /\ IsList(next, qHead[q], order[q])
       /\ qTail[q] = IF order[q] = <<>> THEN Null ELSE order[q][Len(order[q])]

\* The entries at p, according to pl, are those of s, once each.
Holds(pl, s, p) == IsInjective(s) /\ Range(s) = {e \in Entries : pl[e] = p}

\* The entries a thread owns: its message in hand, the one it is publishing.
Private(t) ==
  ({held[t]} \ {Null}) \cup
  (IF pc[t] \in {"filling", "appending", "linking"} THEN {entry[t]} ELSE {})

\* Every entry ever allocated is in exactly one place, once: on the freelist,
\* in one queue, or owned by one thread.  Nothing leaks out of the pool and no
\* entry is reused while a queue or a reader still refers to it.
OneOwner ==
  /\ Holds(place, spare, Spare)
  /\ \A q \in Queues : Holds(place, order[q], Queued(q))
  /\ \A t \in Threads : Private(t) = {e \in Entries : place[e] = With(t)}
  /\ {e \in Entries : place[e] = Unallocated} = (used + 1)..HeapSize

\* The wake flag of AppendQueueEntry suffices: when a reader sleeps in
\* pthread_cond_wait on a queue that has a message, some thread is on its way
\* to signal it, although the signal comes after the unlock and is skipped
\* when the queue was not empty.
NoLostWakeup ==
  \A q \in Queues : Waiting(Reader[q], q) /\ qHead[q] # Null =>
    \E t \in Threads : pc[t] = "signalling" /\ target[t] = q

\* The abstract queues: the messages of the queued entries, and of the entry
\* each reader holds.
Contents == [q \in Queues |-> [i \in 1..Len(order[q]) |-> msg[order[q][i]]]]
Hand == [t \in Threads |-> IF held[t] = Null THEN NoMsg ELSE msg[held[t]]]

MQ == INSTANCE MessageQueue WITH contents <- Contents, hand <- Hand

\* Every step of brokerQ.c is a Put, a Take or a Release, or leaves the
\* abstract queues alone: first in first out, each message taken once, by the
\* queue's reader, as it was published.
FifoQueues == MQ!Spec

MemoryExhausted == \E t \in Threads : pc[t] = "selfLocked"

\* Unless the heap is exhausted, a message in a queue is eventually taken by
\* its reader: neither a mutex nor the condition variable holds it for ever.
QueuesDrain ==
  [](~MemoryExhausted) =>
    \A q \in Queues, e \in Entries :
      place[e] = Queued(q) ~> place[e] # Queued(q)

\* GetFreeEntry returns NULL when there is no memory, so that CopyMessageToQ
\* returns -1 and Notify prints "no memory": no thread stops in the allocator.
FailsCleanly == ~MemoryExhausted
=============================================================================
