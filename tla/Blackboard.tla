----------------------------- MODULE Blackboard -----------------------------
(***************************************************************************)
(* The blackboard (Modules/blackboard/blackboard.c): one linked list of    *)
(* time-stamped entries per message type, newest first, a free list, and   *)
(* one mutex.  A message thread saves what is published, a collector thread*)
(* wakes every second to thin a list out, and readers take the latest entry*)
(* that is old enough and give it back with bbDoneWithData.                *)
(*                                                                         *)
(* What the mutex does not protect is split into its steps: the in-place   *)
(* update of the tick entry, and accessCount, which bbGetMessage increments*)
(* under the mutex and bbDoneWithData decrements without it.  The          *)
(* collector's section takes one step per entry; the other sections touch  *)
(* only what the mutex does protect, and are one step each.                *)
(*                                                                         *)
(* The numbers of the message types are not in the repository: Zeroth is   *)
(* the type whose number is 0, the only one that the collector looks at    *)
(* (messageType is never changed) and the only one that bbGetMessage       *)
(* refuses.  It may be one of the saved types or not.                      *)
(***************************************************************************)
EXTENDS Integers

CONSTANTS Saved,      \* types saved message by message: BATTERY, ENVIRONMENT, ...
          TickType,   \* TICK_1S: its entry is updated in place
          Zeroth,     \* the type numbered 0
          Entries,    \* memory for entries
          Null,
          Readers, Messenger, Collector, Nobody,
          Lookbacks,  \* how far back readers ask, in seconds
          Fresh, Minute, Hour, Day,       \* 10, 60, 3600 and 24 * 3600 seconds
          Instants,           \* bound: the times at which anything happens
          MaxAccess           \* bound: no access begins on a count further from 0

Types == Saved \cup {TickType, Zeroth}

\* calloc leaves the stamp of a fresh entry 0: long ago by any clock.
ASSUME ClockAssumption ==
  /\ {Fresh, Minute, Hour, Day, MaxAccess} \subseteq Nat
  /\ Instants \subseteq Nat /\ \A t \in Instants : Day <= t
  /\ Lookbacks \subseteq Nat
  /\ 0 < Fresh /\ Fresh < Minute /\ Minute < Hour /\ Hour < Day

ASSUME NamesAssumption ==
  /\ Null \notin Entries
  /\ TickType \notin Saved /\ TickType # Zeroth
  /\ {Messenger, Collector, Nobody} \cap Readers = {}
  /\ Messenger # Collector /\ Nobody \notin {Messenger, Collector}
  /\ "unallocated" \notin Types /\ "free" \notin Types /\ "messenger" \notin Types

VARIABLES rawBlackboardData, bbFreelist, bbFreeMtx,
          next, timeStamp, accessCount,   \* the fields of an entry
          place,      \* history: the list an entry belongs to, or who has it
          now,
          messenger, collector, reader    \* where each thread is, and its locals

vars == <<rawBlackboardData, bbFreelist, bbFreeMtx, next, timeStamp, accessCount,
          place, now, messenger, collector, reader>>

Pointer == Entries \cup {Null}

-----------------------------------------------------------------------------
(* Memory: BlackboardInit preloads the free list with one entry or none    *)
(* here (BB_MEMORY_PRELOAD is 1800 of them).                               *)

Idle == [at |-> "idle", type |-> TickType, e |-> Null]
Asleep == [at |-> "asleep", d |-> Null, parent |-> Null, last |-> 0, now |-> 0]
Away == [at |-> "away", e |-> Null, type |-> TickType, stamp |-> 0, count |-> 0]

Init ==
  /\ rawBlackboardData = [t \in Types |-> Null]
  /\ bbFreelist \in Pointer
  /\ bbFreeMtx = Nobody
  /\ next = [e \in Entries |-> Null]
  /\ timeStamp = [e \in Entries |-> 0]
  /\ accessCount = [e \in Entries |-> 0]
  /\ place = [e \in Entries |-> IF e = bbFreelist THEN "free" ELSE "unallocated"]
  /\ now \in Instants /\ \A t \in Instants : now <= t
  /\ messenger = Idle
  /\ collector = Asleep
  /\ reader = [r \in Readers |-> Away]

Unlocked == bbFreeMtx = Nobody

-----------------------------------------------------------------------------
(* BlackboardMessageThread: the messages come from its queue (brokerQ);    *)
(* PINGs, settings and options change nothing here.                        *)

\* Mutant of ReceiveTick: every tick is saved as an entry of its own.
ReceiveEveryTick ==
  /\ messenger.at = "idle"
  /\ messenger' = [at |-> "save", type |-> TickType, e |-> Null]
  /\ UNCHANGED <<rawBlackboardData, bbFreelist, bbFreeMtx, next, timeStamp, accessCount,
                 place, now, collector, reader>>

\* The tick's branch: look at the list without the mutex, and either
\* overwrite the entry found or save the message like any other.
ReceiveTick ==
  /\ messenger.at = "idle"
  /\ messenger' = IF rawBlackboardData[TickType] # Null
                  THEN [at |-> "update", type |-> TickType, e |-> rawBlackboardData[TickType]]
                  ELSE [at |-> "save", type |-> TickType, e |-> Null]
  /\ UNCHANGED <<rawBlackboardData, bbFreelist, bbFreeMtx, next, timeStamp, accessCount,
                 place, now, collector, reader>>

UpdateTick ==
  /\ messenger.at = "update"
  /\ timeStamp' = [timeStamp EXCEPT ![messenger.e] = now]
  /\ messenger' = Idle
  /\ UNCHANGED <<rawBlackboardData, bbFreelist, bbFreeMtx, next, accessCount,
                 place, now, collector, reader>>

Unallocated == {e \in Entries : place[e] = "unallocated"}

\* A message of type t is to be saved.
Saving(t) ==
  \/ messenger.at = "idle" /\ t \in Saved
  \/ messenger.at = "save" /\ t = TickType

\* From the free list, or a new entry, or "No memory": the message is dropped.
bbGetFreeEntry(t) ==
  /\ Saving(t) /\ Unlocked
  /\ \/ /\ bbFreelist # Null
        /\ messenger' = [at |-> "fill", type |-> t, e |-> bbFreelist]
        /\ bbFreelist' = next[bbFreelist]
        /\ place' = [place EXCEPT ![bbFreelist] = "messenger"]
     \/ /\ bbFreelist = Null
        /\ \E e \in Unallocated :
             /\ messenger' = [at |-> "fill", type |-> t, e |-> e]
             /\ place' = [place EXCEPT ![e] = "messenger"]
        /\ UNCHANGED bbFreelist
     \/ /\ bbFreelist = Null /\ Unallocated = {}
        /\ messenger' = Idle
        /\ UNCHANGED <<bbFreelist, place>>
  /\ UNCHANGED <<rawBlackboardData, bbFreeMtx, next, timeStamp, accessCount,
                 now, collector, reader>>

FillEntry ==
  /\ messenger.at = "fill"
  /\ timeStamp' = [timeStamp EXCEPT ![messenger.e] = now]
  /\ accessCount' = [accessCount EXCEPT ![messenger.e] = 0]
  /\ messenger' = [messenger EXCEPT !.at = "add"]
  /\ UNCHANGED <<rawBlackboardData, bbFreelist, bbFreeMtx, next,
                 place, now, collector, reader>>

bbAddToMsgList ==
  /\ messenger.at = "add" /\ Unlocked
  /\ LET t == messenger.type
         e == messenger.e
     IN /\ next' = [next EXCEPT ![e] = rawBlackboardData[t]]
        /\ rawBlackboardData' = [rawBlackboardData EXCEPT ![t] = e]
        /\ place' = [place EXCEPT ![e] = t]
  /\ messenger' = Idle
  /\ UNCHANGED <<bbFreelist, bbFreeMtx, timeStamp, accessCount, now, collector, reader>>

-----------------------------------------------------------------------------
(* BlackboardThread: the collector.                                        *)

Second(t) == t % Minute
MinuteOf(t) == (t % Hour) \div Minute
HourOf(t) == (t % Day) \div Hour

SameHour(s, t) == HourOf(s) = HourOf(t)
SameMinute(s, t) == SameHour(s, t) /\ MinuteOf(s) = MinuteOf(t)
SameSecond(s, t) == SameMinute(s, t) /\ Second(s) = Second(t)

\* Whether an entry shares its slot of the history with the stamp `last`: by
\* the second, the minute or the hour, as it grows older.
SameSlot(stamp, last, age) ==
  \/ age < Minute /\ SameSecond(last, stamp)
  \/ Minute <= age /\ age < Hour /\ SameMinute(last, stamp)
  \/ Hour <= age /\ age < Day /\ SameHour(last, stamp)

\* Mutant of Discard: the history is given up after an hour.
DiscardAfterHour(e) ==
  LET age == collector.now - timeStamp[e]
  IN Fresh <= age /\ (age >= Hour \/ SameSlot(timeStamp[e], collector.last, age))

Discard(e) ==
  LET age == collector.now - timeStamp[e]
  IN Fresh <= age /\ (age >= Day \/ SameSlot(timeStamp[e], collector.last, age))

Discardable(e) == Discard(e) /\ accessCount[e] = 0

\* The clock is read before the mutex is taken.
CollectorWakes ==
  /\ collector.at = "asleep"
  /\ collector' = [Asleep EXCEPT !.at = "lock", !.now = now]
  /\ UNCHANGED <<rawBlackboardData, bbFreelist, bbFreeMtx, next, timeStamp, accessCount,
                 place, now, messenger, reader>>

CollectorLocks ==
  /\ collector.at = "lock" /\ Unlocked
  /\ bbFreeMtx' = Collector
  /\ LET d == rawBlackboardData[Zeroth]
     IN collector' = [collector EXCEPT !.at = "walk", !.d = d,
                                       !.last = IF d = Null THEN 0 ELSE timeStamp[d]]
  /\ UNCHANGED <<rawBlackboardData, bbFreelist, next, timeStamp, accessCount,
                 place, now, messenger, reader>>

\* Mutant of DiscardEntry: the entry before the discarded one is not relinked.
DiscardUnlinked ==
  /\ collector.at = "walk" /\ collector.d # Null
  /\ LET d == collector.d
     IN /\ Discardable(d)
        /\ next' = [next EXCEPT ![d] = bbFreelist]
        /\ bbFreelist' = d
        /\ place' = [place EXCEPT ![d] = "free"]
        /\ collector' = [collector EXCEPT !.d = next[d]]
  /\ UNCHANGED <<rawBlackboardData, bbFreeMtx, timeStamp, accessCount, now, messenger, reader>>

\* _bbAddToFreelist has overwritten d->next when the loop follows it: the walk
\* goes on in the free list.
DiscardEntry ==
  /\ collector.at = "walk" /\ collector.d # Null
  /\ LET d == collector.d
         parent == collector.parent
     IN /\ Discardable(d)
        /\ IF parent # Null
           THEN /\ next' = [next EXCEPT ![parent] = next[d], ![d] = bbFreelist]
                /\ UNCHANGED rawBlackboardData
           ELSE /\ rawBlackboardData' = [rawBlackboardData EXCEPT ![Zeroth] = next[d]]
                /\ next' = [next EXCEPT ![d] = bbFreelist]
        /\ bbFreelist' = d
        /\ place' = [place EXCEPT ![d] = "free"]
        /\ collector' = [collector EXCEPT !.d = bbFreelist]
  /\ UNCHANGED <<bbFreeMtx, timeStamp, accessCount, now, messenger, reader>>

KeepEntry ==
  /\ collector.at = "walk" /\ collector.d # Null
  /\ LET d == collector.d
     IN /\ ~Discardable(d)
        /\ collector' = [collector EXCEPT !.parent = d, !.last = timeStamp[d],
                                          !.d = next[d]]
  /\ UNCHANGED <<rawBlackboardData, bbFreelist, bbFreeMtx, next, timeStamp, accessCount,
                 place, now, messenger, reader>>

CollectorUnlocks ==
  /\ collector.at = "walk" /\ collector.d = Null
  /\ bbFreeMtx' = Nobody
  /\ collector' = Asleep
  /\ UNCHANGED <<rawBlackboardData, bbFreelist, next, timeStamp, accessCount,
                 place, now, messenger, reader>>

-----------------------------------------------------------------------------
(* Readers, with the entry they hold between bbGetMessage and              *)
(* bbDoneWithData.  type and stamp are what they found.                    *)

\* Mutant of Readable: the number 0 is accepted (messageType < 0 is refused).
ReadableAll == Types

\* bbGetMessage refuses the number 0.
Readable == Types \ {Zeroth}

bbGetMessage(r) ==
  /\ reader[r].at = "away" /\ Unlocked
  /\ \A e \in Entries : -MaxAccess <= accessCount[e] /\ accessCount[e] <= MaxAccess
  /\ bbFreeMtx' = r
  /\ \E t \in Readable, back \in Lookbacks :
       reader' = [reader EXCEPT ![r] = [at |-> "walk", e |-> rawBlackboardData[t], type |-> t,
                                        stamp |-> now - back, count |-> 0]]
  /\ UNCHANGED <<rawBlackboardData, bbFreelist, next, timeStamp, accessCount,
                 place, now, messenger, collector>>

\* Mutant of TooLate: an entry of the very second required is skipped too.
TooLateOrJust(r) == reader[r].e # Null /\ timeStamp[reader[r].e] >= reader[r].stamp

\* An entry later than the time required.
TooLate(r) == reader[r].e # Null /\ timeStamp[reader[r].e] > reader[r].stamp

SkipEntry(r) ==
  /\ reader[r].at = "walk" /\ TooLate(r)
  /\ reader' = [reader EXCEPT ![r].e = next[@]]
  /\ UNCHANGED <<rawBlackboardData, bbFreelist, bbFreeMtx, next, timeStamp, accessCount,
                 place, now, messenger, collector>>

\* Mutant of FindNothing: the early end of the walk leaves the mutex taken.
FindNothingLocked(r) ==
  /\ reader[r].at = "walk" /\ reader[r].e = Null
  /\ reader' = [reader EXCEPT ![r] = Away]
  /\ UNCHANGED <<rawBlackboardData, bbFreelist, bbFreeMtx, next, timeStamp, accessCount,
                 place, now, messenger, collector>>

FindNothing(r) ==
  /\ reader[r].at = "walk" /\ reader[r].e = Null
  /\ bbFreeMtx' = Nobody
  /\ reader' = [reader EXCEPT ![r] = Away]
  /\ UNCHANGED <<rawBlackboardData, bbFreelist, next, timeStamp, accessCount,
                 place, now, messenger, collector>>

\* accessCount++ is a load and a store, both under the mutex...
FindEntry(r) ==
  /\ reader[r].at = "walk" /\ reader[r].e # Null /\ ~TooLate(r)
  /\ reader' = [reader EXCEPT ![r].at = "count",
                              ![r].stamp = timeStamp[reader[r].e],
                              ![r].count = accessCount[reader[r].e]]
  /\ UNCHANGED <<rawBlackboardData, bbFreelist, bbFreeMtx, next, timeStamp, accessCount,
                 place, now, messenger, collector>>

CountAccess(r) ==
  /\ reader[r].at = "count"
  /\ accessCount' = [accessCount EXCEPT ![reader[r].e] = reader[r].count + 1]
  /\ bbFreeMtx' = Nobody
  /\ reader' = [reader EXCEPT ![r].at = "holding", ![r].count = 0]
  /\ UNCHANGED <<rawBlackboardData, bbFreelist, next, timeStamp,
                 place, now, messenger, collector>>

\* ... and accessCount-- another load and store, without it.
bbDoneWithData(r) ==
  /\ reader[r].at = "holding"
  /\ reader' = [reader EXCEPT ![r].at = "release", ![r].count = accessCount[reader[r].e]]
  /\ UNCHANGED <<rawBlackboardData, bbFreelist, bbFreeMtx, next, timeStamp, accessCount,
                 place, now, messenger, collector>>

StoreRelease(r) ==
  /\ reader[r].at = "release"
  /\ accessCount' = [accessCount EXCEPT ![reader[r].e] = reader[r].count - 1]
  /\ reader' = [reader EXCEPT ![r] = Away]
  /\ UNCHANGED <<rawBlackboardData, bbFreelist, bbFreeMtx, next, timeStamp,
                 place, now, messenger, collector>>

\* The latest tick, read without the mutex and without counting the access.
bbGetActiveNotifications(r) ==
  /\ reader[r].at = "away"
  /\ rawBlackboardData[TickType] # Null
  /\ reader' = [reader EXCEPT ![r] = [Away EXCEPT !.at = "peek",
                                                  !.e = rawBlackboardData[TickType]]]
  /\ UNCHANGED <<rawBlackboardData, bbFreelist, bbFreeMtx, next, timeStamp, accessCount,
                 place, now, messenger, collector>>

ReadTick(r) ==
  /\ reader[r].at = "peek"
  /\ reader' = [reader EXCEPT ![r] = Away]
  /\ UNCHANGED <<rawBlackboardData, bbFreelist, bbFreeMtx, next, timeStamp, accessCount,
                 place, now, messenger, collector>>

-----------------------------------------------------------------------------
Tick ==
  /\ now' \in Instants /\ now' > now
  /\ UNCHANGED <<rawBlackboardData, bbFreelist, bbFreeMtx, next, timeStamp, accessCount,
                 place, messenger, collector, reader>>

MessengerStep ==
  \/ ReceiveTick \/ UpdateTick
  \/ (\E t \in Types : bbGetFreeEntry(t)) \/ FillEntry \/ bbAddToMsgList

CollectorStep ==
  CollectorWakes \/ CollectorLocks \/ DiscardEntry \/ KeepEntry \/ CollectorUnlocks

ReaderStep(r) ==
  \/ bbGetMessage(r) \/ SkipEntry(r) \/ FindNothing(r) \/ FindEntry(r) \/ CountAccess(r)
  \/ bbDoneWithData(r) \/ StoreRelease(r)
  \/ bbGetActiveNotifications(r) \/ ReadTick(r)

Next == Tick \/ MessengerStep \/ CollectorStep \/ (\E r \in Readers : ReaderStep(r))

Spec == Init /\ [][Next]_vars

-----------------------------------------------------------------------------
(* Properties.                                                             *)

Places == Types \cup {"unallocated", "free", "messenger"}

MessengerStates ==
  [at : {"idle", "update", "save", "fill", "add"}, type : Types, e : Pointer]
CollectorStates ==
  [at : {"asleep", "lock", "walk"}, d : Pointer, parent : Pointer, last : Int, now : Int]
ReaderStates ==
  [at : {"away", "walk", "count", "holding", "release", "peek"},
   e : Pointer, type : Types, stamp : Int, count : Int]

\* An accessCount may be anything once updates have been lost.
Typed ==
  /\ rawBlackboardData \in [Types -> Pointer]
  /\ bbFreelist \in Pointer
  /\ bbFreeMtx \in Readers \cup {Collector, Nobody}
  /\ next \in [Entries -> Pointer]
  /\ timeStamp \in [Entries -> Int]
  /\ accessCount \in [Entries -> Int]
  /\ place \in [Entries -> Places]
  /\ now \in Int
  /\ messenger \in MessengerStates
  /\ collector \in CollectorStates
  /\ reader \in [Readers -> ReaderStates]

MutexOwned ==
  /\ bbFreeMtx = Collector <=> collector.at = "walk"
  /\ \A r \in Readers : bbFreeMtx = r <=> reader[r].at \in {"walk", "count"}

\* The variables have their types; the mutex is held by the thread that is
\* inside a section it protects, and by nobody when none is.
TypeOK == Typed /\ MutexOwned

\* A list is whole: its head belongs to it and follows no entry, its entries
\* lead to entries of the same list, two never to the same one.
Whole(p, head) ==
  /\ head # Null => place[head] = p
  /\ \A e \in Entries : place[e] = p /\ next[e] # Null =>
                         /\ place[next[e]] = p
                         /\ next[e] # head
                         /\ \A f \in Entries : place[f] = p /\ next[f] = next[e] => f = e

\* The collector will discard the entry it stands on, and then the one that heads
\* the free list, and then the first again.
Trapped ==
  /\ collector.at = "walk"
  /\ collector.d # Null /\ bbFreelist # Null
  /\ Discardable(collector.d) /\ Discardable(bbFreelist)

Caught == Trapped /\ place[collector.d] = "free"

\* The lists never mix, not even for the thread that holds the mutex: those the
\* collector does not visit are whole in every state, and so are the two that it
\* rearranges, the zeroth type's and the free list, after each step of a walk that
\* strays from one into the other.  The one exception is a walk that is about to
\* discard what is free already, and to go on so for ever.
ListsWhole ==
  /\ \A t \in Types \ {Zeroth} : Whole(t, rawBlackboardData[t])
  /\ ~Caught => /\ Whole(Zeroth, rawBlackboardData[Zeroth])
                /\ Whole("free", bbFreelist)

\* A reader's entry is not taken from it: until it calls bbDoneWithData the
\* entry stays in the list where it was found and, the tick's apart, keeps the
\* stamp it had, whatever updates of accessCount are lost.
HeldStays ==
  \A r \in Readers : reader[r].at \in {"count", "holding", "release"} =>
    /\ place[reader[r].e] = reader[r].type
    /\ reader[r].type # TickType => timeStamp[reader[r].e] = reader[r].stamp

\* There is one tick entry at most, and a pointer to it that was read without
\* the mutex still leads to it when it is followed.
OneTickEntry ==
  /\ \A e, f \in Entries : place[e] = TickType /\ place[f] = TickType => e = f
  /\ messenger.at = "update" => place[messenger.e] = TickType
  /\ \A r \in Readers : reader[r].at = "peek" => place[reader[r].e] = TickType

\* A walk of r ends with the latest entry of the list that is not after the time
\* required, if there is one.
EndsAtLatest(r) ==
  reader[r].at = "walk" /\ reader'[r].at # "walk" =>
    \A e \in Entries : place[e] = reader[r].type /\ timeStamp[e] <= reader[r].stamp =>
      reader'[r].at = "count" /\ timeStamp[e] <= reader'[r].stamp

\* bbGetMessage returns the latest entry that is not after the time asked for.
FoundIsLatest == [][\A r \in Readers : EndsAtLatest(r)]_vars

\* The entry e, discarded younger than a day while the list's newest entry is
\* recent, leaves an entry in the list that is not older and in its slot.
LeavesCover(e) ==
  LET age == collector.now - timeStamp[e]
  IN /\ place[e] = Zeroth /\ place'[e] = "free"
     /\ collector.now - timeStamp[rawBlackboardData[Zeroth]] < Fresh
     /\ age < Day
     => \E f \in Entries \ {e} : /\ place'[f] = Zeroth
                                 /\ timeStamp[f] >= timeStamp[e]
                                 /\ SameSlot(timeStamp[e], timeStamp[f], age)

\* While new messages arrive, thinning out keeps one entry per second of the last
\* minute, per minute of the last hour and per hour of the last day.
SlotsStayCovered == [][\A e \in Entries : LeavesCover(e)]_vars
=============================================================================
