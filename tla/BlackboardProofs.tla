-------------------------- MODULE BlackboardProofs --------------------------
(***************************************************************************)
(* Proofs about Blackboard, for any memory, readers, types and calendar.   *)
(*                                                                         *)
(* The inductive invariant says where each thread's pointers lead          *)
(* (Messaging, Ticking, Reading), that the lists of the other types are    *)
(* whole whatever the collector does (Others), and where the collector can *)
(* be in its walk (Collecting): between two entries of one list, just      *)
(* strayed into the free list after the entry it discarded, or caught for  *)
(* ever between two entries that it discards in turn.  The order in which  *)
(* entries were added is in no variable: Ordered says that a rank exists   *)
(* which grows towards the head of a list.                                 *)
(***************************************************************************)
EXTENDS Blackboard, TLAPS

Messaging ==
  /\ messenger.at \in {"fill", "add"} =>
       /\ messenger.e \in Entries
       /\ place[messenger.e] = "messenger"
       /\ messenger.type = TickType => rawBlackboardData[TickType] = Null
  /\ messenger.at = "save" => rawBlackboardData[TickType] = Null
  /\ messenger.at = "update" => messenger.e \in Entries /\ place[messenger.e] = TickType

Ticking == \A e \in Entries : place[e] = TickType => rawBlackboardData[TickType] = e

\* What the reader r has in its hand belongs to the list it reads.
Reading(r) ==
  /\ reader[r].at \in {"walk", "count", "holding", "release"} => reader[r].type \in Readable
  /\ reader[r].at = "walk" /\ reader[r].e # Null => place[reader[r].e] = reader[r].type
  /\ reader[r].at \in {"count", "holding", "release"} =>
       /\ reader[r].e \in Entries
       /\ place[reader[r].e] = reader[r].type
       /\ reader[r].type # TickType => timeStamp[reader[r].e] = reader[r].stamp
  /\ reader[r].at = "peek" => reader[r].e \in Entries /\ place[reader[r].e] = TickType

Others == \A t \in Types \ {Zeroth} : Whole(t, rawBlackboardData[t])

\* The collector stands on the entry after its parent, in the list of both.
Between ==
  IF collector.parent = Null THEN collector.d = rawBlackboardData[Zeroth]
                             ELSE next[collector.parent] = collector.d

\* It has discarded the entry that now heads the free list, and followed it.
Strayed ==
  /\ bbFreelist # Null
  /\ collector.d = next[bbFreelist]
  /\ Discardable(bbFreelist)

Collecting ==
  /\ bbFreelist # Null => place[bbFreelist] = "free"
  /\ collector.at # "walk" => collector.parent = Null
  /\ collector.at = "walk" =>
       /\ collector.d # Null => place[collector.d] \in {Zeroth, "free"}
       /\ collector.parent # Null => /\ place[collector.parent] \in {Zeroth, "free"}
                                     /\ collector.last = timeStamp[collector.parent]
  /\ \/ Caught
     \/ /\ Whole(Zeroth, rawBlackboardData[Zeroth]) /\ Whole("free", bbFreelist)
        /\ collector.at = "walk" => Between \/ Strayed

Stamps ==
  /\ now \in Instants
  /\ \A e \in Entries : timeStamp[e] <= now
  /\ messenger.at = "add" =>
       \A e \in Entries : place[e] \in Types /\ place[e] # TickType =>
                            timeStamp[e] <= timeStamp[messenger.e]

\* Ranks tell the entries of a list apart, and grow with the stamps.
Ranked(rank, bound) ==
  /\ \A e \in Entries : rank[e] < bound
  /\ \A e, f \in Entries : place[e] = place[f] /\ place[e] \in Types =>
       /\ rank[e] = rank[f] => e = f
       /\ rank[f] < rank[e] => timeStamp[f] <= timeStamp[e]

\* The lists of the other types hold all their entries in the order of rank.
Linked(rank) ==
  \A e \in Entries : place[e] \in Types \ {Zeroth} =>
    /\ rawBlackboardData[place[e]] # Null
    /\ rank[e] <= rank[rawBlackboardData[place[e]]]
    /\ next[e] # Null => rank[next[e]] < rank[e]
    /\ \A f \in Entries : place[f] = place[e] /\ rank[f] < rank[e] =>
         next[e] # Null /\ rank[f] <= rank[next[e]]

Descending(rank) ==
  ~Caught => \A e \in Entries : place[e] = Zeroth /\ next[e] # Null =>
                                  rank[next[e]] < rank[e]

\* What a walking reader has passed is later than what it looks for.
Passed(rank, r) ==
  reader[r].at = "walk" =>
    \A e \in Entries : place[e] = reader[r].type /\ timeStamp[e] <= reader[r].stamp =>
      reader[r].e # Null /\ rank[e] <= rank[reader[r].e]

Ordered(rank, bound) ==
  /\ Ranked(rank, bound) /\ Linked(rank) /\ Descending(rank)
  /\ \A r \in Readers : Passed(rank, r)

Order == \E rank \in [Entries -> Int], bound \in Int : Ordered(rank, bound)

Inv ==
  /\ TypeOK /\ Messaging /\ Ticking /\ (\A r \in Readers : Reading(r))
  /\ Others /\ Collecting /\ Stamps /\ Order
-----------------------------------------------------------------------------
(* Types and pointers                                                      *)

\* The initial local states have their types.
LEMMA LocalStates ==
  /\ TickType \in Types /\ Zeroth \in Types /\ Null \in Pointer
  /\ Idle \in MessengerStates /\ Asleep \in CollectorStates /\ Away \in ReaderStates
BY DEF Types, Pointer, Idle, Asleep, Away, MessengerStates, CollectorStates, ReaderStates

\* Every step keeps the types.
LEMMA TypedStep ==
  ASSUME Typed, \A r \in Readers : Reading(r), [Next]_vars
  PROVE  Typed'
<1> USE LocalStates
<1>1. CASE ReceiveTick
  BY <1>1 DEF ReceiveTick, Typed, Pointer, Places, MessengerStates
<1>2. CASE UpdateTick
  BY <1>2 DEF UpdateTick, Idle, Typed, Pointer, Places, MessengerStates
<1>3. ASSUME NEW t \in Types, bbGetFreeEntry(t)
      PROVE  Typed'
  BY <1>3 DEF bbGetFreeEntry, Saving, Unallocated, Unlocked, Idle, Typed, Pointer, Places, MessengerStates
<1>4. CASE FillEntry
  <2>1. messenger' \in MessengerStates
    BY <1>4 DEF FillEntry, Typed, MessengerStates
  <2>2. timeStamp' \in [Entries -> Int]
    BY <1>4 DEF FillEntry, Typed
  <2>3. accessCount' \in [Entries -> Int]
    <3> DEFINE zero == 0
    <3>1. accessCount' = [accessCount EXCEPT ![messenger.e] = zero]
      BY <1>4 DEF FillEntry
    <3>2. zero \in Int
      OBVIOUS
    <3> HIDE DEF zero
    <3> QED BY <3>1, <3>2 DEF Typed
  <2> QED BY <1>4, <2>1, <2>2, <2>3 DEF FillEntry, Typed
<1>5. CASE bbAddToMsgList
  BY <1>5 DEF bbAddToMsgList, Unlocked, Idle, Typed, Pointer, Places, MessengerStates
<1>6. CASE CollectorWakes
  <2> collector' \in CollectorStates
    BY <1>6 DEF CollectorWakes, Asleep, Typed, CollectorStates, Pointer
  <2> QED BY <1>6 DEF CollectorWakes, Typed, Pointer
<1>7. CASE CollectorLocks
  <2> DEFINE d == rawBlackboardData[Zeroth]
             first == IF d = Null THEN 0 ELSE timeStamp[d]
  <2>1. d \in Pointer /\ first \in Int
    BY DEF Typed, Pointer
  <2>2. collector' = [collector EXCEPT !.at = "walk", !.d = d, !.last = first]
    BY <1>7 DEF CollectorLocks
  <2> HIDE DEF d, first
  <2>3. collector' \in CollectorStates
    BY <2>1, <2>2 DEF Typed, CollectorStates
  <2> QED BY <1>7, <2>3 DEF CollectorLocks, Typed
<1>8. CASE DiscardEntry
  <2>1. collector' \in CollectorStates
    BY <1>8 DEF DiscardEntry, Typed, CollectorStates
  <2>2. collector.d \in Entries /\ collector.parent \in Pointer
    BY <1>8 DEF DiscardEntry, Typed, CollectorStates, Pointer
  <2>3. next' \in [Entries -> Pointer] /\ rawBlackboardData' \in [Types -> Pointer]
    BY <1>8, <2>2 DEF DiscardEntry, Typed
  <2>4. bbFreelist' \in Pointer /\ place' \in [Entries -> Places]
    BY <1>8, <2>2 DEF DiscardEntry, Typed, Pointer, Places
  <2> QED BY <1>8, <2>1, <2>3, <2>4 DEF DiscardEntry, Typed
<1>9. CASE KeepEntry
  <2> collector' \in CollectorStates
    BY <1>9 DEF KeepEntry, Typed, CollectorStates, Pointer
  <2> QED BY <1>9 DEF KeepEntry, Typed, Pointer
<1>10. CASE CollectorUnlocks
  BY <1>10 DEF CollectorUnlocks, Asleep, Typed, Pointer, Places, MessengerStates
<1>11. ASSUME NEW r \in Readers, bbGetMessage(r)
      PROVE  Typed'
  <2> reader'[r] \in ReaderStates
    BY <1>11, ClockAssumption DEF bbGetMessage, Readable, Typed, ReaderStates, Pointer
  <2> QED BY <1>11 DEF bbGetMessage, Typed
<1>12. ASSUME NEW r \in Readers, SkipEntry(r)
      PROVE  Typed'
  <2> reader'[r] \in ReaderStates
    BY <1>12 DEF SkipEntry, TooLate, Typed, ReaderStates, Pointer
  <2> QED BY <1>12 DEF SkipEntry, Typed
<1>13. ASSUME NEW r \in Readers, FindNothing(r)
      PROVE  Typed'
  BY <1>13 DEF FindNothing, Away, Typed, Pointer, Places, MessengerStates
<1>14. ASSUME NEW r \in Readers, FindEntry(r)
      PROVE  Typed'
  <2> reader'[r] \in ReaderStates
    BY <1>14 DEF FindEntry, TooLate, Typed, ReaderStates, Pointer
  <2> QED BY <1>14 DEF FindEntry, Typed
<1>15. ASSUME NEW r \in Readers, CountAccess(r)
      PROVE  Typed'
  <2>1. reader'[r] \in ReaderStates
    <3> DEFINE zero == 0
    <3>1. reader'[r] = [reader[r] EXCEPT !.at = "holding", !.count = zero]
      BY <1>15 DEF CountAccess, Typed
    <3>2. reader[r] \in ReaderStates /\ zero \in Int
      BY DEF Typed
    <3> HIDE DEF zero
    <3> QED BY <3>1, <3>2 DEF ReaderStates
  <2>2. accessCount' \in [Entries -> Int]
    <3> DEFINE n == reader[r].count + 1
    <3>1. n \in Int
      BY DEF Typed, ReaderStates
    <3>2. accessCount' = [accessCount EXCEPT ![reader[r].e] = n]
      BY <1>15 DEF CountAccess
    <3> HIDE DEF n
    <3> QED BY <3>1, <3>2 DEF Typed
  <2> QED BY <1>15, <2>1, <2>2 DEF CountAccess, Typed
<1>16. ASSUME NEW r \in Readers, bbDoneWithData(r)
      PROVE  Typed'
  <2>1. reader[r].e \in Entries
    BY <1>16 DEF bbDoneWithData, Reading
  <2>2. reader'[r] \in ReaderStates
    BY <1>16, <2>1 DEF bbDoneWithData, Typed, ReaderStates
  <2> QED BY <1>16, <2>2 DEF bbDoneWithData, Typed
<1>17. ASSUME NEW r \in Readers, StoreRelease(r)
      PROVE  Typed'
  <2>1. accessCount' \in [Entries -> Int]
    <3> DEFINE n == reader[r].count - 1
    <3>1. n \in Int
      BY DEF Typed, ReaderStates
    <3>2. accessCount' = [accessCount EXCEPT ![reader[r].e] = n]
      BY <1>17 DEF StoreRelease
    <3> HIDE DEF n
    <3> QED BY <3>1, <3>2 DEF Typed
  <2> QED BY <1>17, <2>1 DEF StoreRelease, Typed
<1>18. ASSUME NEW r \in Readers, bbGetActiveNotifications(r)
      PROVE  Typed'
  <2> reader'[r] \in ReaderStates
    BY <1>18 DEF bbGetActiveNotifications, Away, Typed, ReaderStates, Pointer
  <2> QED BY <1>18 DEF bbGetActiveNotifications, Typed
<1>19. ASSUME NEW r \in Readers, ReadTick(r)
      PROVE  Typed'
  BY <1>19 DEF ReadTick, Away, Typed, Pointer, Places, MessengerStates
<1>20. CASE Tick
  BY <1>20, ClockAssumption DEF Tick, Typed
<1>21. CASE UNCHANGED vars
  BY <1>21 DEF vars, Typed, Pointer, Places, MessengerStates
<1> QED
  BY <1>1, <1>2, <1>3, <1>4, <1>5, <1>6, <1>7, <1>8, <1>9, <1>10, <1>11, <1>12, <1>13, <1>14, <1>15, <1>16, <1>17, <1>18, <1>19, <1>20, <1>21
     DEF Next, MessengerStep, CollectorStep, ReaderStep

\* The mutex stays with the thread that is in its section.
LEMMA MutexStep ==
  ASSUME Typed, MutexOwned, [Next]_vars
  PROVE  MutexOwned'
<1>1. CASE ReceiveTick
  BY <1>1, NamesAssumption DEF ReceiveTick, Typed, MutexOwned, CollectorStates, ReaderStates
<1>2. CASE UpdateTick
  BY <1>2, NamesAssumption DEF UpdateTick, Idle, Typed, MutexOwned, CollectorStates, ReaderStates
<1>3. ASSUME NEW t \in Types, bbGetFreeEntry(t)
      PROVE  MutexOwned'
  BY <1>3, NamesAssumption DEF bbGetFreeEntry, Saving, Unallocated, Unlocked, Idle, Typed, MutexOwned, CollectorStates, ReaderStates
<1>4. CASE FillEntry
  BY <1>4, NamesAssumption DEF FillEntry, Typed, MutexOwned, CollectorStates, ReaderStates
<1>5. CASE bbAddToMsgList
  BY <1>5, NamesAssumption DEF bbAddToMsgList, Unlocked, Idle, Typed, MutexOwned, CollectorStates, ReaderStates
<1>6. CASE CollectorWakes
  BY <1>6, NamesAssumption DEF CollectorWakes, Asleep, Typed, MutexOwned, CollectorStates, ReaderStates
<1>7. CASE CollectorLocks
  BY <1>7, NamesAssumption DEF CollectorLocks, Unlocked, Typed, MutexOwned, CollectorStates, ReaderStates
<1>8. CASE DiscardEntry
  BY <1>8, NamesAssumption DEF DiscardEntry, Typed, MutexOwned, CollectorStates, ReaderStates
<1>9. CASE KeepEntry
  BY <1>9, NamesAssumption DEF KeepEntry, Typed, MutexOwned, CollectorStates, ReaderStates
<1>10. CASE CollectorUnlocks
  BY <1>10, NamesAssumption DEF CollectorUnlocks, Asleep, Typed, MutexOwned, CollectorStates, ReaderStates
<1>11. ASSUME NEW r \in Readers, bbGetMessage(r)
      PROVE  MutexOwned'
  BY <1>11, NamesAssumption DEF bbGetMessage, Unlocked, Readable, Typed, MutexOwned, CollectorStates, ReaderStates
<1>12. ASSUME NEW r \in Readers, SkipEntry(r)
      PROVE  MutexOwned'
  BY <1>12, NamesAssumption DEF SkipEntry, TooLate, Typed, MutexOwned, CollectorStates, ReaderStates
<1>13. ASSUME NEW r \in Readers, FindNothing(r)
      PROVE  MutexOwned'
  BY <1>13, NamesAssumption DEF FindNothing, Away, Typed, MutexOwned, CollectorStates, ReaderStates
<1>14. ASSUME NEW r \in Readers, FindEntry(r)
      PROVE  MutexOwned'
  BY <1>14, NamesAssumption DEF FindEntry, TooLate, Typed, MutexOwned, CollectorStates, ReaderStates
<1>15. ASSUME NEW r \in Readers, CountAccess(r)
      PROVE  MutexOwned'
  BY <1>15, NamesAssumption DEF CountAccess, Typed, MutexOwned, CollectorStates, ReaderStates
<1>16. ASSUME NEW r \in Readers, bbDoneWithData(r)
      PROVE  MutexOwned'
  BY <1>16, NamesAssumption DEF bbDoneWithData, Typed, MutexOwned, CollectorStates, ReaderStates
<1>17. ASSUME NEW r \in Readers, StoreRelease(r)
      PROVE  MutexOwned'
  BY <1>17, NamesAssumption DEF StoreRelease, Away, Typed, MutexOwned, CollectorStates, ReaderStates
<1>18. ASSUME NEW r \in Readers, bbGetActiveNotifications(r)
      PROVE  MutexOwned'
  BY <1>18, NamesAssumption DEF bbGetActiveNotifications, Away, Typed, MutexOwned, CollectorStates, ReaderStates
<1>19. ASSUME NEW r \in Readers, ReadTick(r)
      PROVE  MutexOwned'
  BY <1>19, NamesAssumption DEF ReadTick, Away, Typed, MutexOwned, CollectorStates, ReaderStates
<1>20. CASE Tick
  BY <1>20, NamesAssumption DEF Tick, Typed, MutexOwned, CollectorStates, ReaderStates
<1>21. CASE UNCHANGED vars
  BY <1>21, NamesAssumption DEF vars, Typed, MutexOwned, CollectorStates, ReaderStates
<1> QED
  BY <1>1, <1>2, <1>3, <1>4, <1>5, <1>6, <1>7, <1>8, <1>9, <1>10, <1>11, <1>12, <1>13, <1>14, <1>15, <1>16, <1>17, <1>18, <1>19, <1>20, <1>21
     DEF Next, MessengerStep, CollectorStep, ReaderStep

-----------------------------------------------------------------------------
(* Where pointers lead                                                     *)

\* The places of entries that are in no list are no types.
LEMMA PlacesApart ==
  /\ TickType \in Types \ {Zeroth}
  /\ \A t \in Types : t \notin {"unallocated", "free", "messenger"}
  /\ Readable = Types \ {Zeroth}
BY NamesAssumption DEF Types, Readable

\* The messenger fills an entry that is its own, or updates the tick's.
LEMMA MessagingStep ==
  ASSUME Typed, Messaging, Others, Collecting, [Next]_vars
  PROVE  Messaging'
<1>1. CASE ReceiveTick
  <2>1. rawBlackboardData[TickType] # Null =>
          rawBlackboardData[TickType] \in Entries /\ place[rawBlackboardData[TickType]] = TickType
    BY PlacesApart DEF Typed, Others, Whole, Pointer
  <2> QED BY <1>1, <2>1 DEF ReceiveTick, Messaging
<1>2. CASE UpdateTick
  BY <1>2, PlacesApart DEF UpdateTick, Idle, Typed, Messaging, Pointer, MessengerStates
<1>3. ASSUME NEW t \in Types, bbGetFreeEntry(t)
      PROVE  Messaging'
  <2>1. t = TickType => rawBlackboardData[TickType] = Null
    BY <1>3, NamesAssumption DEF bbGetFreeEntry, Saving, Messaging
  <2> QED BY <1>3, <2>1, PlacesApart
       DEF bbGetFreeEntry, Unallocated, Idle, Typed, Messaging, Collecting, Pointer
<1>4. CASE FillEntry
  BY <1>4, PlacesApart DEF FillEntry, Typed, Messaging, Pointer, MessengerStates
<1>5. CASE bbAddToMsgList
  BY <1>5, PlacesApart DEF bbAddToMsgList, Unlocked, Idle, Typed, Messaging, Pointer, MessengerStates
<1>6. CASE CollectorWakes
  BY <1>6, PlacesApart DEF CollectorWakes, Asleep, Typed, Messaging, Pointer, MessengerStates
<1>7. CASE CollectorLocks
  BY <1>7, PlacesApart DEF CollectorLocks, Unlocked, Typed, Messaging, Pointer, MessengerStates
<1>8. CASE DiscardEntry
  <2>1. collector.d \in Entries /\ place[collector.d] \in {Zeroth, "free"}
    BY <1>8, PlacesApart DEF DiscardEntry, Collecting, Typed, CollectorStates, Pointer
  <2>2. rawBlackboardData'[TickType] = rawBlackboardData[TickType]
    BY <1>8, PlacesApart DEF DiscardEntry, Typed
  <2>3. \A e : place[e] \notin {Zeroth, "free"} => place'[e] = place[e]
    BY <1>8, <2>1 DEF DiscardEntry, Typed
  <2>4. messenger' = messenger
    BY <1>8, PlacesApart DEF DiscardEntry
  <2>5. TickType \notin {Zeroth, "free"} /\ "messenger" \notin {Zeroth, "free"}
    BY PlacesApart, LocalStates
  <2> QED BY <2>2, <2>3, <2>4, <2>5 DEF Messaging
<1>9. CASE KeepEntry
  BY <1>9, PlacesApart DEF KeepEntry, Typed, Messaging, Pointer, MessengerStates
<1>10. CASE CollectorUnlocks
  BY <1>10, PlacesApart DEF CollectorUnlocks, Asleep, Typed, Messaging, Pointer, MessengerStates
<1>11. ASSUME NEW r \in Readers, bbGetMessage(r)
      PROVE  Messaging'
  BY <1>11, PlacesApart DEF bbGetMessage, Unlocked, Readable, Typed, Messaging, Pointer, MessengerStates
<1>12. ASSUME NEW r \in Readers, SkipEntry(r)
      PROVE  Messaging'
  BY <1>12, PlacesApart DEF SkipEntry, TooLate, Typed, Messaging, Pointer, MessengerStates
<1>13. ASSUME NEW r \in Readers, FindNothing(r)
      PROVE  Messaging'
  BY <1>13, PlacesApart DEF FindNothing, Away, Typed, Messaging, Pointer, MessengerStates
<1>14. ASSUME NEW r \in Readers, FindEntry(r)
      PROVE  Messaging'
  BY <1>14, PlacesApart DEF FindEntry, TooLate, Typed, Messaging, Pointer, MessengerStates
<1>15. ASSUME NEW r \in Readers, CountAccess(r)
      PROVE  Messaging'
  BY <1>15, PlacesApart DEF CountAccess, Typed, Messaging, Pointer, MessengerStates
<1>16. ASSUME NEW r \in Readers, bbDoneWithData(r)
      PROVE  Messaging'
  BY <1>16, PlacesApart DEF bbDoneWithData, Typed, Messaging, Pointer, MessengerStates
<1>17. ASSUME NEW r \in Readers, StoreRelease(r)
      PROVE  Messaging'
  BY <1>17, PlacesApart DEF StoreRelease, Away, Typed, Messaging, Pointer, MessengerStates
<1>18. ASSUME NEW r \in Readers, bbGetActiveNotifications(r)
      PROVE  Messaging'
  BY <1>18, PlacesApart DEF bbGetActiveNotifications, Away, Typed, Messaging, Pointer, MessengerStates
<1>19. ASSUME NEW r \in Readers, ReadTick(r)
      PROVE  Messaging'
  BY <1>19, PlacesApart DEF ReadTick, Away, Typed, Messaging, Pointer, MessengerStates
<1>20. CASE Tick
  BY <1>20, PlacesApart DEF Tick, Typed, Messaging, Pointer, MessengerStates
<1>21. CASE UNCHANGED vars
  BY <1>21, PlacesApart DEF vars, Typed, Messaging, Pointer, MessengerStates
<1> QED
  BY <1>1, <1>2, <1>3, <1>4, <1>5, <1>6, <1>7, <1>8, <1>9, <1>10, <1>11, <1>12, <1>13, <1>14, <1>15, <1>16, <1>17, <1>18, <1>19, <1>20, <1>21
     DEF Next, MessengerStep, CollectorStep, ReaderStep

\* The tick has one entry, at the head of its list.
LEMMA TickingStep ==
  ASSUME Typed, Messaging, Ticking, Others, Collecting, [Next]_vars
  PROVE  Ticking'
<1>1. CASE ReceiveTick
  BY <1>1, PlacesApart DEF ReceiveTick, Typed, Ticking, Pointer
<1>2. CASE UpdateTick
  BY <1>2, PlacesApart DEF UpdateTick, Idle, Typed, Ticking, Pointer
<1>3. ASSUME NEW t \in Types, bbGetFreeEntry(t)
      PROVE  Ticking'
  BY <1>3, PlacesApart DEF bbGetFreeEntry, Saving, Unallocated, Unlocked, Idle, Typed, Ticking, Pointer
<1>4. CASE FillEntry
  BY <1>4, PlacesApart DEF FillEntry, Typed, Ticking, Pointer
<1>5. CASE bbAddToMsgList
  <2>1. messenger.e \in Entries /\ messenger.type \in Types
    BY <1>5, PlacesApart DEF bbAddToMsgList, Typed, Messaging, MessengerStates
  <2>2. CASE messenger.type = TickType
    <3>1. \A e \in Entries : place[e] # TickType
      BY <1>5, <2>1, <2>2, NamesAssumption DEF bbAddToMsgList, Messaging, Ticking, Typed
    <3> QED BY <1>5, <2>1, <2>2, <3>1 DEF bbAddToMsgList, Typed, Ticking
  <2>3. CASE messenger.type # TickType
    BY <1>5, <2>1, <2>3 DEF bbAddToMsgList, Typed, Ticking
  <2> QED BY <2>2, <2>3
<1>6. CASE CollectorWakes
  BY <1>6, PlacesApart DEF CollectorWakes, Asleep, Typed, Ticking, Pointer
<1>7. CASE CollectorLocks
  BY <1>7, PlacesApart DEF CollectorLocks, Unlocked, Typed, Ticking, Pointer
<1>8. CASE DiscardEntry
  BY <1>8, PlacesApart DEF DiscardEntry, Typed, Ticking, Collecting
<1>9. CASE KeepEntry
  BY <1>9, PlacesApart DEF KeepEntry, Typed, Ticking, Pointer
<1>10. CASE CollectorUnlocks
  BY <1>10, PlacesApart DEF CollectorUnlocks, Asleep, Typed, Ticking, Pointer
<1>11. ASSUME NEW r \in Readers, bbGetMessage(r)
      PROVE  Ticking'
  BY <1>11, PlacesApart DEF bbGetMessage, Unlocked, Readable, Typed, Ticking, Pointer
<1>12. ASSUME NEW r \in Readers, SkipEntry(r)
      PROVE  Ticking'
  BY <1>12, PlacesApart DEF SkipEntry, TooLate, Typed, Ticking, Pointer
<1>13. ASSUME NEW r \in Readers, FindNothing(r)
      PROVE  Ticking'
  BY <1>13, PlacesApart DEF FindNothing, Away, Typed, Ticking, Pointer
<1>14. ASSUME NEW r \in Readers, FindEntry(r)
      PROVE  Ticking'
  BY <1>14, PlacesApart DEF FindEntry, TooLate, Typed, Ticking, Pointer
<1>15. ASSUME NEW r \in Readers, CountAccess(r)
      PROVE  Ticking'
  BY <1>15, PlacesApart DEF CountAccess, Typed, Ticking, Pointer
<1>16. ASSUME NEW r \in Readers, bbDoneWithData(r)
      PROVE  Ticking'
  BY <1>16, PlacesApart DEF bbDoneWithData, Typed, Ticking, Pointer
<1>17. ASSUME NEW r \in Readers, StoreRelease(r)
      PROVE  Ticking'
  BY <1>17, PlacesApart DEF StoreRelease, Away, Typed, Ticking, Pointer
<1>18. ASSUME NEW r \in Readers, bbGetActiveNotifications(r)
      PROVE  Ticking'
  BY <1>18, PlacesApart DEF bbGetActiveNotifications, Away, Typed, Ticking, Pointer
<1>19. ASSUME NEW r \in Readers, ReadTick(r)
      PROVE  Ticking'
  BY <1>19, PlacesApart DEF ReadTick, Away, Typed, Ticking, Pointer
<1>20. CASE Tick
  BY <1>20, PlacesApart DEF Tick, Typed, Ticking, Pointer
<1>21. CASE UNCHANGED vars
  BY <1>21, PlacesApart DEF vars, Typed, Ticking, Pointer
<1> QED
  BY <1>1, <1>2, <1>3, <1>4, <1>5, <1>6, <1>7, <1>8, <1>9, <1>10, <1>11, <1>12, <1>13, <1>14, <1>15, <1>16, <1>17, <1>18, <1>19, <1>20, <1>21
     DEF Next, MessengerStep, CollectorStep, ReaderStep

\* Only the zeroth type's entries ever leave their list, and only the tick's
\* stamp changes.
LEMMA EntriesStay ==
  ASSUME Typed, Messaging, Collecting,
         NEW e \in Entries, place[e] \in Types, place[e] # Zeroth, [Next]_vars
  PROVE  place'[e] = place[e] /\ (place[e] # TickType => timeStamp'[e] = timeStamp[e])
<1>1. CASE ReceiveTick
  BY <1>1, PlacesApart DEF ReceiveTick, Typed, Pointer
<1>2. CASE UpdateTick
  BY <1>2, PlacesApart DEF UpdateTick, Typed, Messaging
<1>3. ASSUME NEW t \in Types, bbGetFreeEntry(t)
      PROVE  place'[e] = place[e] /\ (place[e] # TickType => timeStamp'[e] = timeStamp[e])
  BY <1>3, PlacesApart DEF bbGetFreeEntry, Unallocated, Typed, Collecting, Pointer
<1>4. CASE FillEntry
  BY <1>4, PlacesApart DEF FillEntry, Typed, Messaging
<1>5. CASE bbAddToMsgList
  BY <1>5, PlacesApart DEF bbAddToMsgList, Typed, Messaging
<1>6. CASE CollectorWakes
  BY <1>6, PlacesApart DEF CollectorWakes, Asleep, Typed, Pointer
<1>7. CASE CollectorLocks
  BY <1>7, PlacesApart DEF CollectorLocks, Unlocked, Typed, Pointer
<1>8. CASE DiscardEntry
  <2>1. collector.d \in Entries /\ place[collector.d] \in {Zeroth, "free"}
    BY <1>8, PlacesApart DEF DiscardEntry, Collecting, Typed, CollectorStates, Pointer
  <2> QED BY <1>8, <2>1, PlacesApart DEF DiscardEntry, Typed
<1>9. CASE KeepEntry
  BY <1>9, PlacesApart DEF KeepEntry, Typed, Pointer
<1>10. CASE CollectorUnlocks
  BY <1>10, PlacesApart DEF CollectorUnlocks, Asleep, Typed, Pointer
<1>11. ASSUME NEW r \in Readers, bbGetMessage(r)
      PROVE  place'[e] = place[e] /\ (place[e] # TickType => timeStamp'[e] = timeStamp[e])
  BY <1>11, PlacesApart DEF bbGetMessage, Unlocked, Readable, Typed, Pointer
<1>12. ASSUME NEW r \in Readers, SkipEntry(r)
      PROVE  place'[e] = place[e] /\ (place[e] # TickType => timeStamp'[e] = timeStamp[e])
  BY <1>12, PlacesApart DEF SkipEntry, TooLate, Typed, Pointer
<1>13. ASSUME NEW r \in Readers, FindNothing(r)
      PROVE  place'[e] = place[e] /\ (place[e] # TickType => timeStamp'[e] = timeStamp[e])
  BY <1>13, PlacesApart DEF FindNothing, Away, Typed, Pointer
<1>14. ASSUME NEW r \in Readers, FindEntry(r)
      PROVE  place'[e] = place[e] /\ (place[e] # TickType => timeStamp'[e] = timeStamp[e])
  BY <1>14, PlacesApart DEF FindEntry, TooLate, Typed, Pointer
<1>15. ASSUME NEW r \in Readers, CountAccess(r)
      PROVE  place'[e] = place[e] /\ (place[e] # TickType => timeStamp'[e] = timeStamp[e])
  BY <1>15, PlacesApart DEF CountAccess, Typed, Pointer
<1>16. ASSUME NEW r \in Readers, bbDoneWithData(r)
      PROVE  place'[e] = place[e] /\ (place[e] # TickType => timeStamp'[e] = timeStamp[e])
  BY <1>16, PlacesApart DEF bbDoneWithData, Typed, Pointer
<1>17. ASSUME NEW r \in Readers, StoreRelease(r)
      PROVE  place'[e] = place[e] /\ (place[e] # TickType => timeStamp'[e] = timeStamp[e])
  BY <1>17, PlacesApart DEF StoreRelease, Away, Typed, Pointer
<1>18. ASSUME NEW r \in Readers, bbGetActiveNotifications(r)
      PROVE  place'[e] = place[e] /\ (place[e] # TickType => timeStamp'[e] = timeStamp[e])
  BY <1>18, PlacesApart DEF bbGetActiveNotifications, Away, Typed, Pointer
<1>19. ASSUME NEW r \in Readers, ReadTick(r)
      PROVE  place'[e] = place[e] /\ (place[e] # TickType => timeStamp'[e] = timeStamp[e])
  BY <1>19, PlacesApart DEF ReadTick, Away, Typed, Pointer
<1>20. CASE Tick
  BY <1>20, PlacesApart DEF Tick, Typed, Pointer
<1>21. CASE UNCHANGED vars
  BY <1>21, PlacesApart DEF vars, Typed, Pointer
<1> QED
  BY <1>1, <1>2, <1>3, <1>4, <1>5, <1>6, <1>7, <1>8, <1>9, <1>10, <1>11, <1>12, <1>13, <1>14, <1>15, <1>16, <1>17, <1>18, <1>19, <1>20, <1>21
     DEF Next, MessengerStep, CollectorStep, ReaderStep

\* A reader's state changes only by a step of its own.
LEMMA ReaderMoves ==
  ASSUME Typed, [Next]_vars, NEW s \in Readers
  PROVE  reader'[s] = reader[s] \/ ReaderStep(s)
<1>1. ASSUME NEW r \in Readers, ReaderStep(r), r # s
      PROVE  reader'[s] = reader[s]
  BY <1>1 DEF ReaderStep, bbGetMessage, SkipEntry, FindNothing, FindEntry, CountAccess,
              bbDoneWithData, StoreRelease, bbGetActiveNotifications, ReadTick, Typed
<1>2. MessengerStep \/ CollectorStep \/ Tick \/ UNCHANGED vars => reader' = reader
  BY DEF MessengerStep, ReceiveTick, UpdateTick, bbGetFreeEntry, FillEntry, bbAddToMsgList,
         CollectorStep, CollectorWakes, CollectorLocks, DiscardEntry, KeepEntry,
         CollectorUnlocks, Tick, vars
<1> QED BY <1>1, <1>2 DEF Next

LEMMA ReadingKept ==
  ASSUME Typed, Messaging, Collecting, [Next]_vars,
         NEW r \in Readers, Reading(r), reader'[r] = reader[r]
  PROVE  Reading(r)'
<1>1. \A e \in Entries : place[e] \in Readable =>
        place'[e] = place[e] /\ (place[e] # TickType => timeStamp'[e] = timeStamp[e])
  BY EntriesStay, PlacesApart
<1>2. reader[r].e \in Pointer /\ TickType \in Readable
  BY PlacesApart DEF Typed, ReaderStates
<1> QED BY <1>1, <1>2 DEF Reading, Pointer

\* A reader's pointer leads into the list it reads.
LEMMA ReadingStep ==
  ASSUME Typed, Messaging, Others, Collecting, [Next]_vars,
         \A r \in Readers : Reading(r)
  PROVE  \A r \in Readers : Reading(r)'
<1> SUFFICES ASSUME NEW s \in Readers
             PROVE  Reading(s)'
  OBVIOUS
<1>1. CASE reader'[s] = reader[s]
  BY <1>1, ReadingKept
<1>2. \A t \in Types \ {Zeroth} :
        rawBlackboardData[t] # Null => place[rawBlackboardData[t]] = t
  BY DEF Others, Whole
<1>3. ASSUME bbGetMessage(s) PROVE Reading(s)'
  BY <1>2, <1>3, PlacesApart DEF bbGetMessage, Typed, Reading
<1>4. ASSUME SkipEntry(s) PROVE Reading(s)'
  <2>1. reader[s].e \in Entries /\ reader[s].type \in Types \ {Zeroth}
    BY <1>4, PlacesApart DEF SkipEntry, TooLate, Reading, Typed, ReaderStates, Pointer
  <2>2. next[reader[s].e] # Null => place[next[reader[s].e]] = reader[s].type
    BY <1>4, <2>1 DEF SkipEntry, TooLate, Reading, Others, Whole
  <2>3. /\ reader'[s].at = "walk" /\ reader'[s].type = reader[s].type
        /\ reader'[s].e = next[reader[s].e] /\ place' = place
    BY <1>4 DEF SkipEntry, Typed, ReaderStates
  <2> QED BY <2>1, <2>2, <2>3, PlacesApart DEF Reading
<1>5. ASSUME FindNothing(s) PROVE Reading(s)'
  BY <1>5 DEF FindNothing, Away, Reading, Typed
<1>6. ASSUME FindEntry(s) PROVE Reading(s)'
  <2>1. reader[s].e \in Entries /\ place[reader[s].e] = reader[s].type
    BY <1>6 DEF FindEntry, Reading, Typed, ReaderStates, Pointer
  <2>2. /\ reader'[s].at = "count" /\ reader'[s].type = reader[s].type
        /\ reader'[s].e = reader[s].e /\ reader'[s].stamp = timeStamp[reader[s].e]
        /\ place' = place /\ timeStamp' = timeStamp
    BY <1>6 DEF FindEntry, Typed, ReaderStates
  <2> QED BY <1>6, <2>1, <2>2 DEF FindEntry, Reading
<1>7. ASSUME CountAccess(s) PROVE Reading(s)'
  BY <1>7 DEF CountAccess, Reading, Typed, ReaderStates
<1>8. ASSUME bbDoneWithData(s) PROVE Reading(s)'
  BY <1>8 DEF bbDoneWithData, Reading, Typed, ReaderStates
<1>9. ASSUME StoreRelease(s) \/ ReadTick(s) PROVE Reading(s)'
  BY <1>9 DEF StoreRelease, ReadTick, Away, Reading, Typed
<1>10. ASSUME bbGetActiveNotifications(s) PROVE Reading(s)'
  BY <1>2, <1>10, PlacesApart DEF bbGetActiveNotifications, Away, Reading, Typed, Pointer
<1> QED
  BY <1>1, <1>3, <1>4, <1>5, <1>6, <1>7, <1>8, <1>9, <1>10, ReaderMoves DEF ReaderStep

-----------------------------------------------------------------------------
(* The lists                                                               *)

\* What the collector holds while it discards an entry.
LEMMA DiscardFacts ==
  ASSUME Typed, Collecting, DiscardEntry
  PROVE  /\ collector.at = "walk" /\ collector.d \in Entries
         /\ place[collector.d] \in {Zeroth, "free"}
         /\ collector.parent \in Pointer
         /\ collector.parent # Null => /\ collector.parent \in Entries
                                       /\ place[collector.parent] \in {Zeroth, "free"}
         /\ Discardable(collector.d)
BY DEF DiscardEntry, Typed, CollectorStates, Collecting, Pointer

\* The collector leaves the lists of the other types whole.
LEMMA OthersStep ==
  ASSUME Typed, Messaging, Others, Collecting, [Next]_vars
  PROVE  Others'
<1> SUFFICES ASSUME NEW t \in Types \ {Zeroth}
             PROVE  Whole(t, rawBlackboardData[t])'
  BY DEF Others
<1>0. Whole(t, rawBlackboardData[t])
  BY DEF Others
<1>1. CASE UNCHANGED <<next, place, rawBlackboardData>>
  BY <1>0, <1>1 DEF Whole
<1>2. ASSUME NEW u \in Types, bbGetFreeEntry(u)
      PROVE  Whole(t, rawBlackboardData[t])'
  <2>1. /\ next' = next /\ rawBlackboardData' = rawBlackboardData
        /\ \A e \in Entries : place'[e] = t <=> place[e] = t
    BY <1>2, PlacesApart DEF bbGetFreeEntry, Unallocated, Collecting, Typed, Pointer
  <2> QED BY <1>0, <2>1 DEF Whole, Typed, Pointer
<1>3. ASSUME bbAddToMsgList
      PROVE  Whole(t, rawBlackboardData[t])'
  <2> DEFINE m == messenger.e
  <2>1. m \in Entries /\ place[m] = "messenger" /\ messenger.type \in Types
    BY <1>3 DEF bbAddToMsgList, Messaging, Typed, MessengerStates
  <2>2. /\ next' = [next EXCEPT ![m] = rawBlackboardData[messenger.type]]
        /\ rawBlackboardData' = [rawBlackboardData EXCEPT ![messenger.type] = m]
        /\ place' = [place EXCEPT ![m] = messenger.type]
    BY <1>3 DEF bbAddToMsgList
  <2> HIDE DEF m
  <2>3. CASE messenger.type = t
    BY <1>0, <2>1, <2>2, <2>3, PlacesApart DEF Whole, Typed, Pointer
  <2>4. CASE messenger.type # t
    BY <1>0, <2>1, <2>2, <2>4, PlacesApart DEF Whole, Typed, Pointer
  <2> QED BY <2>3, <2>4
<1>4. ASSUME DiscardEntry
      PROVE  Whole(t, rawBlackboardData[t])'
  <2>1. /\ \A e \in Entries : place[e] = t => next'[e] = next[e] /\ place'[e] = t
        /\ \A e \in Entries : place'[e] = t => place[e] = t
        /\ rawBlackboardData'[t] = rawBlackboardData[t]
    BY <1>4, DiscardFacts, PlacesApart DEF DiscardEntry, Typed
  <2> QED BY <1>0, <2>1 DEF Whole, Typed, Pointer
<1> QED
  BY <1>1, <1>2, <1>3, <1>4
  DEF Next, MessengerStep, ReceiveTick, UpdateTick, FillEntry,
      CollectorStep, CollectorWakes, CollectorLocks, KeepEntry, CollectorUnlocks,
      ReaderStep, bbGetMessage, SkipEntry, FindNothing, FindEntry, CountAccess,
      bbDoneWithData, StoreRelease, bbGetActiveNotifications, ReadTick, Tick, vars

\* The collector's state survives a step that leaves the lists, and the stamps
\* and counts of the entries it may visit.
LEMMA QuietStep ==
  ASSUME Typed, Collecting,
         UNCHANGED <<rawBlackboardData, bbFreelist, next, place, collector>>,
         \A e \in Entries : place[e] \in {Zeroth, "free"} =>
           timeStamp'[e] = timeStamp[e] /\ accessCount'[e] = accessCount[e]
  PROVE  Collecting'
<1>1. \A e \in Entries : place[e] \in {Zeroth, "free"} => (Discardable(e)' <=> Discardable(e))
  BY DEF Discardable, Discard
<1>2. /\ bbFreelist # Null => bbFreelist \in Entries /\ place[bbFreelist] = "free"
      /\ collector.at = "walk" /\ collector.d # Null =>
           collector.d \in Entries /\ place[collector.d] \in {Zeroth, "free"}
      /\ collector.at = "walk" /\ collector.parent # Null =>
           /\ collector.parent \in Entries
           /\ place[collector.parent] \in {Zeroth, "free"}
           /\ collector.last = timeStamp[collector.parent]
  BY DEF Collecting, Typed, CollectorStates, Pointer
<1>3. Caught => Caught'
  BY <1>1, <1>2 DEF Caught, Trapped
<1>4. collector.at = "walk" /\ Strayed => Strayed'
  BY <1>1, <1>2 DEF Strayed
<1>5. /\ Between => Between'
      /\ Whole(Zeroth, rawBlackboardData[Zeroth]) => Whole(Zeroth, rawBlackboardData[Zeroth])'
      /\ Whole("free", bbFreelist) => Whole("free", bbFreelist)'
  BY DEF Between, Whole
<1> QED BY <1>2, <1>3, <1>4, <1>5 DEF Collecting

\* Discarding from between two entries: both lists stay whole, and the
\* collector has strayed.
LEMMA DiscardKeepsWhole ==
  ASSUME Typed, Collecting, DiscardEntry, Between,
         Whole(Zeroth, rawBlackboardData[Zeroth]), Whole("free", bbFreelist)
  PROVE  (Whole(Zeroth, rawBlackboardData[Zeroth]) /\ Whole("free", bbFreelist))'
<1> DEFINE d == collector.d
           parent == collector.parent
<1>1. /\ d \in Entries /\ place[d] \in {Zeroth, "free"}
      /\ parent # Null => parent \in Entries
      /\ Zeroth # "free" /\ Zeroth \in Types /\ Null \notin Entries
  BY DiscardFacts, NamesAssumption DEF Types
<1>2. place' = [place EXCEPT ![d] = "free"] /\ bbFreelist' = d
  BY DEF DiscardEntry
<1>3. bbFreelist \in Pointer /\ (bbFreelist # Null => place[bbFreelist] = "free")
  BY DEF Typed, Collecting
<1>4. CASE parent = Null
  <2>1. /\ rawBlackboardData'[Zeroth] = next[d]
        /\ next' = [next EXCEPT ![d] = bbFreelist]
        /\ d = rawBlackboardData[Zeroth]
    BY <1>1, <1>4 DEF DiscardEntry, Between, Typed
  <2> HIDE DEF d, parent
  <2>2. place[d] = Zeroth
    BY <1>1, <2>1 DEF Whole
  <2>3. Whole(Zeroth, rawBlackboardData[Zeroth])'
    BY <1>1, <1>2, <1>3, <2>1, <2>2 DEF Whole, Typed, Pointer
  <2>4. Whole("free", bbFreelist)'
    BY <1>1, <1>2, <1>3, <2>1, <2>2 DEF Whole, Typed, Pointer
  <2> QED BY <2>3, <2>4
<1>5. CASE parent # Null
  <2>1. /\ rawBlackboardData' = rawBlackboardData
        /\ next' = [next EXCEPT ![parent] = next[d], ![d] = bbFreelist]
        /\ next[parent] = d
    BY <1>1, <1>5 DEF DiscardEntry, Between
  <2>2. place[parent] \in {Zeroth, "free"}
    BY <1>5, DiscardFacts
  <2> HIDE DEF d, parent
  <2>3. place[d] = place[parent]
    BY <1>1, <1>5, <2>1, <2>2 DEF Whole
  <2>4. Whole(Zeroth, rawBlackboardData[Zeroth])'
    BY <1>1, <1>2, <1>3, <1>5, <2>1, <2>2, <2>3 DEF Whole, Typed, Pointer
  <2>5. Whole("free", bbFreelist)'
    BY <1>1, <1>2, <1>3, <1>5, <2>1, <2>2, <2>3 DEF Whole, Typed, Pointer
  <2> QED BY <2>4, <2>5
<1> QED BY <1>4, <1>5

\* Stamps and counts change only of entries that are in other lists, or in no
\* list, while the collector walks.
LEMMA QuietEntries ==
  ASSUME Typed, Messaging, \A r \in Readers : Reading(r),
         [Next]_vars, ~Tick
  PROVE  \A e \in Entries : place[e] \in {Zeroth, "free"} =>
           timeStamp'[e] = timeStamp[e] /\ accessCount'[e] = accessCount[e]
<1> TickType \notin {Zeroth, "free"} /\ "messenger" \notin {Zeroth, "free"}
  BY PlacesApart, LocalStates
<1>1. CASE UpdateTick
  BY <1>1 DEF UpdateTick, Messaging, Typed
<1>2. CASE FillEntry
  BY <1>2 DEF FillEntry, Messaging, Typed
<1>3. ASSUME NEW r \in Readers, CountAccess(r) \/ StoreRelease(r)
      PROVE  \A e \in Entries : place[e] \in {Zeroth, "free"} =>
               timeStamp'[e] = timeStamp[e] /\ accessCount'[e] = accessCount[e]
  BY <1>3, PlacesApart DEF CountAccess, StoreRelease, Reading, Typed
<1>4. CASE UNCHANGED <<timeStamp, accessCount>>
  BY <1>4
<1> QED
  BY <1>1, <1>2, <1>3, <1>4
  DEF Next, MessengerStep, ReceiveTick, bbGetFreeEntry, bbAddToMsgList,
      CollectorStep, CollectorWakes, CollectorLocks, DiscardEntry, KeepEntry, CollectorUnlocks,
      ReaderStep, bbGetMessage, SkipEntry, FindNothing, FindEntry,
      bbDoneWithData, bbGetActiveNotifications, ReadTick, vars

\* An entry is put on the free list by the collector's discarding it, and then
\* the collector is caught, if it would discard what headed the free list too.
LEMMA DiscardStep ==
  ASSUME Typed, Collecting, DiscardEntry
  PROVE  Collecting'
<1> DEFINE d == collector.d
<1>1. /\ d \in Entries /\ Null \notin Entries /\ Discardable(d)
      /\ collector.at = "walk" /\ collector'.at = "walk"
      /\ bbFreelist' = d /\ collector'.d = bbFreelist
      /\ collector'.parent = collector.parent /\ collector'.last = collector.last
      /\ collector'.now = collector.now
      /\ timeStamp' = timeStamp /\ accessCount' = accessCount
      /\ place' = [place EXCEPT ![d] = "free"]
  BY DiscardFacts, NamesAssumption DEF DiscardEntry, Typed, CollectorStates
<1>2. bbFreelist # Null => bbFreelist \in Entries /\ place'[bbFreelist] = "free"
  BY <1>1 DEF Collecting, Typed, Pointer
<1>3. place'[d] = "free"
  BY <1>1 DEF Typed
<1>4. \A e \in Entries : Discardable(e)' <=> Discardable(e)
  BY <1>1 DEF Discardable, Discard
<1>5. collector.parent # Null => /\ place'[collector.parent] \in {Zeroth, "free"}
                                 /\ collector.last = timeStamp[collector.parent]
  BY <1>1, DiscardFacts DEF Collecting, Typed
<1>6. CASE bbFreelist # Null /\ Discardable(bbFreelist)
  BY <1>1, <1>2, <1>3, <1>4, <1>5, <1>6 DEF Collecting, Caught, Trapped
<1>7. CASE ~(bbFreelist # Null /\ Discardable(bbFreelist))
  <2>1. /\ Whole(Zeroth, rawBlackboardData[Zeroth]) /\ Whole("free", bbFreelist)
        /\ Between
    BY <1>1, <1>7 DEF Collecting, Caught, Trapped, Strayed
  <2>2. next'[d] = bbFreelist
    BY <1>1 DEF DiscardEntry, Typed
  <2>3. Strayed'
    BY <1>1, <1>4, <2>2 DEF Strayed
  <2> QED BY <1>1, <1>2, <1>3, <1>5, <2>1, <2>3, DiscardKeepsWhole DEF Collecting
<1> QED BY <1>6, <1>7

LEMMA CollectingStep ==
  ASSUME Typed, MutexOwned, Messaging, \A r \in Readers : Reading(r), Others, Collecting,
         [Next]_vars
  PROVE  Collecting'
<1>1. CASE UNCHANGED <<rawBlackboardData, bbFreelist, next, place, collector>> /\ ~Tick
  BY <1>1, QuietEntries, QuietStep
<1>2. CASE Tick
  BY <1>2, QuietStep DEF Tick
<1>3. CASE CollectorWakes
  <2> Caught => collector.at = "walk"
    BY DEF Caught, Trapped
  <2> QED BY <1>3 DEF CollectorWakes, Asleep, Collecting, Whole
<1>4. CASE CollectorLocks
  <2>1. ~Caught
    BY <1>4 DEF CollectorLocks, Caught, Trapped
  <2>2. collector.at = "lock"
    BY <1>4 DEF CollectorLocks
  <2>3. /\ collector'.d = rawBlackboardData[Zeroth] /\ collector'.parent = collector.parent
        /\ collector'.at = "walk"
    BY <1>4 DEF CollectorLocks, Typed, CollectorStates
  <2> QED
    BY <1>4, <2>1, <2>2, <2>3 DEF CollectorLocks, Collecting, Whole, Between
<1>5. CASE DiscardEntry
  BY <1>5, DiscardStep
<1>6. CASE KeepEntry
  <2> DEFINE d == collector.d
  <2>1. /\ d \in Entries /\ place[d] \in {Zeroth, "free"} /\ ~Discardable(d)
        /\ collector.at = "walk" /\ collector'.at = "walk"
        /\ collector'.parent = d /\ collector'.d = next[d] /\ collector'.last = timeStamp[d]
        /\ UNCHANGED <<rawBlackboardData, bbFreelist, next, place, timeStamp>>
    BY <1>6 DEF KeepEntry, Collecting, Typed, CollectorStates, Pointer
  <2>2. Whole(Zeroth, rawBlackboardData[Zeroth]) /\ Whole("free", bbFreelist)
    BY <2>1 DEF Collecting, Caught, Trapped
  <2>3. next[d] # Null => place[next[d]] \in {Zeroth, "free"}
    BY <2>1, <2>2 DEF Whole
  <2>4. (Whole(Zeroth, rawBlackboardData[Zeroth]) /\ Whole("free", bbFreelist))'
    BY <2>1, <2>2 DEF Whole
  <2>5. Between'
    BY <2>1, NamesAssumption DEF Between
  <2> QED BY <2>1, <2>3, <2>4, <2>5 DEF Collecting
<1>7. CASE CollectorUnlocks
  <2>1. ~Caught
    BY <1>7 DEF CollectorUnlocks, Caught, Trapped
  <2> QED BY <1>7, <2>1 DEF CollectorUnlocks, Asleep, Collecting, Whole
<1>8. ASSUME NEW t \in Types, bbGetFreeEntry(t)
      PROVE  Collecting'
  <2>1. collector.at # "walk" /\ collector' = collector
    BY <1>8, NamesAssumption DEF bbGetFreeEntry, Unlocked, MutexOwned
  <2>2. Whole(Zeroth, rawBlackboardData[Zeroth]) /\ Whole("free", bbFreelist)
    BY <2>1 DEF Collecting, Caught, Trapped
  <2>3. rawBlackboardData' = rawBlackboardData /\ next' = next
    BY <1>8 DEF bbGetFreeEntry
  <2>4. \A e \in Entries : place'[e] = Zeroth <=> place[e] = Zeroth
    <3>1. Zeroth \notin {"unallocated", "free", "messenger"}
      BY PlacesApart, LocalStates
    <3>2. bbFreelist # Null => bbFreelist \in Entries /\ place[bbFreelist] = "free"
      BY DEF Collecting, Typed, Pointer
    <3>3. \/ place' = place
          \/ \E e \in Entries : /\ place[e] \in {"unallocated", "free"}
                               /\ place' = [place EXCEPT ![e] = "messenger"]
      BY <1>8, <3>2 DEF bbGetFreeEntry, Unallocated
    <3>4. CASE place' = place
      BY <3>4
    <3>5. ASSUME NEW f \in Entries, place[f] \in {"unallocated", "free"},
                 place' = [place EXCEPT ![f] = "messenger"]
          PROVE  \A e \in Entries : place'[e] = Zeroth <=> place[e] = Zeroth
      <4>1. \A e \in Entries : place'[e] = IF e = f THEN "messenger" ELSE place[e]
        BY <3>5 DEF Typed
      <4> QED BY <3>1, <3>5, <4>1
    <3> QED BY <3>3, <3>4, <3>5
  <2>5. Whole(Zeroth, rawBlackboardData[Zeroth])'
    BY <2>2, <2>3, <2>4, LocalStates DEF Whole, Typed, Pointer
  <2>6. CASE bbFreelist # Null
    <3>1. /\ bbFreelist \in Entries /\ place[bbFreelist] = "free"
          /\ bbFreelist' = next[bbFreelist]
          /\ place' = [place EXCEPT ![bbFreelist] = "messenger"]
      BY <1>8, <2>6 DEF bbGetFreeEntry, Collecting, Typed, Pointer
    <3>2. Whole("free", bbFreelist)' /\ (bbFreelist' # Null => place'[bbFreelist'] = "free")
      BY <2>2, <2>3, <3>1 DEF Whole, Typed, Pointer
    <3> QED BY <2>1, <2>5, <3>2 DEF Collecting
  <2>7. CASE bbFreelist = Null
    <3>1. /\ bbFreelist' = Null
          /\ \A e \in Entries : place'[e] = "free" <=> place[e] = "free"
      BY <1>8, <2>7 DEF bbGetFreeEntry, Unallocated, Typed
    <3>2. Whole("free", bbFreelist)'
      BY <2>2, <2>3, <2>7, <3>1 DEF Whole, Typed, Pointer
    <3> QED BY <2>1, <2>5, <3>1, <3>2 DEF Collecting
  <2> QED BY <2>6, <2>7
<1>9. CASE bbAddToMsgList
  <2>1. collector.at # "walk" /\ collector' = collector
    BY <1>9, NamesAssumption DEF bbAddToMsgList, Unlocked, MutexOwned
  <2>2. Whole(Zeroth, rawBlackboardData[Zeroth]) /\ Whole("free", bbFreelist)
    BY <2>1 DEF Collecting, Caught, Trapped
  <2> DEFINE m == messenger.e
             t == messenger.type
  <2>3. m \in Entries /\ place[m] = "messenger" /\ t \in Types
    BY <1>9 DEF bbAddToMsgList, Messaging, Typed, MessengerStates
  <2>4. /\ next' = [next EXCEPT ![m] = rawBlackboardData[t]]
        /\ rawBlackboardData' = [rawBlackboardData EXCEPT ![t] = m]
        /\ place' = [place EXCEPT ![m] = t]
        /\ bbFreelist' = bbFreelist
    BY <1>9 DEF bbAddToMsgList
  <2> HIDE DEF m, t
  <2>5. Whole("free", bbFreelist)' /\ (bbFreelist # Null => place'[bbFreelist] = "free")
    BY <2>2, <2>3, <2>4, PlacesApart DEF Whole, Typed, Pointer, Collecting
  <2>6. Whole(Zeroth, rawBlackboardData[Zeroth])'
    <3>1. CASE t = Zeroth
      BY <2>2, <2>3, <2>4, <3>1, PlacesApart DEF Whole, Typed, Pointer
    <3>2. CASE t # Zeroth
      BY <2>2, <2>3, <2>4, <3>2, PlacesApart, LocalStates DEF Whole, Typed, Pointer
    <3> QED BY <3>1, <3>2
  <2> QED BY <2>1, <2>4, <2>5, <2>6 DEF Collecting
<1> QED
  BY <1>1, <1>2, <1>3, <1>4, <1>5, <1>6, <1>7, <1>8, <1>9
  DEF Next, MessengerStep, ReceiveTick, UpdateTick, FillEntry, CollectorStep,
      ReaderStep, bbGetMessage, SkipEntry, FindNothing, FindEntry, CountAccess,
      bbDoneWithData, StoreRelease, bbGetActiveNotifications, ReadTick, Tick, vars

-----------------------------------------------------------------------------
(* Stamps                                                                  *)

\* No entry is from the future, and what is added is later than what is there.
LEMMA StampsStep ==
  ASSUME Typed, Messaging, Collecting, Stamps, [Next]_vars
  PROVE  Stamps'
<1> USE ClockAssumption
<1>1. ASSUME NEW t \in Types, bbGetFreeEntry(t)
      PROVE  Stamps'
  BY <1>1 DEF bbGetFreeEntry, Idle, Stamps, Typed
<1>2. CASE UpdateTick
  BY <1>2 DEF UpdateTick, Idle, Stamps, Typed
<1>3. CASE FillEntry
  BY <1>3, PlacesApart DEF FillEntry, Messaging, Stamps, Typed
<1>4. CASE bbAddToMsgList
  BY <1>4 DEF bbAddToMsgList, Idle, Stamps, Typed
<1>5. CASE DiscardEntry
  <2>1. \A e \in Entries : place'[e] = place[e] \/ place'[e] = "free"
    BY <1>5 DEF DiscardEntry, Typed
  <2> QED BY <1>5, <2>1, PlacesApart DEF DiscardEntry, Stamps
<1>6. CASE Tick
  <2>1. now' > now /\ now' \in Instants /\ timeStamp' = timeStamp
    BY <1>6 DEF Tick
  <2>2. \A e \in Entries : timeStamp[e] \in Int /\ timeStamp[e] <= now'
    BY <2>1 DEF Stamps, Typed
  <2> QED BY <1>6, <2>1, <2>2 DEF Tick, Stamps
<1>7. CASE UNCHANGED <<now, timeStamp, place, messenger>>
  BY <1>7 DEF Stamps
<1>8. CASE ReceiveTick
  BY <1>8 DEF ReceiveTick, Stamps
<1> QED
  BY <1>1, <1>2, <1>3, <1>4, <1>5, <1>6, <1>7, <1>8
  DEF Next, MessengerStep, CollectorStep, CollectorWakes, CollectorLocks, KeepEntry,
      CollectorUnlocks, ReaderStep, bbGetMessage, SkipEntry, FindNothing, FindEntry,
      CountAccess, bbDoneWithData, StoreRelease, bbGetActiveNotifications, ReadTick, vars

-----------------------------------------------------------------------------
(* The order of the lists                                                  *)

\* Caught or trapped, the collector stays so: every step of it is a discard.
LEMMA TrapStays ==
  ASSUME Typed, MutexOwned, Messaging, \A r \in Readers : Reading(r), Others, Collecting,
         [Next]_vars, Trapped
  PROVE  Trapped' /\ (Caught => Caught')
<1>0. /\ collector.at = "walk" /\ collector.d \in Entries /\ bbFreelist \in Entries
      /\ place[collector.d] \in {Zeroth, "free"} /\ place[bbFreelist] = "free"
      /\ Discardable(collector.d) /\ Discardable(bbFreelist)
      /\ collector.d # Null /\ bbFreelist # Null
  BY NamesAssumption DEF Trapped, Collecting, Typed, CollectorStates, Pointer
<1>1. CASE UNCHANGED <<bbFreelist, place, collector>> /\ ~Tick
  <2>1. \A e \in Entries : place[e] \in {Zeroth, "free"} =>
          timeStamp'[e] = timeStamp[e] /\ accessCount'[e] = accessCount[e]
    BY <1>1, QuietEntries
  <2>2. Discardable(collector.d)' /\ Discardable(bbFreelist)'
    BY <1>0, <1>1, <2>1 DEF Discardable, Discard
  <2> QED BY <1>0, <1>1, <2>2 DEF Trapped, Caught
<1>2. CASE Tick
  BY <1>0, <1>2 DEF Tick, Trapped, Caught, Discardable, Discard
<1>3. CASE DiscardEntry
  <2>1. /\ bbFreelist' = collector.d /\ collector'.d = bbFreelist /\ collector'.at = "walk"
        /\ collector'.last = collector.last /\ collector'.now = collector.now
        /\ timeStamp' = timeStamp /\ accessCount' = accessCount
        /\ place' = [place EXCEPT ![collector.d] = "free"]
    BY <1>0, <1>3 DEF DiscardEntry, Typed, CollectorStates
  <2>2. place'[bbFreelist] = "free"
    BY <1>0, <2>1 DEF Typed
  <2>3. \A e \in Entries : Discardable(e)' <=> Discardable(e)
    BY <2>1 DEF Discardable, Discard
  <2> QED BY <1>0, <2>1, <2>2, <2>3 DEF Trapped, Caught
<1>4. ~KeepEntry /\ ~CollectorUnlocks /\ ~CollectorWakes /\ ~CollectorLocks
  BY <1>0 DEF KeepEntry, CollectorUnlocks, CollectorWakes, CollectorLocks
<1>5. ~bbAddToMsgList /\ \A t \in Types : ~bbGetFreeEntry(t)
  BY <1>0, NamesAssumption DEF bbAddToMsgList, bbGetFreeEntry, Unlocked, MutexOwned
<1> QED
  BY <1>1, <1>2, <1>3, <1>4, <1>5
  DEF Next, MessengerStep, ReceiveTick, UpdateTick, FillEntry, CollectorStep,
      ReaderStep, bbGetMessage, SkipEntry, FindNothing, FindEntry, CountAccess,
      bbDoneWithData, StoreRelease, bbGetActiveNotifications, ReadTick, Tick, vars

\* Entries enter a list only by bbAddToMsgList; in a list stamps never go back.
LEMMA ListedBefore ==
  ASSUME Typed, Messaging, \A r \in Readers : Reading(r), Collecting, Stamps,
         [Next]_vars, ~bbAddToMsgList,
         NEW e \in Entries, place'[e] \in Types
  PROVE  /\ place[e] = place'[e]
         /\ timeStamp[e] <= timeStamp'[e]
         /\ place[e] # TickType => timeStamp'[e] = timeStamp[e]
<1>1. place[e] = place'[e]
  <2>1. CASE UNCHANGED place
    BY <2>1
  <2>2. ASSUME NEW t \in Types, bbGetFreeEntry(t)
        PROVE  place[e] = place'[e]
    BY <2>2, PlacesApart DEF bbGetFreeEntry, Unallocated, Typed
  <2>3. CASE DiscardEntry
    BY <2>3, PlacesApart DEF DiscardEntry, Typed
  <2> QED
    BY <2>1, <2>2, <2>3
    DEF Next, MessengerStep, ReceiveTick, UpdateTick, FillEntry,
        CollectorStep, CollectorWakes, CollectorLocks, KeepEntry, CollectorUnlocks,
        ReaderStep, bbGetMessage, SkipEntry, FindNothing, FindEntry, CountAccess,
        bbDoneWithData, StoreRelease, bbGetActiveNotifications, ReadTick, Tick, vars
<1>2. place[e] # TickType => timeStamp'[e] = timeStamp[e]
  <2>1. CASE place[e] = Zeroth
    <3>1. Tick => timeStamp' = timeStamp
      BY DEF Tick
    <3> QED BY <2>1, <3>1, QuietEntries
  <2>2. CASE place[e] # Zeroth
    BY <1>1, <2>2, EntriesStay
  <2> QED BY <2>1, <2>2
<1>3. place[e] = TickType => timeStamp[e] <= timeStamp'[e]
  <2>1. CASE UpdateTick
    BY <2>1 DEF UpdateTick, Stamps, Typed
  <2>2. CASE FillEntry
    BY <2>2, PlacesApart DEF FillEntry, Messaging, Typed
  <2>3. CASE UNCHANGED timeStamp
    BY <2>3 DEF Typed
  <2> QED
    BY <2>1, <2>2, <2>3
    DEF Next, MessengerStep, ReceiveTick, bbGetFreeEntry,
        CollectorStep, CollectorWakes, CollectorLocks, DiscardEntry, KeepEntry,
        CollectorUnlocks, ReaderStep, bbGetMessage, SkipEntry, FindNothing, FindEntry,
        CountAccess, bbDoneWithData, StoreRelease, bbGetActiveNotifications, ReadTick, Tick, vars
<1> QED BY <1>1, <1>2, <1>3 DEF Typed

\* The lists of the other types are changed only by bbAddToMsgList.
LEMMA OthersUnchanged ==
  ASSUME Typed, Messaging, Collecting, [Next]_vars, ~bbAddToMsgList
  PROVE  /\ \A t \in Types \ {Zeroth} : rawBlackboardData'[t] = rawBlackboardData[t]
         /\ \A e \in Entries : place[e] \in Types \ {Zeroth} => next'[e] = next[e]
<1>1. CASE DiscardEntry
  BY <1>1, DiscardFacts, PlacesApart DEF DiscardEntry, Typed
<1>2. CASE UNCHANGED <<rawBlackboardData, next>>
  BY <1>2
<1> QED
  BY <1>1, <1>2
  DEF Next, MessengerStep, ReceiveTick, UpdateTick, bbGetFreeEntry, FillEntry,
      CollectorStep, CollectorWakes, CollectorLocks, KeepEntry, CollectorUnlocks,
      ReaderStep, bbGetMessage, SkipEntry, FindNothing, FindEntry, CountAccess,
      bbDoneWithData, StoreRelease, bbGetActiveNotifications, ReadTick, Tick, vars

\* Without an addition the ranks stay as they are.
LEMMA RankedStays ==
  ASSUME Typed, MutexOwned, Messaging, Ticking, \A r \in Readers : Reading(r), Others,
         Collecting, Stamps, [Next]_vars, ~bbAddToMsgList,
         NEW rank \in [Entries -> Int], NEW bound \in Int, Ranked(rank, bound)
  PROVE  Ranked(rank, bound)'
<1>1. \A e \in Entries : place'[e] \in Types =>
        place[e] = place'[e] /\ (place[e] # TickType => timeStamp'[e] = timeStamp[e])
  BY ListedBefore
<1>2. ASSUME NEW e \in Entries, NEW f \in Entries,
             place'[e] = place'[f], place'[e] \in Types, rank[f] < rank[e]
      PROVE  timeStamp'[f] <= timeStamp'[e]
  <2>1. place[e] # TickType
    <3>1. e # f
      BY <1>2
    <3> QED BY <1>1, <1>2, <3>1 DEF Ticking
  <2> QED BY <1>1, <1>2, <2>1 DEF Ranked
<1> QED BY <1>1, <1>2 DEF Ranked

LEMMA LinkedStays ==
  ASSUME Typed, Messaging, \A r \in Readers : Reading(r), Collecting, Stamps,
         [Next]_vars, ~bbAddToMsgList,
         NEW rank \in [Entries -> Int], Linked(rank)
  PROVE  Linked(rank)'
<1>1. \A e \in Entries : place'[e] \in Types => place[e] = place'[e]
  BY ListedBefore
<1>2. \A e \in Entries : place'[e] \in Types \ {Zeroth} =>
        /\ rawBlackboardData'[place'[e]] = rawBlackboardData[place[e]]
        /\ next'[e] = next[e] /\ place[e] \in Types \ {Zeroth}
  BY <1>1, OthersUnchanged
<1> QED BY <1>1, <1>2 DEF Linked

LEMMA DescendingStays ==
  ASSUME Typed, MutexOwned, Messaging, \A r \in Readers : Reading(r), Others,
         Collecting, Stamps, [Next]_vars, ~bbAddToMsgList,
         NEW rank \in [Entries -> Int], Descending(rank)
  PROVE  Descending(rank)'
<1>1. \A e \in Entries : place'[e] \in Types => place[e] = place'[e]
  BY ListedBefore
<1>2. Caught => Caught'
  BY TrapStays DEF Caught
<1>3. CASE next' = next
  BY <1>1, <1>2, <1>3, LocalStates DEF Descending
<1>4. CASE DiscardEntry /\ ~Caught
  <2> DEFINE d == collector.d
             parent == collector.parent
  <2>1. /\ Whole(Zeroth, rawBlackboardData[Zeroth]) /\ Whole("free", bbFreelist)
        /\ Between \/ Strayed
    BY <1>4, DiscardFacts DEF Collecting
  <2>2. /\ collector.at = "walk" /\ d \in Entries /\ Discardable(d) /\ Null \notin Entries
        /\ parent # Null => parent \in Entries
    BY <1>4, DiscardFacts, NamesAssumption
  <2>3. Between
    <3>1. ASSUME Strayed PROVE FALSE
      <4>1. bbFreelist \in Entries /\ place[bbFreelist] = "free"
        BY <3>1 DEF Strayed, Collecting, Typed, Pointer
      <4>2. place[d] = "free"
        BY <2>1, <2>2, <3>1, <4>1 DEF Strayed, Whole
      <4> QED BY <1>4, <2>2, <3>1, <4>2 DEF Strayed, Caught, Trapped
    <3> QED BY <2>1, <3>1
  <2>4. \/ parent = Null /\ next' = [next EXCEPT ![d] = bbFreelist]
        \/ /\ parent \in Entries /\ next[parent] = d
           /\ next' = [next EXCEPT ![parent] = next[d], ![d] = bbFreelist]
    BY <1>4, <2>2, <2>3 DEF DiscardEntry, Between
  <2>5. place' = [place EXCEPT ![d] = "free"] /\ Zeroth # "free" /\ Zeroth \in Types
    BY <1>4, NamesAssumption DEF DiscardEntry, Types
  <2> HIDE DEF d, parent
  <2>6. \A e \in Entries : place'[e] = Zeroth => e # d /\ place[e] = Zeroth
    BY <2>2, <2>5 DEF Typed
  <2>7. SUFFICES ASSUME NEW e \in Entries, e # d, place[e] = Zeroth, next'[e] # Null
                 PROVE  rank[next'[e]] < rank[e]
    BY <2>6 DEF Descending
  <2>8. CASE next'[e] = next[e]
    BY <1>4, <2>7, <2>8 DEF Descending
  <2>9. CASE next'[e] # next[e]
    <3>1. e = parent /\ next[e] = d /\ next'[e] = next[d]
      BY <2>2, <2>4, <2>7, <2>9 DEF Typed
    <3>2. place[d] = Zeroth
      BY <2>1, <2>2, <2>7, <3>1 DEF Whole
    <3>3. rank[d] < rank[e] /\ rank[next[d]] < rank[d]
      BY <1>4, <2>2, <2>7, <3>1, <3>2 DEF Descending
    <3>4. next[d] \in Entries
      BY <2>2, <2>7, <3>1 DEF Typed, Pointer
    <3> QED BY <2>2, <3>1, <3>3, <3>4
  <2> QED BY <2>8, <2>9
<1>5. CASE DiscardEntry /\ Caught
  BY <1>2, <1>5 DEF Descending
<1> QED
  BY <1>3, <1>4, <1>5
  DEF Next, MessengerStep, ReceiveTick, UpdateTick, bbGetFreeEntry, FillEntry,
      CollectorStep, CollectorWakes, CollectorLocks, KeepEntry, CollectorUnlocks,
      ReaderStep, bbGetMessage, SkipEntry, FindNothing, FindEntry, CountAccess,
      bbDoneWithData, StoreRelease, bbGetActiveNotifications, ReadTick, Tick, vars

LEMMA PassedStays ==
  ASSUME Typed, MutexOwned, Messaging, \A r \in Readers : Reading(r), Others,
         Collecting, Stamps, [Next]_vars, ~bbAddToMsgList,
         NEW rank \in [Entries -> Int], NEW bound \in Int,
         Linked(rank), Ranked(rank, bound),
         NEW s \in Readers, Passed(rank, s)
  PROVE  Passed(rank, s)'
<1>1. \A e \in Entries : place'[e] \in Types =>
        place[e] = place'[e] /\ timeStamp[e] <= timeStamp'[e]
  BY ListedBefore
<1>2. CASE reader'[s] = reader[s]
  <2>1. reader[s].type \in Types /\ reader[s].stamp \in Int
    BY DEF Typed, ReaderStates
  <2>2. SUFFICES ASSUME reader[s].at = "walk", NEW e \in Entries,
                        place'[e] = reader[s].type, timeStamp'[e] <= reader[s].stamp
                 PROVE  reader[s].e # Null /\ rank[e] <= rank[reader[s].e]
    BY <1>2 DEF Passed
  <2>3. timeStamp[e] <= reader[s].stamp
    <3>1. timeStamp[e] \in Int /\ timeStamp'[e] \in Int
      BY TypedStep DEF Typed
    <3> QED BY <1>1, <2>1, <2>2, <3>1
  <2> QED BY <1>1, <2>1, <2>2, <2>3 DEF Passed
<1>3. ASSUME bbGetMessage(s) PROVE Passed(rank, s)'
  <2>1. PICK t \in Readable : /\ reader'[s].type = t
                              /\ reader'[s].e = rawBlackboardData[t]
    BY <1>3 DEF bbGetMessage, Typed
  <2> QED BY <1>3, <2>1, PlacesApart DEF bbGetMessage, Linked, Passed
<1>4. ASSUME SkipEntry(s) PROVE Passed(rank, s)'
  <2> DEFINE e == reader[s].e
             t == reader[s].type
  <2>1. /\ e \in Entries /\ t \in Types \ {Zeroth} /\ place[e] = t
        /\ reader[s].at = "walk" /\ timeStamp[e] > reader[s].stamp
        /\ reader[s].stamp \in Int
    BY <1>4, PlacesApart DEF SkipEntry, TooLate, Reading, Typed, ReaderStates, Pointer
  <2>2. /\ reader'[s].type = t /\ reader'[s].e = next[e] /\ reader'[s].stamp = reader[s].stamp
        /\ place' = place /\ timeStamp' = timeStamp
    BY <1>4 DEF SkipEntry, Typed, ReaderStates
  <2> HIDE DEF e, t
  <2>3. ASSUME NEW f \in Entries, place[f] = t, timeStamp[f] <= reader[s].stamp
        PROVE  next[e] # Null /\ rank[f] <= rank[next[e]]
    <3>1. rank[f] <= rank[e]
      BY <2>1, <2>3 DEF Passed, e, t
    <3>2. f # e
      BY <2>1, <2>3 DEF Typed
    <3>3. rank[f] < rank[e]
      BY <2>1, <2>3, <3>1, <3>2 DEF Ranked
    <3> QED BY <2>1, <2>3, <3>3 DEF Linked
  <2> QED BY <2>2, <2>3 DEF Passed
<1>5. ASSUME \/ FindNothing(s) \/ FindEntry(s) \/ CountAccess(s) \/ bbDoneWithData(s)
             \/ StoreRelease(s) \/ bbGetActiveNotifications(s) \/ ReadTick(s)
      PROVE  Passed(rank, s)'
  <2>1. reader[s] \in ReaderStates
    BY DEF Typed
  <2>2. FindNothing(s) \/ StoreRelease(s) \/ ReadTick(s) => reader'[s].at = "away"
    BY DEF FindNothing, StoreRelease, ReadTick, Away, Typed
  <2>3. FindEntry(s) => reader'[s].at = "count"
    BY <2>1 DEF FindEntry, Typed, ReaderStates
  <2>4. CountAccess(s) => reader'[s].at = "holding"
    BY <2>1 DEF CountAccess, Typed, ReaderStates
  <2>5. bbDoneWithData(s) => reader'[s].at = "release"
    BY <2>1 DEF bbDoneWithData, Typed, ReaderStates
  <2>6. bbGetActiveNotifications(s) => reader'[s].at = "peek"
    BY DEF bbGetActiveNotifications, Away, Typed
  <2> QED BY <1>5, <2>2, <2>3, <2>4, <2>5, <2>6 DEF Passed
<1> QED
  BY <1>2, <1>3, <1>4, <1>5, ReaderMoves DEF ReaderStep

\* An entry that is added gets the next rank.
LEMMA OrderGrows ==
  ASSUME Typed, MutexOwned, Messaging, Ticking, Others, Collecting, Stamps,
         bbAddToMsgList,
         NEW rank \in [Entries -> Int], NEW bound \in Int, Ordered(rank, bound)
  PROVE  Order'
<1> DEFINE m == messenger.e
           t == messenger.type
<1>1. /\ m \in Entries /\ place[m] = "messenger" /\ t \in Types
      /\ t = TickType => rawBlackboardData[TickType] = Null
      /\ messenger.at = "add"
  BY DEF bbAddToMsgList, Messaging, Typed, MessengerStates
<1>2. /\ next' = [next EXCEPT ![m] = rawBlackboardData[t]]
      /\ rawBlackboardData' = [rawBlackboardData EXCEPT ![t] = m]
      /\ place' = [place EXCEPT ![m] = t]
      /\ UNCHANGED <<timeStamp, reader, collector, bbFreelist, accessCount>>
  BY DEF bbAddToMsgList
<1>3. \A e \in Entries : place[e] = t => timeStamp[e] <= timeStamp[m] /\ t # TickType
  BY <1>1, NamesAssumption DEF Stamps, Ticking
<1>4. Null \notin Entries /\ "messenger" \notin Types /\ Zeroth \in Types
  BY PlacesApart, LocalStates, NamesAssumption
<1>0. PICK higher \in [Entries -> Int] : higher = [rank EXCEPT ![m] = bound]
  BY <1>1
<1>5. /\ \A e \in Entries : place[e] \in Types => e # m /\ higher[e] = rank[e] /\ rank[e] < bound
      /\ higher[m] = bound
  BY <1>0, <1>1, <1>4 DEF Ordered, Ranked
<1>6. \A e \in Entries : place'[e] = IF e = m THEN t ELSE place[e]
  BY <1>1, <1>2 DEF Typed
<1>7. \A e \in Entries : higher[e] < bound + 1
  BY <1>0, <1>1, <1>5 DEF Ordered, Ranked
<1>8. Ranked(higher, bound + 1)'
  <2>1. ASSUME NEW e \in Entries, NEW f \in Entries,
               place'[e] = place'[f], place'[e] \in Types
        PROVE  /\ higher[e] = higher[f] => e = f
               /\ higher[f] < higher[e] => timeStamp'[f] <= timeStamp'[e]
    <3>1. CASE e = m
      BY <1>1, <1>2, <1>3, <1>5, <1>6, <2>1, <3>1 DEF Typed
    <3>2. CASE f = m /\ e # m
      BY <1>1, <1>5, <1>6, <2>1, <3>2
    <3>3. CASE e # m /\ f # m
      <4>1. place[e] = place[f] /\ place[e] \in Types
        BY <1>6, <2>1, <3>3
      <4> QED BY <1>2, <1>5, <4>1 DEF Ordered, Ranked
    <3> QED BY <3>1, <3>2, <3>3
  <2> QED BY <1>7, <2>1 DEF Ranked
<1>9. Linked(higher)'
  <2>1. ASSUME NEW e \in Entries, place'[e] \in Types \ {Zeroth}
        PROVE  /\ rawBlackboardData'[place'[e]] # Null
               /\ higher[e] <= higher[rawBlackboardData'[place'[e]]]
               /\ next'[e] # Null => higher[next'[e]] < higher[e]
               /\ \A f \in Entries : place'[f] = place'[e] /\ higher[f] < higher[e] =>
                    next'[e] # Null /\ higher[f] <= higher[next'[e]]
    <3>0. \A u \in Types \ {Zeroth} : rawBlackboardData[u] # Null =>
            rawBlackboardData[u] \in Entries /\ place[rawBlackboardData[u]] = u
      BY DEF Others, Whole, Typed, Pointer
    <3>1. CASE e = m
      <4>1. /\ place'[e] = t /\ rawBlackboardData'[t] = m /\ next'[e] = rawBlackboardData[t]
            /\ t \in Types \ {Zeroth}
        BY <1>1, <1>2, <1>6, <2>1, <3>1 DEF Typed
      <4>2. next'[e] # Null => higher[next'[e]] < higher[e]
        BY <1>5, <3>0, <3>1, <4>1
      <4>3. ASSUME NEW f \in Entries, place'[f] = t, higher[f] < higher[e]
            PROVE  next'[e] # Null /\ higher[f] <= higher[next'[e]]
        <5>1. f # m /\ place[f] = t
          BY <1>5, <1>6, <3>1, <4>3
        <5>2. rawBlackboardData[t] # Null /\ rank[f] <= rank[rawBlackboardData[t]]
          BY <4>1, <5>1 DEF Ordered, Linked
        <5> QED BY <1>5, <3>0, <4>1, <5>1, <5>2
      <4> QED BY <1>1, <1>4, <1>5, <3>1, <4>1, <4>2, <4>3
    <3>2. CASE e # m
      <4>1. place'[e] = place[e] /\ next'[e] = next[e] /\ place[e] \in Types \ {Zeroth}
        BY <1>1, <1>2, <1>6, <2>1, <3>2 DEF Typed
      <4>2. /\ rawBlackboardData[place[e]] # Null
            /\ rank[e] <= rank[rawBlackboardData[place[e]]]
            /\ next[e] # Null => rank[next[e]] < rank[e]
            /\ \A f \in Entries : place[f] = place[e] /\ rank[f] < rank[e] =>
                 next[e] # Null /\ rank[f] <= rank[next[e]]
        BY <4>1 DEF Ordered, Linked
      <4>3. next[e] # Null => next[e] \in Entries /\ place[next[e]] = place[e]
        BY <4>1 DEF Others, Whole, Typed, Pointer
      <4>4. /\ rawBlackboardData'[place[e]] # Null
            /\ higher[e] <= higher[rawBlackboardData'[place[e]]]
        <5>1. CASE place[e] = t
          BY <1>1, <1>2, <1>4, <1>5, <4>1, <5>1 DEF Typed
        <5>2. CASE place[e] # t
          BY <1>1, <1>2, <1>5, <3>0, <4>1, <4>2, <5>2 DEF Typed
        <5> QED BY <5>1, <5>2
      <4>5. next[e] # Null => higher[next[e]] < higher[e]
        BY <1>5, <4>1, <4>2, <4>3
      <4>6. ASSUME NEW f \in Entries, place'[f] = place[e], higher[f] < higher[e]
            PROVE  next[e] # Null /\ higher[f] <= higher[next[e]]
        <5>1. f # m
          BY <1>1, <1>5, <4>1, <4>6
        <5>2. place[f] = place[e]
          BY <1>6, <4>6, <5>1
        <5> QED BY <1>5, <4>1, <4>2, <4>3, <4>6, <5>2
      <4> QED BY <4>1, <4>4, <4>5, <4>6
    <3> QED BY <3>1, <3>2
  <2> QED BY <2>1 DEF Linked
<1>10. collector.at # "walk" /\ \A r \in Readers : reader[r].at # "walk"
  BY NamesAssumption DEF bbAddToMsgList, Unlocked, MutexOwned
<1>11. Descending(higher)'
  <2>1. ~Caught
    BY <1>10 DEF Caught, Trapped
  <2>2. Whole(Zeroth, rawBlackboardData[Zeroth])
    BY <2>1 DEF Collecting
  <2>3. ASSUME NEW e \in Entries, place'[e] = Zeroth, next'[e] # Null
        PROVE  higher[next'[e]] < higher[e]
    <3>1. CASE e = m
      <4>1. t = Zeroth /\ next'[e] = rawBlackboardData[Zeroth]
        BY <1>1, <1>2, <1>6, <2>3, <3>1 DEF Typed
      <4>2. next'[e] \in Entries /\ place[next'[e]] = Zeroth
        BY <1>4, <2>2, <2>3, <4>1 DEF Whole, Typed, Pointer
      <4> QED BY <1>4, <1>5, <3>1, <4>2
    <3>2. CASE e # m
      <4>1. place[e] = Zeroth /\ next'[e] = next[e]
        BY <1>1, <1>2, <1>6, <2>3, <3>2 DEF Typed
      <4>2. next[e] \in Entries /\ place[next[e]] = Zeroth
        BY <2>2, <2>3, <4>1 DEF Whole, Typed, Pointer
      <4>3. rank[next[e]] < rank[e]
        BY <2>1, <2>3, <4>1 DEF Ordered, Descending
      <4> QED BY <1>4, <1>5, <4>1, <4>2, <4>3
    <3> QED BY <3>1, <3>2
  <2> QED BY <2>3 DEF Descending
<1>12. \A r \in Readers : Passed(higher, r)'
  BY <1>2, <1>10 DEF Passed
<1>13. Ordered(higher, bound + 1)'
  <2> QED BY <1>8, <1>9, <1>11, <1>12 DEF Ordered
<1> QED
  <2>1. bound + 1 \in Int
    OBVIOUS
  <2> QED BY <1>13, <2>1 DEF Order

LEMMA OrderStep ==
  ASSUME Typed, MutexOwned, Messaging, Ticking, \A r \in Readers : Reading(r), Others,
         Collecting, Stamps, Order, [Next]_vars
  PROVE  Order'
<1>1. PICK rank \in [Entries -> Int], bound \in Int : Ordered(rank, bound)
  BY DEF Order
<1>2. CASE bbAddToMsgList
  BY <1>1, <1>2, OrderGrows
<1>3. CASE ~bbAddToMsgList
  <2>1. Ranked(rank, bound)' /\ Linked(rank)' /\ Descending(rank)'
    BY <1>1, <1>3, RankedStays, LinkedStays, DescendingStays DEF Ordered
  <2>2. \A r \in Readers : Passed(rank, r)'
    BY <1>1, <1>3, PassedStays DEF Ordered
  <2>3. Ordered(rank, bound)'
    BY <2>1, <2>2 DEF Ordered
  <2> QED BY <2>3 DEF Order
<1> QED BY <1>2, <1>3

-----------------------------------------------------------------------------
(* The invariant and what follows from it                                  *)

LEMMA InvInit == Init => Inv
<1> SUFFICES ASSUME Init PROVE Inv
  OBVIOUS
<1> USE DEF Init
<1>1. \A e \in Entries : place[e] \in {"free", "unallocated"} /\ next[e] = Null
  OBVIOUS
<1>2. Typed
  BY LocalStates, ClockAssumption DEF Typed, Pointer, Places
<1>3. MutexOwned
  BY NamesAssumption DEF MutexOwned, Asleep, Away
<1>4. Messaging /\ Ticking /\ \A r \in Readers : Reading(r)
  BY <1>1, PlacesApart DEF Messaging, Ticking, Reading, Idle, Away
<1>5. Others
  BY <1>1 DEF Others, Whole
<1>6. Collecting
  <2>1. Whole(Zeroth, rawBlackboardData[Zeroth])
    BY <1>1, LocalStates DEF Whole
  <2>2. bbFreelist # Null => place[bbFreelist] = "free"
    BY DEF Pointer
  <2>3. Whole("free", bbFreelist)
    BY <1>1, <2>2 DEF Whole
  <2> QED BY <2>1, <2>2, <2>3 DEF Collecting, Asleep
<1>7. Stamps
  BY ClockAssumption DEF Stamps, Idle
<1>8. Order
  <2> DEFINE rank == [e \in Entries |-> 0]
  <2>1. rank \in [Entries -> Int] /\ \A e \in Entries : rank[e] < 1
    OBVIOUS
  <2>2. \A e \in Entries : place[e] \notin Types
    BY <1>1, PlacesApart
  <2>3. \A r \in Readers : reader[r].at # "walk"
    BY DEF Away
  <2> HIDE DEF rank
  <2>4. Ranked(rank, 1) /\ Linked(rank) /\ Descending(rank)
    BY <2>1, <2>2, LocalStates DEF Ranked, Linked, Descending
  <2>5. Ordered(rank, 1)
    BY <2>3, <2>4 DEF Ordered, Passed
  <2> QED BY <2>1, <2>5 DEF Order
<1> QED BY <1>2, <1>3, <1>4, <1>5, <1>6, <1>7, <1>8 DEF Inv, TypeOK

LEMMA InvStep == Inv /\ [Next]_vars => Inv'
BY TypedStep, MutexStep, MessagingStep, TickingStep, ReadingStep, OthersStep,
   CollectingStep, StampsStep, OrderStep DEF Inv, TypeOK

LEMMA Invariance == Spec => []Inv
BY InvInit, InvStep, PTL DEF Spec

\* The variables keep their types, and the mutex is never held by two threads.
THEOREM Typing == Spec => []TypeOK
<1>1. Inv => TypeOK
  BY DEF Inv
<1> QED BY <1>1, Invariance, PTL

\* The lists of rawBlackboardData and the free list never run into each other, also
\* inside the collector's section, for as long as its walk is not caught.
THEOREM ListsStayWhole == Spec => []ListsWhole
<1>1. Inv => ListsWhole
  BY DEF Inv, Others, Collecting, ListsWhole
<1> QED BY <1>1, Invariance, PTL

\* So they are whole whenever another thread can see them, for a walk that is caught
\* has the mutex.
THEOREM ListsSeenWhole ==
  Spec => [](bbFreeMtx # Collector => \A t \in Types : Whole(t, rawBlackboardData[t]))
<1>1. Inv => (bbFreeMtx # Collector => \A t \in Types : Whole(t, rawBlackboardData[t]))
  <2> SUFFICES ASSUME Inv, bbFreeMtx # Collector
               PROVE  \A t \in Types : Whole(t, rawBlackboardData[t])
    OBVIOUS
  <2>1. ~Caught
    BY DEF Inv, TypeOK, MutexOwned, Caught, Trapped
  <2> QED BY <2>1 DEF Inv, Others, Collecting
<1> QED BY <1>1, Invariance, PTL

\* What bbGetMessage has returned is not taken away before bbDoneWithData, for
\* all that the two update accessCount in a race.
THEOREM HeldStay == Spec => []HeldStays
<1>1. Inv => HeldStays
  BY DEF Inv, HeldStays, Reading
<1> QED BY <1>1, Invariance, PTL

\* There is one tick entry, and it is there when a pointer to it is followed.
THEOREM OneTick == Spec => []OneTickEntry
<1>1. Inv => OneTickEntry
  BY DEF Inv, Messaging, Ticking, Reading, OneTickEntry
<1> QED BY <1>1, Invariance, PTL

\* bbGetMessage finds the latest entry that is old enough.
THEOREM FindsLatest == Spec => FoundIsLatest
<1>1. ASSUME Inv, [Next]_vars, NEW r \in Readers
      PROVE  EndsAtLatest(r)
  <2> SUFFICES ASSUME reader[r].at = "walk", reader'[r].at # "walk", NEW e \in Entries,
                      place[e] = reader[r].type, timeStamp[e] <= reader[r].stamp
               PROVE  reader'[r].at = "count" /\ timeStamp[e] <= reader'[r].stamp
    BY DEF EndsAtLatest
  <2>1. PICK rank \in [Entries -> Int], bound \in Int : Ordered(rank, bound)
    BY <1>1 DEF Inv, Order
  <2> DEFINE f == reader[r].e
  <2>2. /\ f # Null /\ f \in Entries /\ rank[e] <= rank[f]
        /\ place[f] = reader[r].type /\ reader[r].type \in Types
    BY <1>1, <2>1 DEF Inv, TypeOK, Typed, ReaderStates, Pointer, Ordered, Passed, Reading
  <2>3. FindEntry(r)
    BY <1>1, <2>2, ReaderMoves
    DEF Inv, TypeOK, ReaderStep, bbGetMessage, SkipEntry, FindNothing, CountAccess,
        bbDoneWithData, StoreRelease, bbGetActiveNotifications, ReadTick, Typed, ReaderStates
  <2>4. reader'[r].at = "count" /\ reader'[r].stamp = timeStamp[f]
    BY <1>1, <2>3 DEF FindEntry, Inv, TypeOK, Typed, ReaderStates
  <2>5. timeStamp[e] <= timeStamp[f]
    <3>1. CASE e = f
      BY <1>1, <3>1 DEF Inv, TypeOK, Typed
    <3>2. CASE e # f
      <4>1. rank[e] < rank[f]
        BY <2>1, <2>2, <3>2 DEF Ordered, Ranked
      <4> QED BY <2>1, <2>2, <4>1 DEF Ordered, Ranked
    <3> QED BY <3>1, <3>2
  <2> QED BY <2>4, <2>5
<1>2. Inv /\ [Next]_vars => [\A r \in Readers : EndsAtLatest(r)]_vars
  BY <1>1
<1> QED BY <1>2, Invariance, PTL DEF Spec, FoundIsLatest

\* Thinning out keeps an entry for every slot of the history.
THEOREM SlotsCovered == Spec => SlotsStayCovered
<1>1. ASSUME Inv, [Next]_vars, NEW e \in Entries
      PROVE  LeavesCover(e)
  <2> DEFINE age == collector.now - timeStamp[e]
             head == rawBlackboardData[Zeroth]
             f == collector.parent
  <2> SUFFICES ASSUME place[e] = Zeroth, place'[e] = "free",
                      collector.now - timeStamp[head] < Fresh, age < Day
               PROVE  \E g \in Entries \ {e} :
                        /\ place'[g] = Zeroth
                        /\ timeStamp[g] >= timeStamp[e]
                        /\ SameSlot(timeStamp[e], timeStamp[g], age)
    BY DEF LeavesCover
  <2>0. Zeroth \in Types /\ Zeroth \notin {"free", "messenger", "unallocated"}
    BY PlacesApart, LocalStates
  <2>1. DiscardEntry /\ collector.d = e
    <3>1. CASE UNCHANGED place
      BY <2>0, <3>1
    <3>2. ASSUME NEW t \in Types, bbGetFreeEntry(t)
          PROVE  FALSE
      BY <1>1, <2>0, <3>2 DEF bbGetFreeEntry, Unallocated, Inv, TypeOK, Typed
    <3>3. ASSUME bbAddToMsgList
          PROVE  FALSE
      BY <1>1, <2>0, <3>3, PlacesApart
      DEF bbAddToMsgList, Inv, Messaging, TypeOK, Typed, MessengerStates
    <3>4. DiscardEntry => collector.d = e
      BY <1>1, <2>0 DEF DiscardEntry, Inv, TypeOK, Typed
    <3> QED
      BY <1>1, <2>0, <3>1, <3>2, <3>3, <3>4
      DEF Next, MessengerStep, ReceiveTick, UpdateTick, FillEntry,
          CollectorStep, CollectorWakes, CollectorLocks, KeepEntry, CollectorUnlocks,
          ReaderStep, bbGetMessage, SkipEntry, FindNothing, FindEntry, CountAccess,
          bbDoneWithData, StoreRelease, bbGetActiveNotifications, ReadTick, Tick, vars
  <2>2. /\ collector.at = "walk" /\ Discardable(e) /\ f \in Pointer
        /\ f # Null => f \in Entries /\ place[f] \in {Zeroth, "free"}
                       /\ collector.last = timeStamp[f]
    BY <1>1, <2>1, DiscardFacts DEF Inv, TypeOK, Collecting
  <2>3. ~Caught
    BY <2>0, <2>1 DEF Caught
  <2>4. Whole(Zeroth, head) /\ Whole("free", bbFreelist) /\ (Between \/ Strayed)
    BY <1>1, <2>2, <2>3 DEF Inv, Collecting
  <2>5. Between
    <3>1. ASSUME Strayed PROVE FALSE
      <4>1. bbFreelist \in Entries /\ place[bbFreelist] = "free" /\ e # Null
        BY <1>1, <3>1, NamesAssumption DEF Strayed, Inv, Collecting, TypeOK, Typed, Pointer
      <4> QED BY <2>0, <2>1, <2>4, <3>1, <4>1 DEF Strayed, Whole
    <3> QED BY <2>4, <3>1
  <2>6. Fresh <= age /\ SameSlot(timeStamp[e], collector.last, age)
    <3>1. age \in Int /\ Day \in Int
      BY <1>1, ClockAssumption DEF Inv, TypeOK, Typed, CollectorStates
    <3> QED BY <2>2, <3>1 DEF Discardable, Discard
  <2>7. f # Null
    <3>1. ASSUME f = Null PROVE FALSE
      <4>1. head = e
        BY <2>1, <2>5, <3>1 DEF Between
      <4>2. age \in Int /\ Fresh \in Int
        BY <1>1, ClockAssumption DEF Inv, TypeOK, Typed, CollectorStates
      <4> QED BY <2>6, <4>1, <4>2
    <3> QED BY <3>1
  <2>8. f \in Entries /\ next[f] = e /\ place[f] = Zeroth
    <3>1. f \in Entries /\ next[f] = e /\ e # Null
      BY <2>1, <2>2, <2>5, <2>7, NamesAssumption DEF Between
    <3> QED BY <2>0, <2>2, <2>4, <2>7, <3>1 DEF Whole
  <2>9. PICK rank \in [Entries -> Int], bound \in Int : Ordered(rank, bound)
    BY <1>1 DEF Inv, Order
  <2>10. rank[e] < rank[f]
    BY <2>3, <2>8, <2>9, NamesAssumption DEF Ordered, Descending
  <2>11. timeStamp[e] <= timeStamp[f] /\ e # f
    BY <2>0, <2>8, <2>9, <2>10 DEF Ordered, Ranked
  <2>12. place'[f] = Zeroth
    BY <1>1, <2>1, <2>8, <2>11 DEF DiscardEntry, Inv, TypeOK, Typed
  <2>13. timeStamp[f] >= timeStamp[e] /\ SameSlot(timeStamp[e], timeStamp[f], age)
    <3>1. timeStamp[f] \in Int /\ timeStamp[e] \in Int
      BY <1>1, <2>8 DEF Inv, TypeOK, Typed
    <3> QED BY <2>2, <2>6, <2>7, <2>11, <3>1
  <2> HIDE DEF f, age
  <2> QED BY <2>8, <2>11, <2>12, <2>13
<1>2. Inv /\ [Next]_vars => [\A e \in Entries : LeavesCover(e)]_vars
  BY <1>1
<1> QED BY <1>2, Invariance, PTL DEF Spec, SlotsStayCovered

\* A collector that is to discard an entry and then the head of the free list
\* holds the mutex for ever: the loop that goes on in the free list has no end.
THEOREM TrapHasNoEnd == Spec => [][Trapped => Trapped']_vars
<1>1. Inv /\ [Next]_vars => [Trapped => Trapped']_vars
  BY TrapStays DEF Inv, TypeOK
<1> QED BY <1>1, Invariance, PTL DEF Spec
=============================================================================
