--------------------------- MODULE BrokerQProofs ----------------------------
(***************************************************************************)
(* Proofs about BrokerQ.tla for any number of queues, threads and entries. *)
(***************************************************************************)
EXTENDS BrokerQ, SequenceTheorems, TLAPS

USE DEF Null

-----------------------------------------------------------------------------
(* Linked lists *)

\* Unlinking the first entry leaves the list of the rest (PopFree,
\* UnlinkEntry): the new head is the next field of the old one.
LEMMA ListPop ==
  ASSUME NEW n \in [Entries -> Pointers], NEW s \in Seq(Entries), NEW h,
         IsList(n, h, s), h # Null, IsInjective(s)
  PROVE  /\ s # <<>>
         /\ h \in Entries
         /\ IsList([n EXCEPT ![h] = Null], n[h], Tail(s))
<1> DEFINE t == Tail(s)
           n2 == [n EXCEPT ![h] = Null]
<1>1. s # <<>> /\ h = s[1] /\ h \in Entries
  BY DEF IsList
<1>2. /\ Len(s) \in Nat \ {0}
      /\ Len(t) = Len(s) - 1
      /\ t \in Seq(Entries)
      /\ \A i \in 1..Len(t) : t[i] = s[i + 1]
  BY <1>1
<1>3. t = <<>> <=> Len(s) = 1
  <2> HIDE DEF t
  <2>1. t = <<>> => Len(t) = 0
    BY EmptySeq
  <2>2. t # <<>> => Len(t) # 0
    BY <1>2, EmptySeq
  <2> QED
    BY <1>2, <2>1, <2>2
<1>4. n[h] = IF Len(s) = 1 THEN Null ELSE s[1 + 1]
  <2>1. 1 \in 1..Len(s)
    BY <1>2
  <2> QED
    BY <2>1, <1>1 DEF IsList
<1> HIDE DEF t
<1>5. t # <<>> => t[1] = s[1 + 1] /\ t[1] \in Entries
  BY <1>2, <1>3
<1>6. n[h] = IF t = <<>> THEN Null ELSE t[1]
  BY <1>3, <1>4, <1>5
<1>7. ASSUME NEW i \in 1..Len(t)
      PROVE  n2[t[i]] = IF i = Len(t) THEN Null ELSE t[i + 1]
  <2> DEFINE j == i + 1
  <2>1. j \in 1..Len(s) /\ j # 1 /\ t[i] = s[j] /\ t[i] \in Entries
    BY <1>2
  <2>2. n2[t[i]] = n[s[j]]
    BY <2>1, <1>1, <1>2 DEF IsInjective
  <2>3. n[s[j]] = IF j = Len(s) THEN Null ELSE s[j + 1]
    BY <2>1 DEF IsList
  <2>4. j = Len(s) <=> i = Len(t)
    BY <1>2
  <2>5. i # Len(t) => j \in 1..Len(t) /\ t[j] = s[j + 1]
    BY <1>2
  <2> QED
    BY <2>2, <2>3, <2>4, <2>5
<1>9. IsList(n2, n[h], t)
  BY <1>6, <1>7 DEF IsList
<1> QED
  BY <1>1, <1>9 DEF t

\* The head is NULL exactly when the list is empty: what the code tests.
LEMMA ListEmpty ==
  ASSUME NEW n, NEW s \in Seq(Entries), NEW h, IsList(n, h, s)
  PROVE  h = Null <=> s = <<>>
<1>1. s # <<>> => 1 \in 1..Len(s) /\ s[1] \in Entries
  BY EmptySeq
<1> QED
  BY <1>1 DEF IsList, Entries

\* Taking the first entry leaves the last one last.
LEMMA TailLast ==
  ASSUME NEW s \in Seq(Entries), Tail(s) # <<>>, s # <<>>
  PROVE  Tail(s)[Len(Tail(s))] = s[Len(s)] /\ Tail(s) \in Seq(Entries)
<1> DEFINE t == Tail(s)
<1>1. /\ t \in Seq(Entries) /\ Len(t) = Len(s) - 1 /\ Len(s) \in Nat
      /\ \A i \in 1..Len(t) : t[i] = s[i + 1]
  OBVIOUS
<1> HIDE DEF t
<1>2. t # <<>>
  BY DEF t
<1>3. Len(t) \in 1..Len(t)
  BY <1>1, <1>2, EmptySeq
<1>4. t[Len(t)] = s[Len(s)]
  BY <1>1, <1>3
<1> QED
  BY <1>1, <1>4 DEF t

\* Pushing an entry whose next field is the head (AddToFreelist).
LEMMA ListPush ==
  ASSUME NEW n \in [Entries -> Pointers], NEW s \in Seq(Entries), NEW h,
         NEW e \in Entries, IsList(n, h, s), n[e] = h
  PROVE  IsList(n, e, <<e>> \o s) /\ <<e>> \o s \in Seq(Entries)
<1> DEFINE r == <<e>> \o s
<1>1. r \in Seq(Entries) /\ Len(r) = Len(s) + 1 /\ r[1] = e /\ r # <<>>
  OBVIOUS
<1>2. \A i \in 1..Len(s) : r[i + 1] = s[i]
  OBVIOUS
<1>3. ASSUME NEW i \in 1..Len(r)
      PROVE  n[r[i]] = IF i = Len(r) THEN Null ELSE r[i + 1]
  <2>1. CASE i = 1
    BY <2>1, <1>1, <1>2 DEF IsList
  <2>2. CASE i # 1
    <3>1. i - 1 \in 1..Len(s) /\ r[i] = s[i - 1]
      BY <2>2, <1>1, <1>2
    <3>2. n[s[i - 1]] = IF i - 1 = Len(s) THEN Null ELSE s[i]
      BY <3>1 DEF IsList
    <3> QED
      BY <3>1, <3>2, <1>1, <1>2
  <2> QED
    BY <2>1, <2>2
<1> QED
  BY <1>1, <1>3 DEF IsList

\* Linking an entry behind the last one (AppendQueueEntry).
LEMMA ListAppend ==
  ASSUME NEW n \in [Entries -> Pointers], NEW s \in Seq(Entries), NEW h,
         NEW e \in Entries, IsList(n, h, s), IsInjective(s),
         e \notin Range(s), n[e] = Null
  PROVE  /\ s = <<>> => IsList(n, e, Append(s, e))
         /\ s # <<>> => IsList([n EXCEPT ![s[Len(s)]] = e], h, Append(s, e))
<1> DEFINE r == Append(s, e)
<1>1. /\ Len(s) \in Nat
      /\ Len(r) = Len(s) + 1
      /\ r \in Seq(Entries)
      /\ r # <<>>
      /\ r[Len(s) + 1] = e
      /\ \A i \in 1..Len(s) : r[i] = s[i]
  OBVIOUS
<1>2. CASE s = <<>>
  BY <1>1, <1>2 DEF IsList
<1>3. CASE s # <<>>
  <2> DEFINE l == s[Len(s)]
             n2 == [n EXCEPT ![l] = e]
  <2>1. l \in Entries /\ l # e /\ Len(s) \in 1..Len(s)
    BY <1>3 DEF Range
  <2>2. ASSUME NEW i \in 1..Len(r)
        PROVE  n2[r[i]] = IF i = Len(r) THEN Null ELSE r[i + 1]
    <3>1. CASE i = Len(s) + 1
      BY <3>1, <1>1, <2>1
    <3>2. CASE i = Len(s)
      BY <3>2, <1>1, <2>1
    <3>3. CASE i \in 1..Len(s) - 1
      <4>1. s[i] # l /\ s[i] \in Entries /\ i \in 1..Len(s)
        BY <3>3, <2>1 DEF IsInjective
      <4>2. n2[s[i]] = n[s[i]] /\ n[s[i]] = s[i + 1]
        BY <4>1, <3>3 DEF IsList
      <4> QED
        BY <4>1, <4>2, <1>1, <3>3
    <3> QED
      BY <3>1, <3>2, <3>3, <1>1
  <2>3. h = r[1]
    BY <1>1, <1>3 DEF IsList
  <2> QED
    BY <1>1, <1>3, <2>2, <2>3 DEF IsList
<1> QED
  BY <1>2, <1>3

\* A list is not disturbed by a write to the next field of an entry that is
\* not on it.
LEMMA ListFrame ==
  ASSUME NEW n \in [Entries -> Pointers], NEW s \in Seq(Entries), NEW h,
         NEW e \in Entries, NEW x, IsList(n, h, s), e \notin Range(s)
  PROVE  IsList([n EXCEPT ![e] = x], h, s)
  BY DEF IsList, Range

-----------------------------------------------------------------------------
(* Ownership *)

\* An entry that leaves the front of a list for another place.
LEMMA HoldsPop ==
  ASSUME NEW pl \in [Entries -> Places], NEW s \in Seq(Entries), NEW p, NEW p2,
         Holds(pl, s, p), s # <<>>, p2 # p
  PROVE  /\ s[1] \in Entries
         /\ pl[s[1]] = p
         /\ Tail(s) \in Seq(Entries)
         /\ Holds([pl EXCEPT ![s[1]] = p2], Tail(s), p)
<1> DEFINE e == s[1]
           pl2 == [pl EXCEPT ![e] = p2]
<1>1. /\ Len(s) \in Nat \ {0}
      /\ DOMAIN s = 1..Len(s)
      /\ DOMAIN Tail(s) = 1..Len(s) - 1
      /\ Tail(s) \in Seq(Entries)
      /\ \A i \in 1..Len(s) - 1 : Tail(s)[i] = s[i + 1]
      /\ e \in Entries
  OBVIOUS
<1>2. pl[e] = p
  BY <1>1 DEF Holds, Range
<1>3. IsInjective(Tail(s))
  BY <1>1 DEF Holds, IsInjective
<1>4. ASSUME NEW x \in Range(Tail(s)) PROVE x \in Entries /\ pl2[x] = p
  <2>1. PICK i \in 1..Len(s) - 1 : x = s[i + 1]
    BY <1>1 DEF Range
  <2>2. x \in Range(s) /\ x # e
    BY <2>1, <1>1 DEF Range, Holds, IsInjective
  <2> QED
    BY <2>2, <1>1 DEF Holds
<1>5. ASSUME NEW x \in Entries, pl2[x] = p PROVE x \in Range(Tail(s))
  <2>1. x # e /\ pl[x] = p
    BY <1>1, <1>5
  <2>2. PICK i \in 1..Len(s) : x = s[i]
    BY <2>1, <1>1 DEF Holds, Range
  <2>3. i - 1 \in 1..Len(s) - 1 /\ Tail(s)[i - 1] = x
    BY <2>1, <2>2, <1>1
  <2> QED
    BY <2>3, <1>1 DEF Range
<1> QED
  BY <1>1, <1>2, <1>3, <1>4, <1>5 DEF Holds

\* An entry that joins a list at the back.
LEMMA HoldsAppend ==
  ASSUME NEW pl \in [Entries -> Places], NEW s \in Seq(Entries), NEW p,
         NEW e \in Entries, Holds(pl, s, p), pl[e] # p
  PROVE  Append(s, e) \in Seq(Entries) /\ Holds([pl EXCEPT ![e] = p], Append(s, e), p)
<1> DEFINE r == Append(s, e)
           pl2 == [pl EXCEPT ![e] = p]
<1>1. /\ Len(s) \in Nat
      /\ DOMAIN s = 1..Len(s)
      /\ DOMAIN r = 1..Len(s) + 1
      /\ r[Len(s) + 1] = e
      /\ \A i \in 1..Len(s) : r[i] = s[i] /\ s[i] \in Entries
      /\ r \in Seq(Entries)
  OBVIOUS
<1>2. \A i \in 1..Len(s) : s[i] # e
  BY <1>1 DEF Holds, Range
<1>3. IsInjective(r)
  BY <1>1, <1>2 DEF Holds, IsInjective
<1>4. ASSUME NEW x \in Range(r) PROVE x \in Entries /\ pl2[x] = p
  BY <1>1, <1>4 DEF Range, Holds
<1>5. ASSUME NEW x \in Entries, pl2[x] = p PROVE x \in Range(r)
  <2>1. CASE x = e
    BY <2>1, <1>1 DEF Range
  <2>2. CASE x # e
    <3>1. PICK i \in 1..Len(s) : x = s[i]
      BY <2>2, <1>5, <1>1 DEF Holds, Range
    <3> QED
      BY <3>1, <1>1 DEF Range
  <2> QED
    BY <2>1, <2>2
<1> QED
  BY <1>1, <1>3, <1>4, <1>5 DEF Holds

\* An entry that joins a list at the front.
LEMMA HoldsPush ==
  ASSUME NEW pl \in [Entries -> Places], NEW s \in Seq(Entries), NEW p,
         NEW e \in Entries, Holds(pl, s, p), pl[e] # p
  PROVE  Holds([pl EXCEPT ![e] = p], <<e>> \o s, p)
<1> DEFINE r == <<e>> \o s
           pl2 == [pl EXCEPT ![e] = p]
<1>1. /\ Len(s) \in Nat
      /\ DOMAIN s = 1..Len(s)
      /\ DOMAIN r = 1..Len(s) + 1
      /\ r[1] = e
      /\ \A i \in 1..Len(s) : r[i + 1] = s[i] /\ s[i] \in Entries
  OBVIOUS
<1>2. \A i \in 2..Len(s) + 1 : i - 1 \in 1..Len(s) /\ r[i] = s[i - 1]
  BY <1>1
<1>3. \A i \in 1..Len(s) : s[i] # e
  BY <1>1 DEF Holds, Range
<1>4. IsInjective(r)
  BY <1>1, <1>2, <1>3 DEF Holds, IsInjective
<1>5. ASSUME NEW x \in Range(r) PROVE x \in Entries /\ pl2[x] = p
  BY <1>1, <1>2, <1>5 DEF Range, Holds
<1>6. ASSUME NEW x \in Entries, pl2[x] = p PROVE x \in Range(r)
  <2>1. CASE x = e
    BY <2>1, <1>1 DEF Range
  <2>2. CASE x # e
    <3>1. PICK i \in 1..Len(s) : x = s[i]
      BY <2>2, <1>6, <1>1 DEF Holds, Range
    <3>2. i + 1 \in DOMAIN r /\ r[i + 1] = x
      BY <3>1, <1>1
    <3> QED
      BY <3>2 DEF Range
  <2> QED
    BY <2>1, <2>2
<1> QED
  BY <1>4, <1>5, <1>6 DEF Holds

\* An entry that moves between two other places.
LEMMA HoldsFrame ==
  ASSUME NEW pl \in [Entries -> Places], NEW s, NEW p, NEW p2,
         NEW e \in Entries, Holds(pl, s, p), pl[e] # p, p2 # p
  PROVE  Holds([pl EXCEPT ![e] = p2], s, p)
  BY DEF Holds

-----------------------------------------------------------------------------
(* The inductive invariant *)

\* A mutex is held exactly by the thread inside one of its critical sections.
MutexInv ==
  /\ \A t \in Threads :
       freeMtx = t <=> pc[t] \in {"popping", "pushing", "selfLocked"}
  /\ \A t \in Threads, q \in Queues :
       mtx[q] = t <=> pc[t] \in {"linking", "taking"} /\ target[t] = q

\* What a thread has read under a mutex is still so while it holds it, and its
\* local pointers are set when the next step uses them.
LocalInv ==
  \A t \in Threads :
    /\ pc[t] = "popping" => entry[t] = freelist
    /\ pc[t] = "taking" => entry[t] = qHead[target[t]]
    /\ pc[t] \in {"taking", "waiting", "woken"} => Reader[target[t]] = t
    /\ pc[t] \in {"filling", "appending", "linking"} =>
         entry[t] # Null /\ entry[t] # held[t]
    /\ pc[t] \in {"working", "addFree", "pushing"} => held[t] # Null
    /\ pc[t] \in {"idle", "taking", "waiting", "woken"} => held[t] = Null
    /\ pc[t] = "linking" =>
         /\ wake[t] = (qHead[target[t]] = Null)
         /\ next[entry[t]] = Null
    /\ pc[t] = "pushing" => next[held[t]] = freelist

\* Every entry that is on a queue or in a reader's hand has been filled.
FilledInv ==
  /\ \A e \in Entries, q \in Queues : place[e] = Queued(q) => msg[e] \in Msgs
  /\ \A t \in Threads :
       /\ held[t] # Null => msg[held[t]] \in Msgs
       /\ pc[t] \in {"appending", "linking"} => msg[entry[t]] \in Msgs

Inv ==
  TypeOK /\ MutexInv /\ LocalInv /\ ListsWellFormed /\ OneOwner /\ FilledInv /\ NoLostWakeup

\* The places are distinct.
LEMMA PlacesDiffer ==
  /\ Unallocated # Spare
  /\ \A q \in Queues : Queued(q) # Spare /\ Queued(q) # Unallocated
  /\ \A t \in Threads : With(t) # Spare /\ With(t) # Unallocated
  /\ \A q \in Queues, t \in Threads : Queued(q) # With(t)
  /\ \A q, r \in Queues : Queued(q) = Queued(r) => q = r
  /\ \A t, u \in Threads : With(t) = With(u) => t = u
  BY DEF Unallocated, Spare, Queued, With

\* The operators that stand for a thread's place in the code.
LEMMA PlacesTyped ==
  /\ Unallocated \in Places /\ Spare \in Places
  /\ \A q \in Queues : Queued(q) \in Places
  /\ \A t \in Threads : With(t) \in Places
  BY DEF Places

\* Every step keeps every variable in its type.
LEMMA TypeStep ==
  ASSUME TypeOK, LocalInv, ListsWellFormed, [Next]_vars
  PROVE  TypeOK'
<1> USE ReaderAssumption, HeapAssumption, PlacesTyped DEF Entries, Pointers
<1>1. ASSUME NEW t \in Threads, NEW q \in Queues, Publish(t, q) PROVE TypeOK'
  BY <1>1 DEF Publish, TypeOK, Locations, heap, lists, history
<1>2. ASSUME NEW t \in Threads, LockFreeToGet(t) PROVE TypeOK'
  BY <1>2 DEF LockFreeToGet, TypeOK, Locations, heap, lists, history
<1>3. ASSUME NEW t \in Threads, PopFree(t) PROVE TypeOK'
  <2>1. spare # <<>>
    BY <1>3 DEF PopFree, LocalInv, ListsWellFormed, IsList
  <2> QED
    BY <1>3, <2>1 DEF PopFree, TypeOK, Locations
<1>4. ASSUME NEW t \in Threads, AllocEntry(t) PROVE TypeOK'
  BY <1>4 DEF AllocEntry, TypeOK, Locations, lists
<1>5. ASSUME NEW t \in Threads, NoMemory(t) PROVE TypeOK'
  BY <1>5 DEF NoMemory, TypeOK, Locations, heap, lists, history
<1>6. ASSUME NEW t \in Threads, NEW m \in Msgs, Fill(t, m) PROVE TypeOK'
  BY <1>6 DEF Fill, TypeOK, Locations, lists, history
<1>7. ASSUME NEW t \in Threads, NEW q \in Queues, Forward(t, q) PROVE TypeOK'
  BY <1>7 DEF Forward, TypeOK, Locations, heap, lists, history
<1>8. ASSUME NEW t \in Threads, LockQueueToPut(t) PROVE TypeOK'
  BY <1>8 DEF LockQueueToPut, TypeOK, Locations, lists, history
<1>9. ASSUME NEW t \in Threads, LinkEntry(t) PROVE TypeOK'
  <2>1. entry[t] \in Entries /\ target[t] \in Queues
    BY <1>9 DEF LinkEntry, LocalInv, TypeOK
  <2>2. qHead' \in [Queues -> Pointers] /\ next' \in [Entries -> Pointers]
    BY <1>9, <2>1 DEF LinkEntry, TypeOK
  <2>3. order' \in [Queues -> Seq(Entries)]
    BY <1>9, <2>1 DEF LinkEntry, TypeOK
  <2>4. place' \in [Entries -> Places] /\ pc' \in [Threads -> Locations]
    BY <1>9, <2>1 DEF LinkEntry, Resume, TypeOK, Locations
  <2> QED
    BY <1>9, <2>1, <2>2, <2>3, <2>4 DEF LinkEntry, TypeOK
<1>10. ASSUME NEW t \in Threads, Signal(t) PROVE TypeOK'
  BY <1>10 DEF Signal, Resume, TypeOK, Locations, heap, lists, history
<1>11. ASSUME NEW t \in Threads, NEW q \in Queues, LockQueueToTake(t, q) PROVE TypeOK'
  BY <1>11 DEF LockQueueToTake, TypeOK, Locations, heap, lists, history
<1>12. ASSUME NEW t \in Threads, WaitForMessage(t) PROVE TypeOK'
  BY <1>12 DEF WaitForMessage, TypeOK, Locations, heap, lists, history
<1>13. ASSUME NEW t \in Threads, SpuriousWakeup(t) PROVE TypeOK'
  BY <1>13 DEF SpuriousWakeup, TypeOK, Locations, heap, lists, history
<1>14. ASSUME NEW t \in Threads, UnlinkEntry(t) PROVE TypeOK'
  <2>1. /\ target[t] \in Queues
        /\ entry[t] \in Entries
        /\ order[target[t]] # <<>>
    BY <1>14 DEF UnlinkEntry, TypeOK, LocalInv, ListsWellFormed, IsList
  <2>2. next[entry[t]] \in Pointers
    BY <2>1 DEF TypeOK
  <2>3. qHead' \in [Queues -> Pointers] /\ qTail' \in [Queues -> Pointers]
    BY <1>14, <2>1, <2>2 DEF UnlinkEntry, TypeOK
  <2>4. order' \in [Queues -> Seq(Entries)]
    BY <1>14, <2>1 DEF UnlinkEntry, TypeOK
  <2>5. place' \in [Entries -> Places] /\ pc' \in [Threads -> Locations]
    BY <1>14, <2>1 DEF UnlinkEntry, TypeOK, Locations
  <2> QED
    BY <1>14, <2>1, <2>3, <2>4, <2>5 DEF UnlinkEntry, TypeOK
<1>15. ASSUME NEW t \in Threads, DoneWithMessage(t) PROVE TypeOK'
  BY <1>15 DEF DoneWithMessage, TypeOK, Locations, heap, lists, history
<1>16. ASSUME NEW t \in Threads, LockFreeToAdd(t) PROVE TypeOK'
  BY <1>16 DEF LockFreeToAdd, TypeOK, Locations, lists, history
<1>17. ASSUME NEW t \in Threads, PushFree(t) PROVE TypeOK'
  <2>1. held[t] \in Entries
    BY <1>17 DEF PushFree, LocalInv, TypeOK
  <2>2. <<held[t]>> \o spare \in Seq(Entries)
    BY <2>1 DEF TypeOK
  <2> QED
    BY <1>17, <2>1, <2>2 DEF PushFree, TypeOK, Locations, heap
<1>18. CASE UNCHANGED vars
  BY <1>18 DEF vars, TypeOK
<1> QED
  BY <1>1, <1>2, <1>3, <1>4, <1>5, <1>6, <1>7, <1>8, <1>9, <1>10, <1>11, <1>12,
     <1>13, <1>14, <1>15, <1>16, <1>17, <1>18 DEF Next, Running

-----------------------------------------------------------------------------
(* Mutual exclusion *)

\* Every step keeps the mutexes held exactly inside the critical sections.
LEMMA MutexStep ==
  ASSUME TypeOK, MutexInv, [Next]_vars
  PROVE  MutexInv'
<1> USE NoneAssumption DEF TypeOK, MutexInv
<1>1. ASSUME NEW t \in Threads, NEW q \in Queues, Publish(t, q) PROVE MutexInv'
  BY <1>1 DEF Publish
<1>2. ASSUME NEW t \in Threads, LockFreeToGet(t) PROVE MutexInv'
  BY <1>2 DEF LockFreeToGet
<1>3. ASSUME NEW t \in Threads, PopFree(t) PROVE MutexInv'
  BY <1>3 DEF PopFree
<1>4. ASSUME NEW t \in Threads, AllocEntry(t) PROVE MutexInv'
  BY <1>4 DEF AllocEntry
<1>5. ASSUME NEW t \in Threads, NoMemory(t) PROVE MutexInv'
  BY <1>5 DEF NoMemory
<1>6. ASSUME NEW t \in Threads, NEW m \in Msgs, Fill(t, m) PROVE MutexInv'
  BY <1>6 DEF Fill
<1>7. ASSUME NEW t \in Threads, NEW q \in Queues, Forward(t, q) PROVE MutexInv'
  BY <1>7 DEF Forward
<1>8. ASSUME NEW t \in Threads, LockQueueToPut(t) PROVE MutexInv'
  BY <1>8 DEF LockQueueToPut
<1>9. ASSUME NEW t \in Threads, LinkEntry(t) PROVE MutexInv'
  BY <1>9 DEF LinkEntry, Resume
<1>10. ASSUME NEW t \in Threads, Signal(t) PROVE MutexInv'
  BY <1>10, ReaderAssumption DEF Signal, Resume, Waiting
<1>11. ASSUME NEW t \in Threads, NEW q \in Queues, LockQueueToTake(t, q) PROVE MutexInv'
  BY <1>11 DEF LockQueueToTake
<1>12. ASSUME NEW t \in Threads, WaitForMessage(t) PROVE MutexInv'
  BY <1>12 DEF WaitForMessage
<1>13. ASSUME NEW t \in Threads, SpuriousWakeup(t) PROVE MutexInv'
  BY <1>13 DEF SpuriousWakeup
<1>14. ASSUME NEW t \in Threads, UnlinkEntry(t) PROVE MutexInv'
  BY <1>14 DEF UnlinkEntry
<1>15. ASSUME NEW t \in Threads, DoneWithMessage(t) PROVE MutexInv'
  BY <1>15 DEF DoneWithMessage
<1>16. ASSUME NEW t \in Threads, LockFreeToAdd(t) PROVE MutexInv'
  BY <1>16 DEF LockFreeToAdd
<1>17. ASSUME NEW t \in Threads, PushFree(t) PROVE MutexInv'
  BY <1>17 DEF PushFree
<1>18. CASE UNCHANGED vars
  BY <1>18 DEF vars
<1> QED
  BY <1>1, <1>2, <1>3, <1>4, <1>5, <1>6, <1>7, <1>8, <1>9, <1>10, <1>11, <1>12,
     <1>13, <1>14, <1>15, <1>16, <1>17, <1>18 DEF Next, Running

-----------------------------------------------------------------------------
(* Locals *)

\* What a thread owns, read off the place of an entry.
LEMMA OwnedEntries ==
  ASSUME TypeOK, LocalInv, OneOwner, NEW t \in Threads
  PROVE  /\ held[t] # Null => held[t] \in Entries /\ place[held[t]] = With(t)
         /\ pc[t] \in {"filling", "appending", "linking"} =>
              entry[t] \in Entries /\ place[entry[t]] = With(t)
<1>1. Private(t) = {e \in Entries : place[e] = With(t)}
  BY DEF OneOwner
<1>2. held[t] # Null => held[t] \in Private(t)
  BY DEF Private
<1>3. pc[t] \in {"filling", "appending", "linking"} => entry[t] \in Private(t)
  BY DEF Private
<1> QED
  BY <1>1, <1>2, <1>3

\* Every step keeps the locals in agreement with what they were read from.
LEMMA LocalStep ==
  ASSUME TypeOK, MutexInv, LocalInv, OneOwner, ListsWellFormed, [Next]_vars
  PROVE  LocalInv'
<1> DEFINE Publishing(u) == pc[u] \in {"filling", "appending", "linking"}
<1>a. \A u \in Threads, e \in Entries :
        /\ held[u] = e => place[e] = With(u)
        /\ Publishing(u) /\ entry[u] = e => place[e] = With(u)
  BY OwnedEntries DEF Entries
<1>b. \A u, v \in Threads, e \in Entries :
        /\ place[e] = With(u) /\ u # v =>
             held[v] # e /\ (Publishing(v) => entry[v] # e)
        /\ place[e] = Spare \/ place[e] = Unallocated \/ (\E q \in Queues : place[e] = Queued(q)) =>
             held[v] # e /\ (Publishing(v) => entry[v] # e)
  BY <1>a, PlacesDiffer
<1> USE DEF TypeOK, MutexInv, LocalInv
<1>1. ASSUME NEW t \in Threads, NEW q \in Queues, Publish(t, q) PROVE LocalInv'
  BY <1>1 DEF Publish, heap, lists
<1>2. ASSUME NEW t \in Threads, LockFreeToGet(t) PROVE LocalInv'
  BY <1>2 DEF LockFreeToGet, heap, lists
<1>3. ASSUME NEW t \in Threads, PopFree(t) PROVE LocalInv'
  <2>1. entry[t] \in Entries /\ place[entry[t]] = Spare
    BY <1>3 DEF PopFree, ListsWellFormed, IsList, OneOwner, Holds, Range, Entries, Pointers
  <2>2. /\ held[t] # entry[t]
        /\ \A u \in Threads :
             pc[u] \in {"filling", "appending", "linking"} => entry[u] # entry[t]
    BY <2>1, <1>b
  <2> QED
    BY <1>3, <2>1, <2>2 DEF PopFree, Entries
<1>4. ASSUME NEW t \in Threads, AllocEntry(t) PROVE LocalInv'
  <2>1. used + 1 \in Entries /\ place[used + 1] = Unallocated
    <3>1. used + 1 \in (used + 1)..HeapSize /\ used + 1 \in Entries
      BY <1>4, HeapAssumption DEF AllocEntry, Entries
    <3> QED
      BY <3>1 DEF OneOwner
  <2>2. held[t] # used + 1
    BY <2>1, <1>b
  <2> QED
    BY <1>4, <2>1, <2>2 DEF AllocEntry, lists, Entries
<1>5. ASSUME NEW t \in Threads, NoMemory(t) PROVE LocalInv'
  BY <1>5 DEF NoMemory, heap, lists
<1>6. ASSUME NEW t \in Threads, NEW m \in Msgs, Fill(t, m) PROVE LocalInv'
  BY <1>6 DEF Fill, lists
<1>7. ASSUME NEW t \in Threads, NEW q \in Queues, Forward(t, q) PROVE LocalInv'
  BY <1>7 DEF Forward, heap, lists
<1>8. ASSUME NEW t \in Threads, LockQueueToPut(t) PROVE LocalInv'
  <2>1. entry[t] \in Entries /\ place[entry[t]] = With(t)
    BY <1>8, OwnedEntries DEF LockQueueToPut
  <2>2. \A u \in Threads : u # t => held[u] # entry[t]
    BY <2>1, <1>b
  <2>3. \A u \in Threads : u # t /\ pc[u] = "linking" => entry[u] # entry[t]
    BY <2>1, <1>b
  <2> QED
    BY <1>8, <2>1, <2>2, <2>3 DEF LockQueueToPut, lists
<1>9. ASSUME NEW t \in Threads, LinkEntry(t) PROVE LocalInv'
  <2> DEFINE q == target[t]
             l == qTail[q]
  <2>1. q \in Queues
    OBVIOUS
  <2>2. ~wake[t] => l \in Entries /\ place[l] = Queued(q)
    <3>1. ~wake[t] => order[q] # <<>> /\ l = order[q][Len(order[q])]
      BY <1>9, <2>1 DEF LinkEntry, ListsWellFormed, IsList
    <3>2. ~wake[t] => l \in Range(order[q])
      BY <3>1, <2>1 DEF Range
    <3> QED
      BY <3>2, <2>1 DEF OneOwner, Holds
  <2>3. \A u \in Threads : ~wake[t] => held[u] # l
    BY <2>1, <2>2, <1>b DEF Entries
  <2>4. \A u \in Threads : ~wake[t] /\ pc[u] = "linking" => entry[u] # l
    BY <2>1, <2>2, <1>b
  <2>5. \A u \in Threads : u # t /\ pc[u] \in {"linking", "taking"} => target[u] # q
    BY <1>9, <2>1 DEF LinkEntry
  <2>a. \/ next' = next
        \/ ~wake[t] /\ next' = [next EXCEPT ![l] = entry[t]]
    BY <1>9 DEF LinkEntry
  <2>b. \A x \in Entries : x # l \/ wake[t] => next'[x] = next[x]
    BY <2>a
  <2>6. \A u \in Threads : held[u] # Null => next'[held[u]] = next[held[u]]
    BY <2>b, <2>3 DEF Pointers
  <2>7. \A u \in Threads : pc[u] = "linking" => next'[entry[u]] = next[entry[u]]
    BY <2>b, <2>4 DEF Pointers
  <2>8. \A u \in Threads : u # t /\ pc[u] \in {"linking", "taking"} =>
          qHead'[target[u]] = qHead[target[u]]
    BY <1>9, <2>1, <2>5 DEF LinkEntry
  <2>9. /\ held' = held /\ target' = target /\ wake' = wake /\ freelist' = freelist
        /\ \A u \in Threads : u # t => pc'[u] = pc[u] /\ entry'[u] = entry[u]
        /\ pc'[t] \in {"signalling", "idle", "working"}
        /\ pc'[t] = "idle" => held[t] = Null
        /\ pc'[t] = "working" => held[t] # Null
    BY <1>9 DEF LinkEntry, Resume
  <2> HIDE DEF q, l
  <2> SUFFICES ASSUME NEW u \in Threads PROVE LocalInv!(u)'
    OBVIOUS
  <2>10. CASE u = t
    <3>1. \/ pc'[t] = "signalling"
          \/ pc'[t] = "idle" /\ held'[t] = Null
          \/ pc'[t] = "working" /\ held'[t] # Null
      BY <2>9
    <3> QED
      BY <3>1, <2>10
  <2>11. CASE u # t
    <3>1. /\ pc'[u] = pc[u] /\ entry'[u] = entry[u] /\ held'[u] = held[u]
          /\ target'[u] = target[u] /\ wake'[u] = wake[u] /\ freelist' = freelist
      BY <2>9, <2>11
    <3>2. pc[u] \in {"linking", "taking"} => qHead'[target[u]] = qHead[target[u]]
      BY <2>8, <2>11
    <3>3. pc[u] = "linking" =>
            wake'[u] = (qHead'[target'[u]] = Null) /\ next'[entry'[u]] = Null
      <4>1. pc[u] = "linking" => next'[entry[u]] = Null
        BY <2>7
      <4>2. pc[u] = "linking" => wake[u] = (qHead'[target[u]] = Null)
        BY <3>2
      <4> QED
        BY <3>1, <4>1, <4>2
    <3>4. pc[u] = "pushing" => next'[held'[u]] = freelist'
      <4>1. pc[u] = "pushing" => next'[held[u]] = freelist
        BY <2>6
      <4> QED
        BY <3>1, <4>1
    <3>5. pc[u] = "taking" => entry'[u] = qHead'[target'[u]]
      BY <3>1, <3>2
    <3> QED
      BY <3>1, <3>3, <3>4, <3>5
  <2> QED
    BY <2>10, <2>11
<1>10. ASSUME NEW t \in Threads, Signal(t) PROVE LocalInv'
  BY <1>10, ReaderAssumption DEF Signal, Resume, Waiting, heap, lists
<1>11. ASSUME NEW t \in Threads, NEW q \in Queues, LockQueueToTake(t, q) PROVE LocalInv'
  BY <1>11 DEF LockQueueToTake, heap, lists
<1>12. ASSUME NEW t \in Threads, WaitForMessage(t) PROVE LocalInv'
  BY <1>12 DEF WaitForMessage, heap, lists
<1>13. ASSUME NEW t \in Threads, SpuriousWakeup(t) PROVE LocalInv'
  BY <1>13 DEF SpuriousWakeup, heap, lists
<1>14. ASSUME NEW t \in Threads, UnlinkEntry(t) PROVE LocalInv'
  <2> DEFINE q == target[t]
             e == entry[t]
  <2>1. q \in Queues /\ e \in Entries /\ place[e] = Queued(q)
    <3>1. q \in Queues /\ e \in Entries /\ e = order[q][1] /\ order[q] # <<>>
      BY <1>14 DEF UnlinkEntry, ListsWellFormed, IsList, Pointers
    <3>2. e \in Range(order[q])
      BY <3>1 DEF Range
    <3> QED
      BY <3>1, <3>2 DEF OneOwner, Holds
  <2>2. \A u \in Threads : held[u] # e
    BY <2>1, <1>b DEF Entries
  <2>3. \A u \in Threads : pc[u] \in {"filling", "appending", "linking"} => entry[u] # e
    BY <2>1, <1>b
  <2>4. \A u \in Threads : u # t /\ pc[u] \in {"linking", "taking"} => target[u] # q
    BY <1>14, <2>1 DEF UnlinkEntry
  <2> QED
    BY <1>14, <2>1, <2>2, <2>3, <2>4 DEF UnlinkEntry, Entries
<1>15. ASSUME NEW t \in Threads, DoneWithMessage(t) PROVE LocalInv'
  BY <1>15 DEF DoneWithMessage, heap, lists
<1>16. ASSUME NEW t \in Threads, LockFreeToAdd(t) PROVE LocalInv'
  <2>1. held[t] \in Entries /\ place[held[t]] = With(t)
    BY <1>16, OwnedEntries DEF LockFreeToAdd
  <2>2. \A u \in Threads : u # t => held[u] # held[t]
    BY <2>1, <1>b DEF Entries
  <2>3. \A u \in Threads : pc[u] = "linking" => entry[u] # held[t]
    BY <1>16, <2>1, <1>b DEF LockFreeToAdd
  <2> QED
    BY <1>16, <2>1, <2>2, <2>3 DEF LockFreeToAdd, lists
<1>17. ASSUME NEW t \in Threads, PushFree(t) PROVE LocalInv'
  BY <1>17 DEF PushFree, heap
<1>18. CASE UNCHANGED vars
  BY <1>18 DEF vars
<1> QED
  BY <1>1, <1>2, <1>3, <1>4, <1>5, <1>6, <1>7, <1>8, <1>9, <1>10, <1>11, <1>12,
     <1>13, <1>14, <1>15, <1>16, <1>17, <1>18 DEF Next, Running

-----------------------------------------------------------------------------
(* The lists *)

\* Every step keeps the freelist and the queues proper lists.
LEMMA ListsStep ==
  ASSUME TypeOK, MutexInv, LocalInv, ListsWellFormed, OneOwner, [Next]_vars
  PROVE  ListsWellFormed'
<1>a. /\ \A e \in Entries : place[e] # Spare => e \notin Range(spare)
      /\ \A e \in Entries, q \in Queues : place[e] # Queued(q) => e \notin Range(order[q])
  BY DEF OneOwner, Holds
<1>b. ASSUME UNCHANGED <<next, lists, order, spare>> PROVE ListsWellFormed'
  BY <1>b DEF lists, ListsWellFormed, IsList
<1>c. ASSUME NEW e \in Entries, NEW x, place[e] # Spare,
             \A q \in Queues : place[e] # Queued(q),
             next' = [next EXCEPT ![e] = x], UNCHANGED <<lists, order, spare>>
      PROVE  ListsWellFormed'
  <2>1. IsList(next, freelist, spare)'
    BY <1>a, <1>c, ListFrame DEF lists, TypeOK, ListsWellFormed
  <2>2. \A q \in Queues : IsList(next', qHead'[q], order'[q])
    BY <1>a, <1>c, ListFrame DEF lists, TypeOK, ListsWellFormed
  <2> QED
    BY <1>c, <2>1, <2>2 DEF lists, ListsWellFormed
<1>1. ASSUME NEW t \in Threads, PopFree(t) PROVE ListsWellFormed'
  <2> DEFINE e == entry[t]
  <2>1. e = freelist /\ e # Null
    BY <1>1 DEF PopFree, LocalInv
  <2>2. IsInjective(spare) /\ Range(spare) = {x \in Entries : place[x] = Spare}
    BY DEF OneOwner, Holds
  <2>a. /\ next \in [Entries -> Pointers]
        /\ spare \in Seq(Entries)
        /\ IsList(next, freelist, spare)
    BY DEF TypeOK, ListsWellFormed
  <2>b. /\ e \in Entries /\ spare # <<>> /\ e = spare[1]
        /\ IsList([next EXCEPT ![e] = Null], next[e], Tail(spare))
    <3> HIDE DEF e
    <3>1. e # Null /\ IsInjective(spare) /\ IsList(next, e, spare)
      BY <2>1, <2>2, <2>a
    <3>2. /\ spare # <<>>
          /\ e \in Entries
          /\ IsList([next EXCEPT ![e] = Null], next[e], Tail(spare))
      BY <3>1, <2>a, ListPop
    <3>3. e = spare[1]
      BY <3>1, <3>2 DEF IsList
    <3> QED
      BY <3>2, <3>3
  <2>c. next' = [next EXCEPT ![e] = Null] /\ freelist' = next[e] /\ spare' = Tail(spare)
    BY <1>1 DEF PopFree
  <2>3. e \in Entries /\ spare # <<>> /\ e = spare[1] /\ IsList(next', freelist', spare')
    BY <2>b, <2>c
  <2>4. place[e] = Spare
    BY <2>2, <2>3 DEF Range, TypeOK
  <2>5. \A q \in Queues : IsList(next', qHead'[q], order'[q])
    BY <1>1, <1>a, <2>3, <2>4, PlacesDiffer, ListFrame DEF PopFree, TypeOK, ListsWellFormed
  <2> QED
    BY <1>1, <2>3, <2>5 DEF PopFree, ListsWellFormed
<1>2. ASSUME NEW t \in Threads, LockQueueToPut(t) PROVE ListsWellFormed'
  <2>1. entry[t] \in Entries /\ place[entry[t]] = With(t)
    BY <1>2, OwnedEntries DEF LockQueueToPut
  <2> QED
    BY <1>2, <1>c, <2>1, PlacesDiffer DEF LockQueueToPut, history
<1>3. ASSUME NEW t \in Threads, LinkEntry(t) PROVE ListsWellFormed'
  <2> DEFINE q == target[t]
             e == entry[t]
             s == order[q]
  <2>1. q \in Queues /\ e \in Entries /\ place[e] = With(t) /\ s \in Seq(Entries)
    BY <1>3, OwnedEntries DEF LinkEntry, TypeOK
  <2>2. /\ wake[t] = (qHead[q] = Null)
        /\ next[e] = Null
    BY <1>3 DEF LinkEntry, LocalInv
  <2>3. /\ IsList(next, qHead[q], s)
        /\ qTail[q] = IF s = <<>> THEN Null ELSE s[Len(s)]
        /\ IsInjective(s)
        /\ e \notin Range(s)
    BY <1>a, <2>1, PlacesDiffer DEF ListsWellFormed, OneOwner, Holds
  <2>4. qHead[q] = Null <=> s = <<>>
    BY <2>1, <2>3, ListEmpty
  <2>5. order'[q] = Append(s, e) /\ qTail'[q] = e
    BY <1>3, <2>1 DEF LinkEntry, TypeOK
  <2>6. e = order'[q][Len(order'[q])] /\ order'[q] # <<>>
    BY <2>1, <2>5
  <2>7. \A r \in Queues \ {q} :
          order'[r] = order[r] /\ qHead'[r] = qHead[r] /\ qTail'[r] = qTail[r]
    BY <1>3, <2>1 DEF LinkEntry, TypeOK
  <2>8. CASE wake[t]
    <3>1. s = <<>> /\ next' = next /\ qHead'[q] = e
      BY <1>3, <2>1, <2>2, <2>4, <2>8 DEF LinkEntry, TypeOK
    <3>a. IsList(next, e, Append(s, e))
      <4>1. next \in [Entries -> Pointers]
        BY DEF TypeOK
      <4> HIDE DEF s, e, q
      <4> QED
        BY <2>1, <2>2, <2>3, <3>1, <4>1, ListAppend
    <3>2. IsList(next', qHead'[q], order'[q])
      BY <2>5, <3>1, <3>a
    <3>3. \A r \in Queues \ {q} : IsList(next', qHead'[r], order'[r])
      BY <2>7, <3>1 DEF ListsWellFormed
    <3>4. IsList(next', freelist', spare')
      BY <1>3, <3>1 DEF LinkEntry, ListsWellFormed
    <3> QED
      BY <2>5, <2>6, <2>7, <3>2, <3>3, <3>4 DEF ListsWellFormed
  <2>9. CASE ~wake[t]
    <3> DEFINE l == qTail[q]
    <3>1. s # <<>> /\ next' = [next EXCEPT ![l] = e] /\ qHead'[q] = qHead[q]
      BY <1>3, <2>1, <2>2, <2>4, <2>9 DEF LinkEntry, TypeOK
    <3>2. l = s[Len(s)] /\ l \in Range(s) /\ l \in Entries
      BY <2>1, <2>3, <3>1 DEF Range
    <3>3. place[l] = Queued(q)
      BY <2>1, <3>2 DEF OneOwner, Holds
    <3>a. next \in [Entries -> Pointers] /\ \A r \in Queues : order[r] \in Seq(Entries)
      BY DEF TypeOK
    <3>b. IsList([next EXCEPT ![s[Len(s)]] = e], qHead[q], Append(s, e))
      <4> HIDE DEF s, e, q
      <4> QED
        BY <2>1, <2>2, <2>3, <3>1, <3>a, ListAppend
    <3>4. IsList(next', qHead'[q], order'[q])
      BY <2>5, <3>1, <3>2, <3>b
    <3>5. ASSUME NEW r \in Queues \ {q} PROVE IsList(next', qHead'[r], order'[r])
      <4>1. l \notin Range(order[r])
        BY <1>a, <2>1, <3>2, <3>3, PlacesDiffer
      <4>2. IsList(next, qHead[r], order[r])
        BY DEF ListsWellFormed
      <4>3. IsList([next EXCEPT ![l] = e], qHead[r], order[r])
        BY <3>2, <3>a, <4>1, <4>2, ListFrame
      <4> QED
        BY <2>7, <3>1, <4>3
    <3>6. IsList(next', freelist', spare')
      BY <1>3, <1>a, <2>1, <3>1, <3>2, <3>3, ListFrame, PlacesDiffer
         DEF LinkEntry, ListsWellFormed, TypeOK
    <3> QED
      BY <2>5, <2>6, <2>7, <3>4, <3>5, <3>6 DEF ListsWellFormed
  <2> QED
    BY <2>8, <2>9
<1>4. ASSUME NEW t \in Threads, UnlinkEntry(t) PROVE ListsWellFormed'
  <2> DEFINE q == target[t]
             e == entry[t]
             s == order[q]
  <2>1. q \in Queues /\ e = qHead[q] /\ e # Null /\ s \in Seq(Entries)
    BY <1>4 DEF UnlinkEntry, LocalInv, TypeOK
  <2>2. /\ IsList(next, e, s)
        /\ qTail[q] = IF s = <<>> THEN Null ELSE s[Len(s)]
        /\ IsInjective(s)
        /\ Range(s) = {x \in Entries : place[x] = Queued(q)}
    BY <2>1 DEF ListsWellFormed, OneOwner, Holds
  <2>3. /\ s # <<>> /\ e = s[1] /\ e \in Entries
        /\ IsList([next EXCEPT ![e] = Null], next[e], Tail(s))
        /\ next[e] = Null <=> Tail(s) = <<>>
        /\ Tail(s) # <<>> => Tail(s)[Len(Tail(s))] = s[Len(s)]
    <3>1. next \in [Entries -> Pointers]
      BY DEF TypeOK
    <3> HIDE DEF s, e, q
    <3>2. /\ s # <<>> /\ e \in Entries
          /\ IsList([next EXCEPT ![e] = Null], next[e], Tail(s))
      BY <2>1, <2>2, <3>1, ListPop
    <3>a. Tail(s) # <<>> => Tail(s)[Len(Tail(s))] = s[Len(s)]
      BY <2>1, <3>2, TailLast
    <3>b. Tail(s) \in Seq(Entries)
      BY <2>1, <3>2
    <3>3. /\ next[e] = Null <=> Tail(s) = <<>>
          /\ Tail(s) # <<>> => Tail(s)[Len(Tail(s))] = s[Len(s)]
      BY <3>a, <3>b, <3>2, ListEmpty
    <3>4. e = s[1]
      BY <2>2, <3>2 DEF IsList
    <3> QED
      BY <3>2, <3>3, <3>4
  <2>4. place[e] = Queued(q)
    BY <2>1, <2>2, <2>3 DEF Range
  <2>5. /\ next' = [next EXCEPT ![e] = Null]
        /\ qHead'[q] = next[e]
        /\ qTail'[q] = IF next[e] = Null THEN Null ELSE qTail[q]
        /\ order'[q] = Tail(s)
        /\ freelist' = freelist /\ spare' = spare
    BY <1>4, <2>1 DEF UnlinkEntry, TypeOK
  <2>6. \A r \in Queues \ {q} :
          order'[r] = order[r] /\ qHead'[r] = qHead[r] /\ qTail'[r] = qTail[r]
    BY <1>4, <2>1 DEF UnlinkEntry, TypeOK
  <2>7. ASSUME NEW r \in Queues \ {q} PROVE IsList(next', qHead'[r], order'[r])
    <3>1. e \notin Range(order[r])
      BY <1>a, <2>1, <2>3, <2>4, PlacesDiffer
    <3>2. /\ next \in [Entries -> Pointers] /\ order[r] \in Seq(Entries)
          /\ IsList(next, qHead[r], order[r])
      BY DEF ListsWellFormed, TypeOK
    <3>3. IsList([next EXCEPT ![e] = Null], qHead[r], order[r])
      BY <2>3, <3>1, <3>2, ListFrame
    <3> QED
      BY <2>5, <2>6, <3>3
  <2>8. IsList(next', freelist', spare')
    BY <1>a, <2>1, <2>3, <2>4, <2>5, ListFrame, PlacesDiffer DEF ListsWellFormed, TypeOK
  <2>9. IsList(next', qHead'[q], order'[q])
    BY <2>3, <2>5
  <2>10. qTail'[q] = IF order'[q] = <<>> THEN Null ELSE order'[q][Len(order'[q])]
    BY <2>2, <2>3, <2>5
  <2>11. \A r \in Queues \ {q} :
           qTail'[r] = IF order'[r] = <<>> THEN Null ELSE order'[r][Len(order'[r])]
    BY <2>6 DEF ListsWellFormed
  <2> HIDE DEF q, e, s
  <2> QED
    BY <2>7, <2>8, <2>9, <2>10, <2>11 DEF ListsWellFormed
<1>5. ASSUME NEW t \in Threads, LockFreeToAdd(t) PROVE ListsWellFormed'
  <2>1. held[t] \in Entries /\ place[held[t]] = With(t)
    BY <1>5, OwnedEntries DEF LockFreeToAdd, LocalInv
  <2> QED
    BY <1>5, <1>c, <2>1, PlacesDiffer DEF LockFreeToAdd, history
<1>6. ASSUME NEW t \in Threads, PushFree(t) PROVE ListsWellFormed'
  <2>1. held[t] \in Entries /\ next[held[t]] = freelist
    BY <1>6, OwnedEntries DEF PushFree, LocalInv
  <2>2. IsList(next', freelist', spare')
    BY <1>6, <2>1, ListPush DEF PushFree, ListsWellFormed, TypeOK, heap
  <2> QED
    BY <1>6, <2>2 DEF PushFree, ListsWellFormed, heap
<1>7. ASSUME NEW t \in Threads,
             \/ AllocEntry(t) \/ NoMemory(t) \/ LockFreeToGet(t) \/ Signal(t)
             \/ WaitForMessage(t) \/ SpuriousWakeup(t) \/ DoneWithMessage(t)
             \/ \E m \in Msgs : Fill(t, m)
             \/ \E q \in Queues : Publish(t, q) \/ Forward(t, q) \/ LockQueueToTake(t, q)
      PROVE  ListsWellFormed'
  BY <1>7, <1>b DEF AllocEntry, NoMemory, LockFreeToGet, Signal, WaitForMessage,
     SpuriousWakeup, DoneWithMessage, Fill, Publish, Forward, LockQueueToTake,
     heap, lists, history
<1>8. CASE UNCHANGED vars
  BY <1>8, <1>b DEF vars, lists
<1> QED
  BY <1>1, <1>2, <1>3, <1>4, <1>5, <1>6, <1>7, <1>8 DEF Next, Running

-----------------------------------------------------------------------------
(* Ownership *)

\* The first entry of a list is on it.
LEMMA FirstHeld ==
  ASSUME NEW pl, NEW s \in Seq(Entries), NEW p, Holds(pl, s, p), s # <<>>
  PROVE  s[1] \in Entries /\ pl[s[1]] = p
<1>1. 1 \in DOMAIN s /\ s[1] \in Entries
  BY EmptySeq
<1> QED
  BY <1>1 DEF Holds, Range

\* Every step moves an entry from exactly one place to exactly one other.
LEMMA OwnerStep ==
  ASSUME TypeOK, LocalInv, ListsWellFormed, OneOwner, [Next]_vars
  PROVE  OneOwner'
<1> DEFINE Owned(u) == Private(u) = {e \in Entries : place[e] = With(u)}
           Rest == {e \in Entries : place[e] = Unallocated} = (used + 1)..HeapSize
<1>a. /\ place \in [Entries -> Places]
      /\ spare \in Seq(Entries)
      /\ \A q \in Queues : order[q] \in Seq(Entries)
      /\ Holds(place, spare, Spare)
      /\ \A q \in Queues : Holds(place, order[q], Queued(q))
  BY DEF TypeOK, OneOwner
<1>b. ASSUME UNCHANGED <<place, spare, order, used>>,
             \A u \in Threads : Private(u)' = Private(u)
      PROVE  OneOwner'
  BY <1>b DEF OneOwner
\* An entry e moves to place p.
<1>c. ASSUME NEW e \in Entries, NEW p, place' = [place EXCEPT ![e] = p],
             \A u \in Threads, x \in Entries :
               x \in Private(u)' <=> IF x = e THEN p = With(u) ELSE x \in Private(u),
             \A u \in Threads : Private(u)' \subseteq Entries
      PROVE  \A u \in Threads : Owned(u)'
  <2> TAKE u \in Threads
  <2>1. Private(u) = {x \in Entries : place[x] = With(u)}
    BY DEF OneOwner
  <2>2. \A x \in Entries : place'[x] = IF x = e THEN p ELSE place[x]
    BY <1>a, <1>c
  <2> QED
    BY <1>c, <2>1, <2>2
<1>d. ASSUME NEW e \in Entries, NEW p, place' = [place EXCEPT ![e] = p],
             place[e] # Unallocated, p # Unallocated, used' = used
      PROVE  Rest'
  BY <1>a, <1>d DEF OneOwner
<1>e. \A u \in Threads : Private(u) \subseteq Entries
  BY DEF OneOwner
<1>1. ASSUME NEW t \in Threads, PopFree(t) PROVE OneOwner'
  <2> DEFINE e == entry[t]
  <2>1. e = freelist /\ e # Null /\ spare # <<>> /\ e = spare[1]
    BY <1>1 DEF PopFree, LocalInv, ListsWellFormed, IsList
  <2>2. /\ place' = [place EXCEPT ![e] = With(t)]
        /\ spare' = Tail(spare) /\ order' = order /\ used' = used
    BY <1>1 DEF PopFree
  <2>3. e \in Entries /\ place[e] = Spare
    BY <1>a, <2>1, FirstHeld
  <2>4. Holds(place', spare', Spare)
    BY <1>a, <2>1, <2>2, HoldsPop, PlacesDiffer
  <2>5. \A q \in Queues : Holds(place', order'[q], Queued(q))
    BY <1>a, <2>2, <2>3, HoldsFrame, PlacesDiffer
  <2>6. \A u \in Threads : Private(u)' = IF u = t THEN Private(u) \cup {e} ELSE Private(u)
    BY <1>1 DEF PopFree, Private, TypeOK
  <2>7. \A u \in Threads : Owned(u)'
    <3>1. \A u \in Threads, x \in Entries :
            x \in Private(u)' <=> IF x = e THEN With(t) = With(u) ELSE x \in Private(u)
      <4>1. \A u \in Threads : e \notin Private(u)
        BY <2>3, PlacesDiffer DEF OneOwner
      <4> QED
        BY <2>6, <4>1, PlacesDiffer
    <3>2. \A u \in Threads : Private(u)' \subseteq Entries
      BY <1>e, <2>3, <2>6
    <3> QED
      BY <1>c, <2>2, <2>3, <3>1, <3>2
  <2>8. Rest'
    BY <1>d, <2>2, <2>3, PlacesDiffer
  <2> QED
    BY <2>4, <2>5, <2>7, <2>8 DEF OneOwner
<1>2. ASSUME NEW t \in Threads, AllocEntry(t) PROVE OneOwner'
  <2> DEFINE e == used + 1
  <2>1. /\ place' = [place EXCEPT ![e] = With(t)]
        /\ spare' = spare /\ order' = order /\ used' = e
    BY <1>2 DEF AllocEntry
  <2>2. e \in Entries /\ place[e] = Unallocated
    <3>1. e \in (used + 1)..HeapSize /\ e \in Entries
      BY <1>2, HeapAssumption DEF AllocEntry, TypeOK, Entries
    <3> QED
      BY <3>1 DEF OneOwner
  <2>3. Holds(place', spare', Spare)
    BY <1>a, <2>1, <2>2, HoldsFrame, PlacesDiffer
  <2>4. \A q \in Queues : Holds(place', order'[q], Queued(q))
    BY <1>a, <2>1, <2>2, HoldsFrame, PlacesDiffer
  <2>5. \A u \in Threads : Private(u)' = IF u = t THEN Private(u) \cup {e} ELSE Private(u)
    BY <1>2 DEF AllocEntry, Private, TypeOK
  <2>6. \A u \in Threads : Owned(u)'
    <3>1. \A u \in Threads, x \in Entries :
            x \in Private(u)' <=> IF x = e THEN With(t) = With(u) ELSE x \in Private(u)
      <4>1. \A u \in Threads : e \notin Private(u)
        BY <2>2, PlacesDiffer DEF OneOwner
      <4> QED
        BY <2>5, <4>1, PlacesDiffer
    <3>2. \A u \in Threads : Private(u)' \subseteq Entries
      BY <1>e, <2>2, <2>5
    <3> QED
      BY <1>c, <2>1, <2>2, <3>1, <3>2
  <2>7. Rest'
    <3>1. \A x \in Entries : place'[x] = Unallocated <=> place[x] = Unallocated /\ x # e
      BY <1>a, <2>1, <2>2, PlacesDiffer
    <3>2. \A x \in (used + 1)..HeapSize : x \in Entries
      BY HeapAssumption DEF TypeOK, Entries
    <3> QED
      BY <2>1, <3>1, <3>2 DEF OneOwner, TypeOK, Entries
  <2> QED
    BY <2>3, <2>4, <2>6, <2>7 DEF OneOwner
<1>3. ASSUME NEW t \in Threads, LinkEntry(t) PROVE OneOwner'
  <2> DEFINE q == target[t]
             e == entry[t]
  <2>1. q \in Queues /\ e \in Entries /\ place[e] = With(t) /\ e # held[t]
    BY <1>3, OwnedEntries DEF LinkEntry, TypeOK, LocalInv
  <2>2. /\ place' = [place EXCEPT ![e] = Queued(q)]
        /\ order' = [order EXCEPT ![q] = Append(@, e)]
        /\ spare' = spare /\ used' = used
    BY <1>3 DEF LinkEntry
  <2>3. Holds(place', spare', Spare)
    BY <1>a, <2>1, <2>2, HoldsFrame, PlacesDiffer
  <2>4. Holds(place', order'[q], Queued(q))
    <3>1. Holds([place EXCEPT ![e] = Queued(q)], Append(order[q], e), Queued(q))
      BY <1>a, <2>1, HoldsAppend, PlacesDiffer
    <3> QED
      BY <2>1, <2>2, <3>1 DEF TypeOK
  <2>5. \A r \in Queues \ {q} : Holds(place', order'[r], Queued(r))
    <3>1. \A r \in Queues \ {q} : order'[r] = order[r]
      BY <2>2 DEF TypeOK
    <3> QED
      BY <1>a, <2>1, <2>2, <3>1, HoldsFrame, PlacesDiffer
  <2>6. \A u \in Threads : Private(u)' = IF u = t THEN Private(u) \ {e} ELSE Private(u)
    BY <1>3, <2>1 DEF LinkEntry, Resume, Private, TypeOK
  <2>7. \A u \in Threads : Owned(u)'
    <3>1. \A u \in Threads, x \in Entries :
            x \in Private(u)' <=> IF x = e THEN Queued(q) = With(u) ELSE x \in Private(u)
      <4>1. \A u \in Threads : u # t => e \notin Private(u)
        BY <2>1, PlacesDiffer DEF OneOwner
      <4> QED
        BY <2>1, <2>6, <4>1, PlacesDiffer
    <3>2. \A u \in Threads : Private(u)' \subseteq Entries
      BY <1>e, <2>6
    <3> QED
      BY <1>c, <2>1, <2>2, <3>1, <3>2
  <2>8. Rest'
    BY <1>d, <2>1, <2>2, PlacesDiffer
  <2> QED
    BY <2>3, <2>4, <2>5, <2>7, <2>8 DEF OneOwner
<1>4. ASSUME NEW t \in Threads, UnlinkEntry(t) PROVE OneOwner'
  <2> DEFINE q == target[t]
             e == entry[t]
             s == order[q]
  <2>1. q \in Queues /\ e # Null /\ s # <<>> /\ e = s[1]
    BY <1>4 DEF UnlinkEntry, LocalInv, TypeOK, ListsWellFormed, IsList
  <2>2. /\ place' = [place EXCEPT ![e] = With(t)]
        /\ order' = [order EXCEPT ![q] = Tail(@)]
        /\ spare' = spare /\ used' = used
    BY <1>4 DEF UnlinkEntry
  <2>3. e \in Entries /\ place[e] = Queued(q)
    BY <1>a, <2>1, FirstHeld
  <2>4. Holds(place', spare', Spare)
    BY <1>a, <2>1, <2>2, <2>3, HoldsFrame, PlacesDiffer
  <2>5. Holds(place', order'[q], Queued(q))
    <3>1. Holds([place EXCEPT ![e] = With(t)], Tail(s), Queued(q))
      <4>1. s \in Seq(Entries) /\ Holds(place, s, Queued(q)) /\ With(t) # Queued(q)
        BY <1>a, <2>1, PlacesDiffer
      <4>2. Holds([place EXCEPT ![s[1]] = With(t)], Tail(s), Queued(q))
        <5> HIDE DEF s, q, e
        <5> QED
          BY <1>a, <2>1, <4>1, HoldsPop
      <4> QED
        BY <2>1, <4>2
    <3> QED
      BY <2>1, <2>2, <3>1 DEF TypeOK
  <2>6. \A r \in Queues \ {q} : Holds(place', order'[r], Queued(r))
    <3>1. \A r \in Queues \ {q} : order'[r] = order[r]
      BY <2>2 DEF TypeOK
    <3> QED
      BY <1>a, <2>1, <2>2, <2>3, <3>1, HoldsFrame, PlacesDiffer
  <2>7. \A u \in Threads : Private(u)' = IF u = t THEN Private(u) \cup {e} ELSE Private(u)
    BY <1>4, <2>1 DEF UnlinkEntry, LocalInv, Private, TypeOK
  <2>8. \A u \in Threads : Owned(u)'
    <3>1. \A u \in Threads, x \in Entries :
            x \in Private(u)' <=> IF x = e THEN With(t) = With(u) ELSE x \in Private(u)
      <4>1. \A u \in Threads : e \notin Private(u)
        BY <2>1, <2>3, PlacesDiffer DEF OneOwner
      <4> QED
        BY <2>7, <4>1, PlacesDiffer
    <3>2. \A u \in Threads : Private(u)' \subseteq Entries
      BY <1>e, <2>3, <2>7
    <3> QED
      BY <1>c, <2>2, <2>3, <3>1, <3>2
  <2>9. Rest'
    BY <1>d, <2>1, <2>2, <2>3, PlacesDiffer
  <2> QED
    BY <2>4, <2>5, <2>6, <2>8, <2>9 DEF OneOwner
<1>5. ASSUME NEW t \in Threads, PushFree(t) PROVE OneOwner'
  <2> DEFINE e == held[t]
  <2>1. e # Null /\ e \in Entries /\ place[e] = With(t)
    BY <1>5, OwnedEntries DEF PushFree, LocalInv
  <2>2. /\ place' = [place EXCEPT ![e] = Spare]
        /\ spare' = <<e>> \o spare /\ order' = order /\ used' = used
    BY <1>5 DEF PushFree, heap
  <2>3. Holds(place', spare', Spare)
    BY <1>a, <2>1, <2>2, HoldsPush, PlacesDiffer
  <2>4. \A q \in Queues : Holds(place', order'[q], Queued(q))
    BY <1>a, <2>1, <2>2, HoldsFrame, PlacesDiffer
  <2>5. \A u \in Threads : Private(u)' = IF u = t THEN Private(u) \ {e} ELSE Private(u)
    BY <1>5, <2>1 DEF PushFree, Private, TypeOK
  <2>6. \A u \in Threads : Owned(u)'
    <3>1. \A u \in Threads, x \in Entries :
            x \in Private(u)' <=> IF x = e THEN Spare = With(u) ELSE x \in Private(u)
      <4>1. \A u \in Threads : u # t => e \notin Private(u)
        BY <2>1, PlacesDiffer DEF OneOwner
      <4> QED
        BY <2>1, <2>5, <4>1, PlacesDiffer
    <3>2. \A u \in Threads : Private(u)' \subseteq Entries
      BY <1>e, <2>5
    <3> QED
      BY <1>c, <2>1, <2>2, <3>1, <3>2
  <2>7. Rest'
    BY <1>d, <2>1, <2>2, PlacesDiffer
  <2> QED
    BY <2>3, <2>4, <2>6, <2>7 DEF OneOwner
<1>6. ASSUME NEW t \in Threads, NEW q \in Queues, Forward(t, q) PROVE OneOwner'
  <2>1. \A u \in Threads : Private(u)' = Private(u)
    BY <1>6 DEF Forward, LocalInv, Private, TypeOK
  <2> QED
    BY <1>6, <1>b, <2>1 DEF Forward, heap, history
<1>7. ASSUME NEW t \in Threads, Signal(t) PROVE OneOwner'
  <2>1. \A u \in Threads : Private(u)' = Private(u)
    BY <1>7, ReaderAssumption DEF Signal, Resume, Waiting, Private, TypeOK
  <2> QED
    BY <1>7, <1>b, <2>1 DEF Signal, heap, history
<1>8. ASSUME NEW t \in Threads,
             \/ NoMemory(t) \/ LockFreeToGet(t) \/ LockQueueToPut(t) \/ LockFreeToAdd(t)
             \/ WaitForMessage(t) \/ SpuriousWakeup(t) \/ DoneWithMessage(t)
             \/ \E m \in Msgs : Fill(t, m)
             \/ \E q \in Queues : Publish(t, q) \/ LockQueueToTake(t, q)
      PROVE  OneOwner'
  <2>1. \A u \in Threads : Private(u)' = Private(u)
    BY <1>8 DEF NoMemory, LockFreeToGet, LockQueueToPut, LockFreeToAdd, WaitForMessage,
       SpuriousWakeup, DoneWithMessage, Fill, Publish, LockQueueToTake, Private, TypeOK
  <2>2. UNCHANGED <<place, spare, order, used>>
    BY <1>8 DEF NoMemory, LockFreeToGet, LockQueueToPut, LockFreeToAdd, WaitForMessage,
       SpuriousWakeup, DoneWithMessage, Fill, Publish, LockQueueToTake, heap, history
  <2> QED
    BY <1>b, <2>1, <2>2
<1>9. CASE UNCHANGED vars
  BY <1>9, <1>b DEF vars, Private
<1> QED
  BY <1>1, <1>2, <1>3, <1>4, <1>5, <1>6, <1>7, <1>8, <1>9 DEF Next, Running

-----------------------------------------------------------------------------
(* Contents and wakeups *)

\* Every step keeps queued and held entries filled with a published message.
LEMMA FilledStep ==
  ASSUME TypeOK, LocalInv, ListsWellFormed, OneOwner, FilledInv, [Next]_vars
  PROVE  FilledInv'
<1>a. \A t \in Threads : held[t] # Null => held[t] \in Entries
  BY DEF TypeOK, Pointers
<1>1. ASSUME NEW t \in Threads, NEW m \in Msgs, Fill(t, m) PROVE FilledInv'
  <2>1. entry[t] \in Entries /\ place[entry[t]] = With(t)
    BY <1>1, OwnedEntries DEF Fill
  <2>2. \A u \in Threads : held[u] # entry[t]
    BY <1>1, <2>1, OwnedEntries, PlacesDiffer DEF Fill, LocalInv, Entries
  <2>3. \A u \in Threads : u # t /\ pc[u] \in {"appending", "linking"} => entry[u] # entry[t]
    BY <2>1, OwnedEntries, PlacesDiffer
  <2> QED
    BY <1>1, <1>a, <2>1, <2>2, <2>3, PlacesDiffer DEF Fill, FilledInv, TypeOK, history
<1>2. ASSUME NEW t \in Threads, UnlinkEntry(t) PROVE FilledInv'
  <2> DEFINE q == target[t]
             e == entry[t]
  <2>1. q \in Queues /\ e # Null /\ order[q] # <<>> /\ e = order[q][1]
    BY <1>2 DEF UnlinkEntry, LocalInv, TypeOK, ListsWellFormed, IsList
  <2>2. e \in Entries /\ place[e] = Queued(q)
    BY <2>1, FirstHeld DEF OneOwner, TypeOK
  <2>3. msg[e] \in Msgs
    BY <2>1, <2>2 DEF FilledInv
  <2> QED
    BY <1>2, <2>2, <2>3, PlacesDiffer DEF UnlinkEntry, FilledInv, TypeOK
<1>3. ASSUME NEW t \in Threads, LinkEntry(t) PROVE FilledInv'
  <2>1. entry[t] \in Entries /\ msg[entry[t]] \in Msgs
    BY <1>3, OwnedEntries DEF LinkEntry, FilledInv
  <2> QED
    BY <1>3, <2>1 DEF LinkEntry, Resume, FilledInv, TypeOK
<1>b. ASSUME NEW e \in Entries, NEW p, \A q \in Queues : p # Queued(q),
             place' = [place EXCEPT ![e] = p], UNCHANGED msg
      PROVE  \A x \in Entries, q \in Queues : place'[x] = Queued(q) => msg'[x] \in Msgs
  BY <1>b DEF FilledInv, TypeOK
<1>c. ASSUME NEW t \in Threads, PopFree(t) PROVE FilledInv'
  <2>1. entry[t] \in Entries /\ msg' = msg /\ held' = held /\ entry' = entry
    BY <1>c DEF PopFree, TypeOK, Pointers
  <2>2. \A u \in Threads : pc'[u] \in {"appending", "linking"} => pc[u] = pc'[u]
    BY <1>c DEF PopFree, TypeOK
  <2>3. \A x \in Entries, q \in Queues : place'[x] = Queued(q) => msg'[x] \in Msgs
    <3>1. place' = [place EXCEPT ![entry[t]] = With(t)]
      BY <1>c DEF PopFree
    <3>2. \A q \in Queues : With(t) # Queued(q)
      BY PlacesDiffer
    <3> QED
      BY <1>b, <2>1, <3>1, <3>2
  <2> QED
    BY <2>1, <2>2, <2>3 DEF FilledInv
<1>d. ASSUME NEW t \in Threads, AllocEntry(t) PROVE FilledInv'
  <2>1. used + 1 \in Entries /\ msg' = msg /\ held' = held
    BY <1>d, HeapAssumption DEF AllocEntry, TypeOK, Entries
  <2>2. \A u \in Threads : pc'[u] \in {"appending", "linking"} =>
          pc[u] = pc'[u] /\ entry'[u] = entry[u]
    BY <1>d DEF AllocEntry, TypeOK
  <2>3. \A x \in Entries, q \in Queues : place'[x] = Queued(q) => msg'[x] \in Msgs
    <3>1. place' = [place EXCEPT ![used + 1] = With(t)]
      BY <1>d DEF AllocEntry
    <3>2. \A q \in Queues : With(t) # Queued(q)
      BY PlacesDiffer
    <3> QED
      BY <1>b, <2>1, <3>1, <3>2
  <2> QED
    BY <2>1, <2>2, <2>3 DEF FilledInv
<1>4. ASSUME NEW t \in Threads, PushFree(t) PROVE FilledInv'
  <2>1. held[t] \in Entries /\ msg' = msg /\ entry' = entry
    BY <1>4, <1>a DEF PushFree, LocalInv, heap
  <2>2. \A u \in Threads : pc'[u] \in {"appending", "linking"} => pc[u] = pc'[u]
    BY <1>4 DEF PushFree, TypeOK
  <2>3. \A u \in Threads : held'[u] # Null => held'[u] = held[u]
    BY <1>4 DEF PushFree, TypeOK
  <2>4. \A x \in Entries, q \in Queues : place'[x] = Queued(q) => msg'[x] \in Msgs
    BY <1>b, <1>4, <2>1, PlacesDiffer DEF PushFree
  <2> QED
    BY <2>1, <2>2, <2>3, <2>4 DEF FilledInv
<1>5. ASSUME NEW t \in Threads, NEW q \in Queues, Forward(t, q) PROVE FilledInv'
  BY <1>5 DEF Forward, LocalInv, FilledInv, TypeOK, heap, history
<1>6. ASSUME NEW t \in Threads, Signal(t) PROVE FilledInv'
  BY <1>6, ReaderAssumption DEF Signal, Resume, Waiting, FilledInv, TypeOK, heap, history
<1>7. ASSUME NEW t \in Threads,
             \/ NoMemory(t) \/ LockFreeToGet(t) \/ LockQueueToPut(t) \/ LockFreeToAdd(t)
             \/ WaitForMessage(t) \/ SpuriousWakeup(t) \/ DoneWithMessage(t)
             \/ \E q \in Queues : Publish(t, q) \/ LockQueueToTake(t, q)
      PROVE  FilledInv'
  <2>1. msg' = msg /\ place' = place /\ held' = held
    BY <1>7 DEF NoMemory, LockFreeToGet, LockQueueToPut, LockFreeToAdd, WaitForMessage,
       SpuriousWakeup, DoneWithMessage, Publish, LockQueueToTake, heap, history
  <2>2. \A u \in Threads : pc'[u] \in {"appending", "linking"} =>
          pc[u] \in {"appending", "linking"} /\ entry'[u] = entry[u]
    BY <1>7 DEF NoMemory, LockFreeToGet, LockQueueToPut, LockFreeToAdd, WaitForMessage,
       SpuriousWakeup, DoneWithMessage, Publish, LockQueueToTake, TypeOK
  <2> QED
    BY <2>1, <2>2 DEF FilledInv
<1>8. CASE UNCHANGED vars
  BY <1>8 DEF vars, FilledInv
<1> QED
  BY <1>1, <1>2, <1>3, <1>c, <1>d, <1>4, <1>5, <1>6, <1>7, <1>8 DEF Next, Running

\* Every step keeps a signal on its way to a reader that sleeps on a message.
LEMMA WakeupStep ==
  ASSUME TypeOK, MutexInv, LocalInv, NoLostWakeup, [Next]_vars
  PROVE  NoLostWakeup'
<1> USE ReaderAssumption DEF TypeOK, NoLostWakeup, Waiting
<1>1. ASSUME NEW t \in Threads, LinkEntry(t) PROVE NoLostWakeup'
  <2> DEFINE q == target[t]
  <2>1. q \in Queues /\ wake[t] = (qHead[q] = Null)
    BY <1>1 DEF LinkEntry, LocalInv
  <2>2. \A r \in Queues \ {q} : qHead'[r] = qHead[r]
    BY <1>1, <2>1 DEF LinkEntry
  <2>3. wake[t] => pc'[t] = "signalling" /\ target'[t] = q
    BY <1>1 DEF LinkEntry
  <2>4. ~wake[t] => qHead' = qHead
    BY <1>1 DEF LinkEntry
  <2>5. /\ target' = target
        /\ \A u \in Threads \ {t} : pc'[u] = pc[u]
        /\ pc[t] = "linking" /\ pc'[t] # "waiting"
    BY <1>1 DEF LinkEntry, Resume
  <2> SUFFICES ASSUME NEW r \in Queues, Waiting(Reader[r], r)', qHead'[r] # Null
               PROVE  \E u \in Threads : pc'[u] = "signalling" /\ target'[u] = r
    OBVIOUS
  <2>6. CASE r = q /\ wake[t]
    BY <2>3, <2>6
  <2>7. CASE r # q \/ ~wake[t]
    <3>1. Waiting(Reader[r], r) /\ qHead[r] # Null
      BY <2>2, <2>4, <2>5, <2>7
    <3>2. PICK u \in Threads : pc[u] = "signalling" /\ target[u] = r
      BY <3>1
    <3> QED
      BY <2>5, <3>2
  <2> QED
    BY <2>6, <2>7
<1>2. ASSUME NEW t \in Threads, UnlinkEntry(t) PROVE NoLostWakeup'
  BY <1>2 DEF UnlinkEntry, LocalInv
<1>3. ASSUME NEW t \in Threads, WaitForMessage(t) PROVE NoLostWakeup'
  BY <1>3 DEF WaitForMessage, LocalInv, lists
<1>4. ASSUME NEW t \in Threads, Signal(t) PROVE NoLostWakeup'
  BY <1>4 DEF Signal, Resume, lists
<1>5. ASSUME NEW t \in Threads,
             \/ NoMemory(t) \/ LockFreeToGet(t) \/ LockQueueToPut(t) \/ LockFreeToAdd(t)
             \/ SpuriousWakeup(t) \/ DoneWithMessage(t)
             \/ PopFree(t) \/ AllocEntry(t) \/ PushFree(t)
             \/ \E m \in Msgs : Fill(t, m)
             \/ \E q \in Queues : Publish(t, q) \/ Forward(t, q) \/ LockQueueToTake(t, q)
      PROVE  NoLostWakeup'
  <2>1. qHead' = qHead
    BY <1>5 DEF NoMemory, LockFreeToGet, LockQueueToPut, LockFreeToAdd, SpuriousWakeup,
       DoneWithMessage, PopFree, AllocEntry, PushFree, Fill, Publish, Forward,
       LockQueueToTake, lists
  <2>2. \A u \in Threads :
          /\ pc'[u] = "waiting" => pc[u] = "waiting" /\ target'[u] = target[u]
          /\ pc[u] = "signalling" => pc'[u] = "signalling" /\ target'[u] = target[u]
    BY <1>5 DEF NoMemory, LockFreeToGet, LockQueueToPut, LockFreeToAdd, SpuriousWakeup,
       DoneWithMessage, PopFree, AllocEntry, PushFree, Fill, Publish, Forward,
       LockQueueToTake
  <2> SUFFICES ASSUME NEW r \in Queues, Waiting(Reader[r], r)', qHead'[r] # Null
               PROVE  \E u \in Threads : pc'[u] = "signalling" /\ target'[u] = r
    OBVIOUS
  <2>3. PICK u \in Threads : pc[u] = "signalling" /\ target[u] = r
    BY <2>1, <2>2
  <2> QED
    BY <2>2, <2>3
<1>6. CASE UNCHANGED vars
  BY <1>6 DEF vars
<1> QED
  BY <1>1, <1>2, <1>3, <1>4, <1>5, <1>6 DEF Next, Running

-----------------------------------------------------------------------------
(* The theorems *)

\* What BrokerQueueInit leaves behind satisfies the invariant.
LEMMA InitInv == Init => Inv
<1> SUFFICES ASSUME Init PROVE Inv
  OBVIOUS
<1> USE ReaderAssumption, HeapAssumption, NoneAssumption DEF Init
<1>1. spare \in Seq(Entries) /\ Len(spare) = Pre /\ DOMAIN spare = 1..Pre
  <2>1. spare \in [1..Pre -> Entries]
    BY DEF Entries
  <2> QED
    BY <2>1
<1>2. TypeOK
  <2>1. target \in [Threads -> Queues] /\ pc \in [Threads -> Locations]
    BY QueuesAssumption DEF Locations
  <2>2. next \in [Entries -> Pointers] /\ freelist \in Pointers
    BY DEF Entries, Pointers
  <2>3. place \in [Entries -> Places]
    BY PlacesTyped
  <2>4. order \in [Queues -> Seq(Entries)]
    BY EmptySeq
  <2> QED
    BY <1>1, <2>1, <2>2, <2>3, <2>4 DEF TypeOK, Pointers
<1>3. MutexInv /\ LocalInv /\ NoLostWakeup
  BY DEF MutexInv, LocalInv, NoLostWakeup, Waiting
<1>4. ListsWellFormed
  <2>1. IsList(next, freelist, spare)
    <3>1. freelist = IF spare = <<>> THEN Null ELSE spare[1]
      <4>1. Pre = 0 => spare = <<>>
        BY <1>1, EmptySeq
      <4>2. Pre # 0 => spare # <<>> /\ spare[1] = Pre
        <5>1. Pre # 0 => 1 \in 1..Pre /\ Pre + 1 - 1 = Pre
          OBVIOUS
        <5>2. Pre # 0 => spare[1] = Pre
          BY <5>1
        <5>3. Pre # 0 => spare # <<>>
          BY <1>1, EmptySeq
        <5> QED
          BY <5>2, <5>3
      <4> QED
        BY <4>1, <4>2
    <3>2. \A i \in 1..Len(spare) :
            next[spare[i]] = IF i = Len(spare) THEN Null ELSE spare[i + 1]
      BY <1>1 DEF Entries
    <3> QED
      BY <3>1, <3>2 DEF IsList
  <2>2. \A q \in Queues : IsList(next, qHead[q], order[q])
    BY DEF IsList
  <2> QED
    BY <2>1, <2>2 DEF ListsWellFormed
<1>5. OneOwner
  <2>1. Holds(place, spare, Spare)
    <3>1. IsInjective(spare)
      BY <1>1 DEF IsInjective
    <3>2. \A x \in Range(spare) : x \in Entries /\ place[x] = Spare
      BY <1>1 DEF Range, Entries
    <3>3. \A x \in Entries : place[x] = Spare => x \in Range(spare)
      <4> SUFFICES ASSUME NEW x \in Entries, place[x] = Spare PROVE x \in Range(spare)
        OBVIOUS
      <4>1. x <= Pre
        BY PlacesDiffer
      <4>2. Pre + 1 - x \in DOMAIN spare /\ spare[Pre + 1 - x] = x
        BY <1>1, <4>1 DEF Entries
      <4> QED
        BY <4>2 DEF Range
    <3> QED
      BY <3>1, <3>2, <3>3 DEF Holds
  <2>2. \A q \in Queues : Holds(place, order[q], Queued(q))
    BY PlacesDiffer DEF Holds, IsInjective, Range
  <2>3. \A t \in Threads : Private(t) = {e \in Entries : place[e] = With(t)}
    BY PlacesDiffer DEF Private
  <2>4. {e \in Entries : place[e] = Unallocated} = (used + 1)..HeapSize
    BY PlacesDiffer DEF Entries
  <2> QED
    BY <2>1, <2>2, <2>3, <2>4 DEF OneOwner
<1>6. FilledInv
  BY PlacesDiffer DEF FilledInv
<1> QED
  BY <1>2, <1>3, <1>4, <1>5, <1>6 DEF Inv

\* The invariant holds in every reachable state, for any number of queues,
\* threads and entries.
THEOREM Invariance == Spec => []Inv
<1>1. Inv /\ [Next]_vars => Inv'
  BY TypeStep, MutexStep, LocalStep, ListsStep, OwnerStep, FilledStep, WakeupStep DEF Inv
<1> QED
  BY InitInv, <1>1, PTL DEF Spec

\* Type correctness.
THEOREM Typing == Spec => []TypeOK
<1>1. Inv => TypeOK
  BY DEF Inv
<1> QED
  BY <1>1, Invariance, PTL

\* The freelist and the queues are proper lists at every step of every
\* interleaving: no update of a shared pointer is ever lost.
THEOREM ListsStayWellFormed == Spec => []ListsWellFormed
<1>1. Inv => ListsWellFormed
  BY DEF Inv
<1> QED
  BY <1>1, Invariance, PTL

\* No entry leaks, and none is in two places at once.
THEOREM EntriesHaveOneOwner == Spec => []OneOwner
<1>1. Inv => OneOwner
  BY DEF Inv
<1> QED
  BY <1>1, Invariance, PTL

\* A reader never sleeps on a message without a signal on its way.
THEOREM WakeupsAreNotLost == Spec => []NoLostWakeup
<1>1. Inv => NoLostWakeup
  BY DEF Inv
<1> QED
  BY <1>1, Invariance, PTL

-----------------------------------------------------------------------------
(* The queues implement the abstract ones *)

\* A step that leaves the queues, the held entries and their messages alone is
\* a stuttering step of MessageQueue.
LEMMA Stutter ==
  ASSUME TypeOK, UNCHANGED <<order, held>>,
         \A q \in Queues : \A i \in 1..Len(order[q]) : msg'[order[q][i]] = msg[order[q][i]],
         \A t \in Threads : held[t] # Null => msg'[held[t]] = msg[held[t]]
  PROVE  UNCHANGED MQ!vars
<1>1. Contents' = Contents
  BY DEF Contents
<1>2. Hand' = Hand
  BY DEF Hand
<1> QED
  BY <1>1, <1>2 DEF MQ!vars

\* Every step of the C code is a step of MessageQueue or a stuttering step.
LEMMA StepSimulation ==
  ASSUME Inv, [Next]_vars
  PROVE  [MQ!Next]_(MQ!vars)
<1> USE DEF Inv
<1>a. ASSUME UNCHANGED <<order, held, msg>> PROVE UNCHANGED MQ!vars
  BY <1>a, Stutter
<1>1. ASSUME NEW t \in Threads, NEW m \in Msgs, Fill(t, m) PROVE UNCHANGED MQ!vars
  <2>1. entry[t] \in Entries /\ place[entry[t]] = With(t)
    BY <1>1, OwnedEntries DEF Fill
  <2>2. \A u \in Threads : held[u] # Null => held[u] # entry[t]
    BY <1>1, <2>1, OwnedEntries, PlacesDiffer DEF Fill, LocalInv
  <2>3. \A q \in Queues : \A i \in 1..Len(order[q]) :
          order[q][i] \in Entries /\ order[q][i] # entry[t]
    BY <2>1, PlacesDiffer DEF TypeOK, OneOwner, Holds, Range
  <2>4. \A e \in Entries : e # entry[t] => msg'[e] = msg[e]
    BY <1>1 DEF Fill, TypeOK
  <2>5. \A u \in Threads : held[u] # Null => msg'[held[u]] = msg[held[u]]
    BY <2>2, <2>4 DEF TypeOK, Pointers
  <2>6. UNCHANGED <<order, held>>
    BY <1>1 DEF Fill, history
  <2> QED
    BY <2>3, <2>4, <2>5, <2>6, Stutter
<1>2. ASSUME NEW t \in Threads, LinkEntry(t) PROVE MQ!Next
  <2> DEFINE q == target[t]
             e == entry[t]
             s == order[q]
  <2>1. q \in Queues /\ e \in Entries /\ msg[e] \in Msgs /\ s \in Seq(Entries)
    BY <1>2, OwnedEntries DEF LinkEntry, FilledInv, TypeOK
  <2>2. order' = [order EXCEPT ![q] = Append(s, e)] /\ msg' = msg /\ held' = held
    BY <1>2 DEF LinkEntry
  <2>3. Contents'[q] = Append(Contents[q], msg[e])
    <3>1. order'[q] = Append(s, e)
      BY <2>1, <2>2 DEF TypeOK
    <3>2. Contents'[q] = [i \in 1..Len(Append(s, e)) |-> msg[Append(s, e)[i]]]
      <4>1. Contents'[q] = [i \in 1..Len(order'[q]) |-> msg'[order'[q][i]]]
        BY <2>1 DEF Contents
      <4> HIDE DEF s, e, q
      <4> QED
        BY <2>2, <3>1, <4>1
    <3>3. Contents[q] = [i \in 1..Len(s) |-> msg[s[i]]]
      BY <2>1 DEF Contents
    <3> HIDE DEF q, e, s
    <3>4. [i \in 1..Len(s) |-> msg[s[i]]] \in Seq(Msgs \cup {NoMsg})
      BY <2>1 DEF TypeOK
    <3>5. [i \in 1..Len(Append(s, e)) |-> msg[Append(s, e)[i]]]
            = Append([i \in 1..Len(s) |-> msg[s[i]]], msg[e])
      BY <2>1, <3>4 DEF TypeOK
    <3> QED
      BY <3>2, <3>3, <3>5
  <2>4. Contents' = [Contents EXCEPT ![q] = Append(@, msg[e])]
    <3>1. \A r \in Queues \ {q} : Contents'[r] = Contents[r]
      BY <2>1, <2>2 DEF Contents, TypeOK
    <3>2. DOMAIN Contents = Queues /\ DOMAIN Contents' = Queues
      BY DEF Contents
    <3> HIDE DEF q, e
    <3> QED
      BY <2>1, <2>3, <3>1, <3>2 DEF Contents
  <2>5. Hand' = Hand
    BY <2>2 DEF Hand
  <2>6. MQ!Put(q, msg[e])
    BY <2>4, <2>5 DEF MQ!Put
  <2> QED
    BY <2>1, <2>6 DEF MQ!Next
<1>3. ASSUME NEW t \in Threads, UnlinkEntry(t) PROVE MQ!Next
  <2> DEFINE q == target[t]
             e == entry[t]
             s == order[q]
  <2>1. /\ q \in Queues /\ Reader[q] = t /\ held[t] = Null
        /\ e # Null /\ s # <<>> /\ e = s[1] /\ s \in Seq(Entries)
    BY <1>3 DEF UnlinkEntry, LocalInv, TypeOK, ListsWellFormed, IsList
  <2>2. /\ order' = [order EXCEPT ![q] = Tail(s)] /\ msg' = msg
        /\ held' = [held EXCEPT ![t] = e]
    BY <1>3 DEF UnlinkEntry
  <2>3. /\ Contents[q] # <<>>
        /\ Head(Contents[q]) = msg[e]
        /\ Contents'[q] = Tail(Contents[q])
    <3>1. order'[q] = Tail(s)
      BY <2>1, <2>2 DEF TypeOK
    <3>2. Contents'[q] = [i \in 1..Len(Tail(s)) |-> msg[Tail(s)[i]]]
      <4>1. Contents'[q] = [i \in 1..Len(order'[q]) |-> msg'[order'[q][i]]]
        BY <2>1 DEF Contents
      <4> HIDE DEF s, e, q
      <4> QED
        BY <2>2, <3>1, <4>1
    <3>3. Contents[q] = [i \in 1..Len(s) |-> msg[s[i]]]
      BY <2>1 DEF Contents
    <3> DEFINE f == [i \in 1..Len(s) |-> msg[s[i]]]
    <3> HIDE DEF q, e, s
    <3>4. f \in Seq(Msgs \cup {NoMsg}) /\ Len(f) = Len(s) /\ Len(s) \in Nat \ {0}
      BY <2>1, EmptySeq DEF TypeOK
    <3>5. f # <<>> /\ Head(f) = msg[e]
      BY <2>1, <3>4, EmptySeq
    <3>6. [i \in 1..Len(Tail(s)) |-> msg[Tail(s)[i]]] = Tail(f)
      BY <2>1, <3>4
    <3> QED
      BY <3>2, <3>3, <3>5, <3>6
  <2>4. Contents' = [Contents EXCEPT ![q] = Tail(@)]
    <3>1. \A r \in Queues \ {q} : Contents'[r] = Contents[r]
      BY <2>1, <2>2 DEF Contents, TypeOK
    <3>2. /\ Contents = [r \in Queues |-> Contents[r]]
          /\ Contents' = [r \in Queues |-> Contents'[r]]
      BY DEF Contents
    <3> HIDE DEF q, e
    <3> QED
      BY <2>1, <2>3, <3>1, <3>2
  <2>5. Hand[t] = NoMsg /\ Hand' = [Hand EXCEPT ![t] = msg[e]]
    BY <2>1, <2>2 DEF Hand, TypeOK
  <2>6. MQ!Take(q)
    BY <2>1, <2>3, <2>4, <2>5 DEF MQ!Take
  <2> QED
    BY <2>1, <2>6 DEF MQ!Next
<1>4. ASSUME NEW t \in Threads, held[t] # Null, held' = [held EXCEPT ![t] = Null],
             UNCHANGED <<order, msg>>
      PROVE  MQ!Next
  <2>1. Contents' = Contents
    BY <1>4 DEF Contents
  <2>2. Hand[t] # NoMsg /\ Hand' = [Hand EXCEPT ![t] = NoMsg]
    BY <1>4, NoneAssumption DEF Hand, FilledInv, TypeOK
  <2> QED
    BY <2>1, <2>2 DEF MQ!Next, MQ!Release
<1>5. ASSUME NEW t \in Threads, PushFree(t) PROVE MQ!Next
  BY <1>5, <1>4 DEF PushFree, LocalInv, heap
<1>6. ASSUME NEW t \in Threads, NEW q \in Queues, Forward(t, q) PROVE MQ!Next
  BY <1>6, <1>4 DEF Forward, LocalInv, heap, history
<1>7. ASSUME NEW t \in Threads,
             \/ PopFree(t) \/ AllocEntry(t) \/ NoMemory(t) \/ LockFreeToGet(t)
             \/ LockQueueToPut(t) \/ LockFreeToAdd(t) \/ Signal(t)
             \/ WaitForMessage(t) \/ SpuriousWakeup(t) \/ DoneWithMessage(t)
             \/ \E q \in Queues : Publish(t, q) \/ LockQueueToTake(t, q)
      PROVE  UNCHANGED MQ!vars
  BY <1>7, <1>a DEF PopFree, AllocEntry, NoMemory, LockFreeToGet, LockQueueToPut,
     LockFreeToAdd, Signal, WaitForMessage, SpuriousWakeup, DoneWithMessage, Publish,
     LockQueueToTake, heap, history
<1>8. CASE UNCHANGED vars
  BY <1>8, <1>a DEF vars
<1> QED
  BY <1>1, <1>2, <1>3, <1>5, <1>6, <1>7, <1>8 DEF Next, Running

\* brokerQ.c implements MessageQueue: first in first out queues, each message
\* handed once to the queue's reader and unchanged until it is done with it.
THEOREM Refinement == Spec => FifoQueues
<1>1. Init => MQ!Init
  <2> SUFFICES ASSUME Init PROVE MQ!Init
    OBVIOUS
  <2>1. Contents = [q \in Queues |-> <<>>]
    BY DEF Init, Contents
  <2>2. Hand = [t \in Threads |-> NoMsg]
    BY DEF Init, Hand
  <2> QED
    BY <2>1, <2>2 DEF MQ!Init
<1>2. Inv /\ [Next]_vars => [MQ!Next]_(MQ!vars)
  BY StepSimulation
<1> QED
  BY <1>1, <1>2, Invariance, PTL DEF Spec, FifoQueues, MQ!Spec
=============================================================================
