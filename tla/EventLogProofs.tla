--------------------------- MODULE EventLogProofs ---------------------------
(***************************************************************************)
(* Proofs about EventLog for every number of events, failures and crashes  *)
(* and every size of the buffer and of a page: the journal, the feed, and  *)
(* what a follower from the start has printed.                             *)
(***************************************************************************)
EXTENDS EventLog, SequenceTheorems, WellFoundedInduction, TLAPS

(* A sequence over a set is one over a larger set.                          *)
LEMMA WiderSequence ==
  ASSUME NEW S, NEW T, S \subseteq T, NEW s \in Seq(S)
  PROVE  s \in Seq(T)
OBVIOUS

(* What is in a sequence.                                                   *)
LEMMA InSequence ==
  ASSUME NEW S, NEW s \in Seq(S)
  PROVE  Len(s) \in Nat /\ DOMAIN s = 1 .. Len(s) /\ \A k \in DOMAIN s : s[k] \in S
OBVIOUS

\* An element of a sequence is one of its set, at a place that is a number.
LEMMA ElementOf ==
  ASSUME NEW S, NEW s \in Seq(S), NEW k \in DOMAIN s
  PROVE  s[k] \in S /\ k \in Nat
OBVIOUS

(* A new element at the end leaves the head and the others in place.        *)
LEMMA AppendOf ==
  ASSUME NEW S, NEW s \in Seq(S), NEW x
  PROVE  /\ Append(s, x) # <<>> /\ Len(Append(s, x)) = Len(s) + 1
         /\ DOMAIN Append(s, x) = 1 .. Len(s) + 1
         /\ \A i \in 1 .. Len(s) : Append(s, x)[i] = s[i]
         /\ Append(s, x)[Len(s) + 1] = x
         /\ s # <<>> => Head(Append(s, x)) = Head(s)
         /\ \A T : S \subseteq T /\ x \in T => Append(s, x) \in Seq(T)
OBVIOUS

(* A sequence after another.                                                *)
LEMMA ConcatOf ==
  ASSUME NEW S, NEW s \in Seq(S), NEW t \in Seq(S)
  PROVE  /\ s \o t \in Seq(S) /\ Len(s \o t) = Len(s) + Len(t)
         /\ \A k \in 1 .. Len(s) : (s \o t)[k] = s[k]
         /\ \A m \in 1 .. Len(t) : (s \o t)[Len(s) + m] = t[m]
OBVIOUS

(* Events stay events when more are emitted.                                *)
LEMMA WiderEvents ==
  ASSUME NEW e \in Nat, NEW f \in Nat, e <= f
  PROVE  /\ \A s \in Seq(1 .. e) : s \in Seq(1 .. f)
         /\ \A q \in Seq(Seq(1 .. e) \ {<<>>}) : q \in Seq(Seq(1 .. f) \ {<<>>})
<1>1. 1 .. e \subseteq 1 .. f
  OBVIOUS
<1>2. \A s \in Seq(1 .. e) : s \in Seq(1 .. f)
  BY <1>1, WiderSequence
<1>3. Seq(1 .. e) \ {<<>>} \subseteq Seq(1 .. f) \ {<<>>}
  BY <1>2
<1>4. \A q \in Seq(Seq(1 .. e) \ {<<>>}) : q \in Seq(Seq(1 .. f) \ {<<>>})
  BY <1>3, WiderSequence
<1>. QED
  BY <1>2, <1>4

(* The lines of the journal and of the feed.                                *)
LEMMA LinesOf ==
  ASSUME JournalTypeOK
  PROVE  /\ file \in Seq([ev : 0 .. emitted, seq : Nat])
         /\ feed \in Seq([ev : 1 .. emitted, seq : Nat])
         /\ emitted \in Nat /\ Len(file) \in Nat /\ Len(feed) \in Nat
         /\ DOMAIN file = 1 .. Len(file) /\ DOMAIN feed = 1 .. Len(feed)
         /\ \A k \in DOMAIN file : file[k].ev \in 0 .. emitted /\ file[k].seq \in Nat
         /\ \A k \in DOMAIN feed : feed[k].ev \in 1 .. emitted /\ feed[k].seq \in Nat
<1>1. emitted \in Nat
  BY EventLogAssumption DEF JournalTypeOK
<1>2. file \in Seq([ev : 0 .. emitted, seq : Nat]) /\ feed \in Seq([ev : 1 .. emitted, seq : Nat])
  BY DEF JournalTypeOK
<1>3. \A k \in DOMAIN file : file[k] \in [ev : 0 .. emitted, seq : Nat]
  BY <1>2, InSequence
<1>4. \A k \in DOMAIN feed : feed[k] \in [ev : 1 .. emitted, seq : Nat]
  BY <1>2, InSequence
<1>5. /\ Len(file) \in Nat /\ Len(feed) \in Nat
      /\ DOMAIN file = 1 .. Len(file) /\ DOMAIN feed = 1 .. Len(feed)
  BY <1>2
<1>. QED
  BY <1>1, <1>2, <1>3, <1>4, <1>5

(* Lines stay lines when more events are emitted.                           *)
LEMMA WiderLines ==
  ASSUME JournalTypeOK, emitted' \in Nat, emitted <= emitted'
  PROVE  /\ file \in Seq([ev : 0 .. emitted', seq : Nat])
         /\ feed \in Seq([ev : 1 .. emitted', seq : Nat])
<1>1. emitted \in Nat
  BY LinesOf
<1>2. file \in Seq([ev : 0 .. emitted', seq : Nat])
  <2>1. PICK S, T : S = [ev : 0 .. emitted, seq : Nat] /\ T = [ev : 0 .. emitted', seq : Nat]
    OBVIOUS
  <2>2. S \subseteq T
    BY <1>1, <2>1
  <2>3. file \in Seq(S)
    BY <2>1, LinesOf
  <2>4. file \in Seq(T)
    BY <2>2, <2>3, WiderSequence
  <2>. QED
    BY <2>1, <2>4
<1>3. feed \in Seq([ev : 1 .. emitted', seq : Nat])
  <2>1. PICK S, T : S = [ev : 1 .. emitted, seq : Nat] /\ T = [ev : 1 .. emitted', seq : Nat]
    OBVIOUS
  <2>2. S \subseteq T
    BY <1>1, <2>1
  <2>3. feed \in Seq(S)
    BY <2>1, LinesOf
  <2>4. feed \in Seq(T)
    BY <2>2, <2>3, WiderSequence
  <2>. QED
    BY <2>1, <2>4
<1>. QED
  BY <1>2, <1>3

(* The slots are the queue and then the buffer.                             *)
LEMMA SlotsOf ==
  ASSUME JournalTypeOK
  PROVE  /\ emitted \in Nat /\ Len(queue) \in Nat
         /\ Slots \in Seq(Seq(1 .. emitted))
         /\ Len(Slots) = Len(queue) + 1 /\ DOMAIN Slots = 1 .. Len(queue) + 1
         /\ \A i \in 1 .. Len(queue) : Slots[i] = queue[i]
         /\ Slots[Len(queue) + 1] = buffer
<1>1. queue \in Seq(Seq(1 .. emitted)) /\ buffer \in Seq(1 .. emitted)
  BY WiderSequence DEF JournalTypeOK
<1>2. emitted \in Nat
  BY EventLogAssumption DEF JournalTypeOK
<1>. QED
  BY <1>1, <1>2, AppendProperties DEF Slots

\* The events of the claimed slots have been emitted.
LEMMA EventsOfSlots ==
  ASSUME JournalTypeOK
  PROVE  \A i \in DOMAIN Slots : \A m \in DOMAIN Slots[i] :
           Slots[i][m] \in 1 .. emitted /\ Slots[i][m] \in Nat /\ m \in Nat
<1>. SUFFICES ASSUME NEW i \in DOMAIN Slots, NEW m \in DOMAIN Slots[i]
              PROVE  Slots[i][m] \in 1 .. emitted /\ Slots[i][m] \in Nat /\ m \in Nat
  OBVIOUS
<1>1. Slots[i] \in Seq(1 .. emitted)
  BY SlotsOf, ElementOf
<1>2. Slots[i][m] \in 1 .. emitted /\ m \in Nat
  BY <1>1, ElementOf
<1>. QED
  BY <1>2

(* The same after a step that keeps the types.                              *)
LEMMA SlotsAfter ==
  ASSUME JournalTypeOK'
  PROVE  /\ emitted' \in Nat /\ Len(queue') \in Nat
         /\ Slots' \in Seq(Seq(1 .. emitted'))
         /\ Len(Slots') = Len(queue') + 1 /\ DOMAIN Slots' = 1 .. Len(queue') + 1
         /\ \A i \in 1 .. Len(queue') : Slots'[i] = queue'[i]
         /\ Slots'[Len(queue') + 1] = buffer'
<1>1. queue' \in Seq(Seq(1 .. emitted')) /\ buffer' \in Seq(1 .. emitted')
  BY WiderSequence DEF JournalTypeOK
<1>2. emitted' \in Nat
  BY EventLogAssumption DEF JournalTypeOK
<1>. QED
  BY <1>1, <1>2, AppendProperties DEF Slots

-----------------------------------------------------------------------------
(* Emission.                                                                *)

(* What a step that emits or claims does to the slots: what waited keeps    *)
(* its place, what is new comes later and in order.                         *)
OldPlace(i, m) == i \in DOMAIN Slots /\ m \in DOMAIN Slots[i] /\ Slots'[i][m] = Slots[i][m]
OnlyLater ==
  /\ \A i \in DOMAIN Slots' : \A m \in DOMAIN Slots'[i] :
       OldPlace(i, m) \/ Slots'[i][m] > emitted
  /\ \A i, j \in DOMAIN Slots' : \A m \in DOMAIN Slots'[i], n \in DOMAIN Slots'[j] :
       (i < j \/ (i = j /\ m < n)) =>
         (OldPlace(i, m) /\ OldPlace(j, n)) \/ Slots'[i][m] < Slots'[j][n]
  /\ append # None => Head(queue') = Head(queue)

\* A step that only adds events newer than all there are, at the end of the
\* queue, keeps the journal.
LEMMA LaterKeepsJournal ==
  ASSUME JournalTypeOK, JournalTypeOK', JournalInv, OnlyLater, UNCHANGED <<cache, append, disk, feed, cut>>
  PROVE  JournalInv'
<1>1. /\ \A k \in DOMAIN feed : feed[k].ev \in Nat /\ feed[k].ev <= emitted
      /\ \A k \in DOMAIN file : file[k].ev \in Nat /\ file[k].ev <= emitted
  BY LinesOf
<1>2. WaitingInOrder'
  <2>1. \A i, j \in DOMAIN Slots' : \A m \in DOMAIN Slots'[i], n \in DOMAIN Slots'[j] :
          (i < j \/ (i = j /\ m < n)) => Slots'[i][m] < Slots'[j][n]
    BY DEF OnlyLater, OldPlace, JournalInv, WaitingInOrder
  <2>2. ASSUME NEW i \in DOMAIN Slots', NEW m \in DOMAIN Slots'[i]
        PROVE  /\ \A k \in DOMAIN feed : feed[k].ev < Slots'[i][m]
               /\ Landed(i, m) \/ \A k \in DOMAIN file : file[k].ev < Slots'[i][m]
    <3>1. CASE OldPlace(i, m)
      BY <3>1 DEF OldPlace, JournalInv, WaitingInOrder
    <3>2. CASE Slots'[i][m] > emitted
      <4>1. Slots'[i] \in Seq(1 .. emitted')
        BY SlotsAfter, ElementOf
      <4>2. Slots'[i][m] \in 1 .. emitted'
        BY <4>1, ElementOf
      <4>3. emitted \in Nat /\ Slots'[i][m] \in Nat
        BY <4>2, SlotsOf, SlotsAfter
      <4>. QED
        BY <1>1, <3>2, <4>3
    <3>. QED
      BY <3>1, <3>2 DEF OnlyLater
  <2>. QED
    BY <2>1, <2>2 DEF WaitingInOrder, Landed, disk
<1>3. NumbersFit' /\ LandedIsThere'
  BY DEF OnlyLater, JournalInv, NumbersFit, LandedIsThere, Glued, Batch, disk
<1>4. Promise!Ordered(feed)' /\ JournalHoldsTheFeed'
  BY DEF JournalInv, Promise!Ordered, JournalHoldsTheFeed, disk
<1>. QED
  BY <1>2, <1>3, <1>4 DEF JournalInv

(* A queue whose slots are those that waited, as far as it goes.            *)
LEMMA DrainedOf ==
  ASSUME JournalTypeOK
  PROVE  /\ Drained(queue) \in Seq(Seq(1 .. emitted) \ {<<>>})
         /\ Len(Drained(queue)) \in Nat /\ Len(Drained(queue)) <= Len(queue) + 1
         /\ \A i \in 1 .. Len(Drained(queue)) : Drained(queue)[i] = Slots[i]
         /\ queue # <<>> => Drained(queue) # <<>> /\ Head(Drained(queue)) = Head(queue)
<1>1. queue \in Seq(Seq(1 .. emitted) \ {<<>>}) /\ buffer \in Seq(1 .. emitted)
  BY DEF JournalTypeOK
<1>2. CASE buffer = <<>>
  <2>1. Drained(queue) = queue
    BY <1>2 DEF Drained
  <2>. QED
    BY <1>1, <2>1, SlotsOf
<1>3. CASE buffer # <<>>
  <2>1. Drained(queue) = Append(queue, buffer) /\ buffer \in Seq(1 .. emitted) \ {<<>>}
    BY <1>1, <1>3 DEF Drained
  <2>2. Drained(queue) = Slots
    BY <2>1 DEF Slots
  <2>3. Append(queue, buffer) \in Seq(Seq(1 .. emitted) \ {<<>>})
    BY <1>1, <2>1, AppendOf
  <2>4. Append(queue, buffer) # <<>> /\ (queue # <<>> => Head(Append(queue, buffer)) = Head(queue))
    BY <1>1, AppendOf
  <2>. QED
    BY <2>1, <2>2, <2>3, <2>4, SlotsOf
<1>. QED
  BY <1>2, <1>3

\* Claiming a slot for new events keeps the types,
LEMMA AppendEventsType ==
  ASSUME JournalTypeOK, NEW n \in 1 .. 2, AppendEvents(n)
  PROVE  JournalTypeOK'
<1>. DEFINE batch == [i \in 1 .. n |-> emitted + i]
<1>1. /\ emitted' = emitted + n /\ emitted + n <= MaxEvents
      /\ queue' = Append(Drained(queue), batch) /\ buffer' = <<>>
      /\ UNCHANGED <<cache, append, file, open, feed, settled, cut>>
  BY DEF AppendEvents, Claimed, disk
<1>2. emitted \in Nat /\ emitted' \in 0 .. MaxEvents /\ emitted <= emitted'
  BY <1>1, EventLogAssumption DEF JournalTypeOK
<1>3. batch \in Seq(1 .. emitted') \ {<<>>}
  BY <1>1, <1>2
<1>. HIDE DEF batch
<1>4. queue' \in Seq(Seq(1 .. emitted') \ {<<>>})
  <2>1. Drained(queue) \in Seq(Seq(1 .. emitted') \ {<<>>})
    BY <1>2, DrainedOf, WiderEvents
  <2>. QED
    BY <1>1, <1>3, <2>1, AppendProperties
<1>5. append # None => queue' # <<>> /\ Head(queue') = Head(queue)
  <2>1. Drained(queue) \in Seq(Seq(1 .. emitted) \ {<<>>})
    BY DrainedOf
  <2>2. append # None => queue # <<>>
    BY DEF JournalTypeOK
  <2>. QED
    BY <1>1, <2>1, <2>2, DrainedOf, AppendOf
<1>6. /\ file \in Seq([ev : 0 .. emitted', seq : Nat])
      /\ feed \in Seq([ev : 1 .. emitted', seq : Nat])
  BY <1>2, WiderLines
<1>7. buffer' \in Seq(1 .. emitted') /\ Len(buffer') < MaxBuffered
  BY <1>1, EventLogAssumption
<1>8. cut' \subseteq 1 .. emitted'
  BY <1>1, <1>2 DEF JournalTypeOK
<1>. QED
  BY <1>1, <1>2, <1>4, <1>5, <1>6, <1>7, <1>8 DEF JournalTypeOK, Batch

\* and only adds at the end.
LEMMA AppendEventsLater ==
  ASSUME JournalTypeOK, JournalTypeOK', NEW n \in 1 .. 2, AppendEvents(n)
  PROVE  OnlyLater
<1>. DEFINE batch == [i \in 1 .. n |-> emitted + i]
<1>1. queue' = Append(Drained(queue), batch) /\ buffer' = <<>>
  BY DEF AppendEvents, Claimed
<1>2. emitted \in Nat
  BY SlotsOf
<1>d. PICK d \in Nat : d = Len(Drained(queue))
  BY DrainedOf
<1>3. /\ Len(queue') = d + 1 /\ queue'[d + 1] = batch
      /\ \A i \in 1 .. d : queue'[i] = Drained(queue)[i]
      /\ Drained(queue) # <<>> => Head(queue') = Head(Drained(queue))
  <2>1. Drained(queue) \in Seq(Seq(1 .. emitted) \ {<<>>})
    BY DrainedOf
  <2>. HIDE DEF batch
  <2>. QED
    BY <1>1, <1>d, <2>1
<1>4. /\ DOMAIN Slots' = 1 .. d + 2
      /\ \A i \in 1 .. d : i \in DOMAIN Slots /\ Slots'[i] = Slots[i]
      /\ Slots'[d + 1] = batch /\ Slots'[d + 2] = <<>>
  <2>. HIDE DEF batch
  <2>1. /\ DOMAIN Slots' = 1 .. d + 2 /\ Slots'[d + 2] = <<>>
        /\ \A i \in 1 .. d + 1 : Slots'[i] = queue'[i]
    <3>1. Len(queue') = d + 1 /\ d + 1 + 1 = d + 2 /\ buffer' = <<>>
      BY <1>1, <1>3
    <3>. QED
      BY <3>1, SlotsAfter
  <2>2. \A i \in 1 .. d : i \in DOMAIN Slots /\ queue'[i] = Slots[i]
    <3>1. \A i \in 1 .. d : queue'[i] = Drained(queue)[i]
      BY <1>3
    <3>2. d <= Len(queue) + 1 /\ \A i \in 1 .. d : Drained(queue)[i] = Slots[i]
      BY <1>d, DrainedOf
    <3>3. \A i \in 1 .. d : i \in DOMAIN Slots
      BY <3>2, SlotsOf
    <3>. QED
      BY <3>1, <3>2, <3>3
  <2>. QED
    BY <1>3, <2>1, <2>2
<1>5. \A i \in 1 .. d : \A m \in DOMAIN Slots'[i] :
        OldPlace(i, m) /\ Slots[i][m] \in Nat /\ Slots[i][m] <= emitted
  <2>1. ASSUME NEW i \in 1 .. d, NEW m \in DOMAIN Slots'[i]
        PROVE  OldPlace(i, m) /\ Slots[i][m] \in Nat /\ Slots[i][m] <= emitted
    <3>1. i \in DOMAIN Slots /\ Slots'[i] = Slots[i]
      BY <1>4
    <3>2. Slots[i] \in Seq(1 .. emitted)
      BY <3>1, SlotsOf, InSequence
    <3>3. Slots[i][m] \in 1 .. emitted
      BY <3>1, <3>2, InSequence
    <3>. QED
      BY <1>2, <3>1, <3>3 DEF OldPlace
  <2>. QED
    BY <2>1
<1>6. \A m \in DOMAIN Slots'[d + 1] : m \in Int /\ Slots'[d + 1][m] = emitted + m /\ m >= 1
  BY <1>4
<1>7. DOMAIN Slots'[d + 2] = {}
  BY <1>4
<1>. HIDE DEF batch
<1>8. ASSUME NEW i \in DOMAIN Slots', NEW m \in DOMAIN Slots'[i]
      PROVE  OldPlace(i, m) \/ Slots'[i][m] > emitted
  BY <1>2, <1>4, <1>5, <1>6, <1>7
<1>9. ASSUME NEW i \in DOMAIN Slots', NEW j \in DOMAIN Slots',
             NEW m \in DOMAIN Slots'[i], NEW n2 \in DOMAIN Slots'[j],
             i < j \/ (i = j /\ m < n2)
      PROVE  (OldPlace(i, m) /\ OldPlace(j, n2)) \/ Slots'[i][m] < Slots'[j][n2]
  <2>1. i \in 1 .. d + 1 /\ j \in 1 .. d + 1
    BY <1>4, <1>7
  <2>2. CASE j \in 1 .. d
    BY <1>5, <1>9, <2>1, <2>2
  <2>3. CASE j = d + 1 /\ i \in 1 .. d
    <3>1. Slots'[i][m] = Slots[i][m]
      BY <1>5, <2>3 DEF OldPlace
    <3>. QED
      BY <1>2, <1>5, <1>6, <2>3, <3>1
  <2>4. CASE j = d + 1 /\ i = d + 1
    BY <1>2, <1>6, <1>9, <2>4
  <2>. QED
    BY <2>1, <2>2, <2>3, <2>4
<1>10. append # None => Head(queue') = Head(queue)
  BY <1>3, DrainedOf DEF JournalTypeOK
<1>. QED
  BY <1>8, <1>9, <1>10 DEF OnlyLater

\* Draining the buffer keeps the types,
LEMMA DrainType ==
  ASSUME JournalTypeOK, Drain
  PROVE  JournalTypeOK'
<1>1. /\ queue' = Drained(queue) /\ buffer' = <<>>
      /\ UNCHANGED <<emitted, cache, append, file, open, feed, settled, cut>>
  BY DEF Drain, disk
<1>2. buffer' \in Seq(1 .. emitted) /\ Len(buffer') < MaxBuffered
  BY <1>1, EventLogAssumption
<1>. QED
  BY <1>1, <1>2, DrainedOf DEF JournalTypeOK, Batch

\* and leaves every event where it was in the order.
LEMMA DrainLater ==
  ASSUME JournalTypeOK, JournalTypeOK', Drain
  PROVE  OnlyLater
<1>1. queue' = Drained(queue) /\ buffer' = <<>>
  BY DEF Drain
<1>d. PICK d \in Nat : d = Len(Drained(queue))
  BY DrainedOf
<1>2. /\ DOMAIN Slots' = 1 .. d + 1
      /\ \A i \in 1 .. d : i \in DOMAIN Slots /\ Slots'[i] = Slots[i]
      /\ Slots'[d + 1] = <<>>
  BY <1>1, <1>d, DrainedOf, SlotsOf, SlotsAfter
<1>3. DOMAIN Slots'[d + 1] = {}
  BY <1>2
<1>4. \A i \in DOMAIN Slots' : \A m \in DOMAIN Slots'[i] : OldPlace(i, m)
  BY <1>2, <1>3 DEF OldPlace
<1>5. append # None => Head(queue') = Head(queue)
  BY <1>1, DrainedOf DEF JournalTypeOK
<1>. QED
  BY <1>4, <1>5 DEF OnlyLater

\* Buffering an event, and draining a full buffer, keep the types,
LEMMA AppendBufferedType ==
  ASSUME JournalTypeOK, AppendBuffered
  PROVE  JournalTypeOK'
<1>. DEFINE parked == Append(buffer, emitted + 1)
<1>1. /\ emitted < MaxEvents /\ emitted' = emitted + 1
      /\ buffer' = IF Full(parked) THEN <<>> ELSE parked
      /\ queue' = IF Full(parked) THEN Append(queue, parked) ELSE queue
      /\ UNCHANGED <<cache, append, file, open, feed, settled, cut>>
  BY DEF AppendBuffered, disk
<1>t. emitted \in Nat /\ buffer \in Seq(1 .. emitted)
  BY LinesOf DEF JournalTypeOK
<1>2. emitted' \in 0 .. MaxEvents /\ emitted' \in Nat /\ emitted <= emitted'
  BY <1>1, <1>t, EventLogAssumption
<1>3. buffer \in Seq(1 .. emitted') /\ emitted + 1 \in 1 .. emitted'
  <2>1. buffer \in Seq(1 .. emitted')
    BY <1>t, <1>2, WiderEvents
  <2>. QED
    BY <1>1, <1>t, <2>1
<1>4. parked \in Seq(1 .. emitted') \ {<<>>} /\ Len(parked) \in Nat
  BY <1>3, AppendOf
<1>5. queue \in Seq(Seq(1 .. emitted') \ {<<>>})
  BY <1>t, <1>2, WiderEvents DEF JournalTypeOK
<1>. HIDE DEF parked
<1>6. /\ queue' \in Seq(Seq(1 .. emitted') \ {<<>>})
      /\ queue # <<>> => queue' # <<>> /\ Head(queue') = Head(queue)
  <2>1. PICK S : S = Seq(1 .. emitted') \ {<<>>}
    OBVIOUS
  <2>2. queue \in Seq(S) /\ parked \in S
    BY <1>4, <1>5, <2>1
  <2>3. CASE Full(parked)
    <3>1. queue' = Append(queue, parked)
      BY <1>1, <2>3
    <3>. QED
      BY <2>1, <2>2, <3>1, AppendOf, AppendProperties
  <2>4. CASE ~Full(parked)
    <3>1. queue' = queue
      BY <1>1, <2>4
    <3>. QED
      BY <1>5, <3>1
  <2>. QED
    BY <2>3, <2>4
<1>w. append # None => queue # <<>>
  BY DEF JournalTypeOK
<1>u. append' = append
  BY <1>1
<1>7. append' # None => queue' # <<>> /\ Head(queue') = Head(queue)
  <2>. SUFFICES ASSUME append # None PROVE queue' # <<>> /\ Head(queue') = Head(queue)
    BY <1>u
  <2>1. queue # <<>>
    BY <1>w
  <2>. QED
    BY <1>6, <2>1
<1>8. buffer' \in Seq(1 .. emitted') /\ Len(buffer') < MaxBuffered
  <2>1. CASE Full(parked)
    BY <1>1, <2>1, EventLogAssumption
  <2>2. CASE ~Full(parked)
    <3>1. buffer' = parked /\ ~(Len(parked) >= MaxBuffered)
      BY <1>1, <2>2 DEF Full
    <3>. QED
      BY <1>4, <3>1, EventLogAssumption
  <2>. QED
    BY <2>1, <2>2
<1>9. /\ file \in Seq([ev : 0 .. emitted', seq : Nat])
      /\ feed \in Seq([ev : 1 .. emitted', seq : Nat])
  BY <1>2, WiderLines
<1>10. cut' \subseteq 1 .. emitted'
  BY <1>1, <1>2 DEF JournalTypeOK
<1>. QED
  BY <1>1, <1>2, <1>6, <1>7, <1>8, <1>9, <1>10 DEF JournalTypeOK, Batch

\* and only add at the end.
LEMMA AppendBufferedLater ==
  ASSUME JournalTypeOK, JournalTypeOK', AppendBuffered
  PROVE  OnlyLater
<1>. DEFINE parked == Append(buffer, emitted + 1)
<1>1. /\ buffer' = IF Full(parked) THEN <<>> ELSE parked
      /\ queue' = IF Full(parked) THEN Append(queue, parked) ELSE queue
  BY DEF AppendBuffered
<1>2. emitted \in Nat /\ buffer \in Seq(1 .. emitted) /\ Len(buffer) \in Nat
      /\ queue \in Seq(Seq(1 .. emitted) \ {<<>>})
  BY SlotsOf DEF JournalTypeOK
<1>3. /\ DOMAIN parked = 1 .. Len(buffer) + 1 /\ parked[Len(buffer) + 1] = emitted + 1
      /\ \A m \in 1 .. Len(buffer) :
           parked[m] = buffer[m] /\ buffer[m] \in Nat /\ buffer[m] <= emitted
  BY <1>2, AppendOf
<1>l. PICK l \in Nat : l = Len(queue) + 1
  BY SlotsOf
<1>. HIDE DEF parked
<1>4. /\ DOMAIN Slots' \subseteq 1 .. l + 1 /\ 1 .. l \subseteq DOMAIN Slots'
      /\ Slots'[l] = parked /\ (l + 1 \in DOMAIN Slots' => Slots'[l + 1] = <<>>)
      /\ \A i \in 1 .. l - 1 : Slots'[i] = queue[i]
  <2>1. CASE Full(parked)
    <3>1. /\ Len(queue') = l /\ queue'[l] = parked
          /\ \A i \in 1 .. l - 1 : queue'[i] = queue[i]
      BY <1>1, <1>2, <1>l, <2>1, AppendOf
    <3>2. DOMAIN Slots' = 1 .. l + 1 /\ Slots'[l + 1] = buffer' /\ buffer' = <<>>
      BY <1>1, <2>1, <3>1, SlotsAfter
    <3>n. Len(queue') = l
      BY <3>1
    <3>3. \A i \in 1 .. l : Slots'[i] = queue'[i]
      BY <3>n, SlotsAfter
    <3>4. Slots'[l] = parked
      <4>1. l \in 1 .. l
        BY <1>l, SlotsOf
      <4>. QED
        BY <3>1, <3>3, <4>1
    <3>5. \A i \in 1 .. l - 1 : Slots'[i] = queue[i]
      BY <3>1, <3>3
    <3>. QED
      BY <3>2, <3>4, <3>5
  <2>2. CASE ~Full(parked)
    BY <1>1, <1>l, <2>2, SlotsAfter
  <2>. QED
    BY <2>1, <2>2
<1>5. DOMAIN Slots = 1 .. l /\ Slots[l] = buffer /\ \A i \in 1 .. l - 1 : Slots[i] = queue[i]
  BY <1>l, SlotsOf
<1>6. ASSUME NEW i \in DOMAIN Slots', NEW m \in DOMAIN Slots'[i]
      PROVE  /\ i \in 1 .. l /\ m \in Nat /\ Slots'[i][m] \in Nat
             /\ \/ OldPlace(i, m) /\ Slots'[i][m] <= emitted
                   /\ (i = l => m <= Len(buffer))
                \/ i = l /\ m = Len(buffer) + 1 /\ Slots'[i][m] = emitted + 1
  <2>1. i \in 1 .. l
    <3>1. DOMAIN <<>> = {}
      OBVIOUS
    <3>. QED
      BY <1>4, <3>1
  <2>2. CASE i = l
    <3>1. /\ Slots'[i] = parked /\ m \in 1 .. Len(buffer) + 1
          /\ l \in DOMAIN Slots /\ Slots[l] = buffer
      BY <1>3, <1>4, <1>5, <2>1, <2>2
    <3>2. CASE m \in 1 .. Len(buffer)
      <4>1. m \in DOMAIN buffer /\ parked[m] = buffer[m] /\ buffer[m] \in Nat /\ buffer[m] <= emitted
        BY <1>2, <1>3, <3>2
      <4>. QED
        BY <1>2, <2>1, <2>2, <3>1, <3>2, <4>1 DEF OldPlace
    <3>3. CASE m = Len(buffer) + 1
      BY <1>2, <1>3, <2>1, <2>2, <3>1, <3>3
    <3>. QED
      BY <1>2, <3>1, <3>2, <3>3
  <2>3. CASE i # l
    <3>1. i \in 1 .. l - 1 /\ Slots'[i] = Slots[i] /\ i \in DOMAIN Slots
      BY <1>4, <1>5, <2>1, <2>3
    <3>2. Slots[i] \in Seq(1 .. emitted)
      BY <3>1, SlotsOf, InSequence
    <3>d. m \in DOMAIN Slots[i]
      BY <3>1
    <3>3. Slots[i][m] \in 1 .. emitted /\ m \in Nat
      BY <3>2, <3>d, ElementOf
    <3>. QED
      BY <1>2, <2>1, <2>3, <3>1, <3>3 DEF OldPlace
  <2>. QED
    BY <2>2, <2>3
<1>7. ASSUME NEW i \in DOMAIN Slots', NEW j \in DOMAIN Slots',
             NEW m \in DOMAIN Slots'[i], NEW n \in DOMAIN Slots'[j],
             i < j \/ (i = j /\ m < n)
      PROVE  (OldPlace(i, m) /\ OldPlace(j, n)) \/ Slots'[i][m] < Slots'[j][n]
  BY <1>2, <1>6, <1>7
<1>8. append # None => Head(queue') = Head(queue)
  BY <1>1, <1>2, AppendOf DEF JournalTypeOK
<1>. QED
  BY <1>2, <1>6, <1>7, <1>8 DEF OnlyLater

(* Emitting and claiming keep the invariant.                                *)
LEMMA EmissionKeepsJournal ==
  ASSUME JournalTypeOK, JournalInv, (\E n \in 1 .. 2 : AppendEvents(n)) \/ AppendBuffered \/ Drain
  PROVE  JournalTypeOK' /\ JournalInv'
<1>1. JournalTypeOK'
  BY AppendEventsType, AppendBufferedType, DrainType
<1>2. OnlyLater
  BY <1>1, AppendEventsLater, AppendBufferedLater, DrainLater
<1>3. UNCHANGED <<cache, append, disk, feed, cut>>
  BY DEF AppendEvents, AppendBuffered, Drain
<1>. QED
  BY <1>1, <1>2, <1>3, LaterKeepsJournal

-----------------------------------------------------------------------------
(* The append queue.                                                        *)

(* The state read from the file: its high water is its length.              *)
LEMMA HighWaterIsLength ==
  ASSUME JournalTypeOK, NumbersFit
  PROVE  HighWater = Len(file)
<1>. DEFINE N == {Len(file)} \cup {file[i].seq : i \in DOMAIN file}
<1>1. Len(file) \in N /\ \A x \in N : x \in Nat /\ x <= Len(file)
  BY LinesOf DEF NumbersFit
<1>2. \A x \in N : (\A y \in N : x >= y) => x = Len(file)
  BY <1>1
<1>3. \E x \in N : \A y \in N : x >= y
  BY <1>1
<1>. HIDE DEF N
<1>4. Max(N) = Len(file)
  BY <1>2, <1>3 DEF Max
<1>. QED
  BY <1>4 DEF HighWater, N

(* The first slot.                                                          *)
LEMMA BatchOf ==
  ASSUME JournalTypeOK, queue # <<>>
  PROVE  /\ Len(queue) \in Nat /\ Len(queue) >= 1
         /\ Batch \in Seq(1 .. emitted) /\ Batch # <<>>
         /\ Len(Batch) \in Nat /\ Len(Batch) >= 1 /\ DOMAIN Batch = 1 .. Len(Batch)
         /\ \A m \in DOMAIN Batch : Batch[m] \in 1 .. emitted
         /\ 1 \in DOMAIN Slots /\ Slots[1] = Batch
<1>1. queue \in Seq(Seq(1 .. emitted) \ {<<>>})
  BY DEF JournalTypeOK
<1>2. Len(queue) \in Nat /\ Len(queue) >= 1 /\ Batch = queue[1] /\ 1 \in DOMAIN queue
  BY <1>1 DEF Batch
<1>3. Batch \in Seq(1 .. emitted) \ {<<>>}
  BY <1>1, <1>2, ElementOf
<1>4. Len(Batch) \in Nat /\ Len(Batch) >= 1 /\ DOMAIN Batch = 1 .. Len(Batch)
  BY <1>3
<1>5. \A m \in DOMAIN Batch : Batch[m] \in 1 .. emitted
  BY <1>3, ElementOf
<1>6. 1 \in DOMAIN Slots /\ Slots[1] = Batch
  BY <1>2, SlotsOf
<1>. QED
  BY <1>2, <1>3, <1>4, <1>5, <1>6

\* Beginning the append of a slot, with the number it reads off the file or
\* the cache, keeps the types
LEMMA StartAppendType ==
  ASSUME JournalTypeOK, JournalInv, StartAppend
  PROVE  JournalTypeOK'
<1>1. /\ append' = [high |-> JournalState.high, newline |-> JournalState.newline, landed |-> 0]
      /\ queue # <<>>
      /\ UNCHANGED <<emitted, buffer, queue, cache, file, open, feed, settled, cut>>
  BY DEF StartAppend, disk
<1>2. JournalState.high \in Nat /\ JournalState.newline \in BOOLEAN
  <2>1. CASE cache # None
    BY <2>1 DEF JournalState, JournalTypeOK
  <2>2. CASE cache = None
    BY <2>2, HighWaterIsLength, LinesOf DEF JournalState, JournalTypeOK, JournalInv
  <2>. QED
    BY <2>1, <2>2
<1>3. append' \in [high : Nat, newline : BOOLEAN, landed : Nat] /\ append'.landed = 0
  BY <1>1, <1>2
<1>4. Len(Batch) \in Nat /\ Batch' = Batch
  BY <1>1, BatchOf DEF Batch
<1>5. append'.landed <= Len(Batch')
  BY <1>3, <1>4
<1>. QED
  BY <1>1, <1>3, <1>5 DEF JournalTypeOK

\* and the order: the slot holds the oldest events that are not in the file.
LEMMA StartAppendKeeps ==
  ASSUME JournalTypeOK, JournalTypeOK', JournalInv, StartAppend
  PROVE  JournalInv'
<1>1. /\ append = None
      /\ append'.landed = 0
      /\ append'.high = JournalState.high /\ append'.newline = JournalState.newline
      /\ UNCHANGED <<emitted, buffer, queue, cache, file, open, feed, cut>>
  BY DEF StartAppend, disk
<1>2. Slots' = Slots /\ Batch' = Batch
  BY <1>1 DEF Slots, Batch
<1>3. WaitingInOrder'
  BY <1>1, <1>2 DEF JournalInv, WaitingInOrder, Landed
<1>4. NumbersFit'
  <2>1. CASE append' = None
    BY <1>1, <2>1 DEF JournalInv, NumbersFit
  <2>2. CASE append' # None /\ cache # None
    <3>1. append'.high = cache.high /\ append'.newline = cache.newline /\ append'.landed = 0
      BY <1>1, <2>2 DEF JournalState
    <3>2. cache.high \in Nat /\ cache.newline = FALSE /\ Len(file) \in Nat /\ open \in BOOLEAN
      BY <2>2, LinesOf DEF JournalTypeOK
    <3>3. append'.high + (IF Glued' THEN 1 ELSE append'.landed) <= Len(file)
      BY <1>1, <2>2, <3>1, <3>2 DEF JournalInv, NumbersFit, Glued
    <3>. QED
      BY <1>1, <2>2, <3>1, <3>3 DEF JournalInv, NumbersFit
  <2>3. CASE append' # None /\ cache = None
    <3>1. append'.high = Len(file) /\ append'.newline = open /\ append'.landed = 0
      BY <1>1, <2>3, HighWaterIsLength DEF JournalState, JournalInv
    <3>2. ~Glued'
      BY <1>1, <3>1 DEF Glued
    <3>. QED
      BY <1>1, <2>3, <3>1, <3>2, LinesOf DEF JournalInv, NumbersFit
  <2>. QED
    BY <2>1, <2>2, <2>3
<1>5. LandedIsThere'
  <2>1. append'.landed = 0 /\ 1 .. append'.landed = {}
    BY <1>1
  <2>. QED
    BY <1>1, <2>1 DEF JournalInv, LandedIsThere
<1>6. Promise!Ordered(feed)' /\ JournalHoldsTheFeed'
  BY <1>1 DEF JournalInv, Promise!Ordered, JournalHoldsTheFeed
<1>. QED
  BY <1>3, <1>4, <1>5, <1>6 DEF JournalInv

(* The line that is being written comes after all that was told or written, *)
(* and before all that waits behind it.                                     *)
LEMMA LandingOf ==
  ASSUME JournalTypeOK, JournalInv, append # None, append.landed < Len(Batch)
  PROVE  /\ Landing.ev \in 1 .. emitted /\ Landing.seq \in Nat
         /\ Landing.seq = append.high + append.landed + 1
         /\ append.high \in Nat /\ append.landed \in Nat
         /\ append.landed + 1 \in DOMAIN Batch /\ Landing.ev = Batch[append.landed + 1]
         /\ \A k \in DOMAIN feed : feed[k].ev < Landing.ev
         /\ \A k \in DOMAIN file : file[k].ev < Landing.ev
         /\ \A i \in DOMAIN Slots : \A m \in DOMAIN Slots[i] :
              i > 1 \/ m > append.landed + 1 => Landing.ev < Slots[i][m]
<1>1. queue # <<>> /\ append \in [high : Nat, newline : BOOLEAN, landed : Nat]
  BY DEF JournalTypeOK
<1>2. append.high \in Nat /\ append.landed \in Nat
  BY <1>1
<1>3. append.landed + 1 \in DOMAIN Batch
  BY <1>1, <1>2, BatchOf
<1>4. /\ Landing.ev = Batch[append.landed + 1]
      /\ Landing.seq = append.high + append.landed + 1
  BY DEF Landing, Line
<1>5. Landing.ev \in 1 .. emitted /\ Landing.seq \in Nat
  BY <1>1, <1>2, <1>3, <1>4, BatchOf
<1>6. 1 \in DOMAIN Slots /\ Slots[1] = Batch
  BY <1>1, BatchOf
<1>7. ~Landed(1, append.landed + 1)
  BY <1>2 DEF Landed
<1>8. /\ \A k \in DOMAIN feed : feed[k].ev < Landing.ev
      /\ \A k \in DOMAIN file : file[k].ev < Landing.ev
  BY <1>3, <1>4, <1>6, <1>7 DEF JournalInv, WaitingInOrder
<1>9. ASSUME NEW i \in DOMAIN Slots, NEW m \in DOMAIN Slots[i], i > 1 \/ m > append.landed + 1
      PROVE  Landing.ev < Slots[i][m]
  <2>1. i \in Nat /\ i >= 1
    BY SlotsOf
  <2>2. 1 < i \/ (1 = i /\ append.landed + 1 < m)
    BY <1>2, <1>9, <2>1, <1>3, <1>6, BatchOf, <1>1
  <2>. QED
    BY <1>3, <1>4, <1>6, <2>2 DEF JournalInv, WaitingInOrder
<1>. QED
  BY <1>2, <1>3, <1>4, <1>5, <1>8, <1>9

(* What writing the next line, or a part of it, does to the file: the line  *)
(* comes last, or the last one becomes unreadable.                          *)
Wrote(l) ==
  \/ /\ Glued /\ file' = [file EXCEPT ![Len(file)] = Unreadable]
  \/ /\ ~Glued /\ file' = Append(file, l)

\* A line glued to a torn one makes of it a line nobody can read, and leaves
\* the others.
LEMMA GluedFile ==
  ASSUME JournalTypeOK, JournalInv, Glued, file' = [file EXCEPT ![Len(file)] = Unreadable]
  PROVE  /\ file' \in Seq([ev : 0 .. emitted, seq : Nat]) /\ file' # <<>>
         /\ Len(file') = Len(file) /\ DOMAIN file' = DOMAIN file /\ Len(file) \in DOMAIN file
         /\ file'[Len(file)] = Unreadable
         /\ \A k \in DOMAIN file : k # Len(file) => file'[k] = file[k]
<1>1. open /\ file # <<>>
  BY DEF JournalInv, LandedIsThere, Glued
<1>2. PICK L : L = [ev : 0 .. emitted, seq : Nat]
  OBVIOUS
<1>3. file \in Seq(L) /\ Unreadable \in L
  BY <1>2, LinesOf DEF Unreadable, Line
<1>4. Len(file) \in 1 .. Len(file)
  BY <1>1, <1>3
<1>5. file' \in Seq(L) /\ Len(file') = Len(file)
  BY <1>3, <1>4
<1>6. file' # <<>>
  BY <1>4, <1>5
<1>7. DOMAIN file' = DOMAIN file /\ Len(file) \in DOMAIN file
  BY <1>3, <1>4, <1>5
<1>. QED
  BY <1>2, <1>5, <1>6, <1>7

\* A line at the end leaves the others.
LEMMA AppendedFile ==
  ASSUME JournalTypeOK, NEW l \in [ev : 0 .. emitted, seq : Nat], file' = Append(file, l)
  PROVE  /\ file' \in Seq([ev : 0 .. emitted, seq : Nat]) /\ file' # <<>>
         /\ Len(file') = Len(file) + 1 /\ DOMAIN file' = 1 .. Len(file) + 1
         /\ file'[Len(file) + 1] = l /\ \A k \in DOMAIN file : file'[k] = file[k]
<1>1. PICK L : L = [ev : 0 .. emitted, seq : Nat]
  OBVIOUS
<1>2. file \in Seq(L) /\ l \in L /\ DOMAIN file = 1 .. Len(file)
  BY <1>1, LinesOf
<1>3. file' \in Seq(L)
  BY <1>2, AppendProperties
<1>. QED
  BY <1>1, <1>2, <1>3, AppendOf

\* In both cases the file stays ahead of the feed, and its numbers are
\* bounded by places and events.
LEMMA WrittenFile ==
  ASSUME JournalTypeOK, JournalInv, append # None, append.landed < Len(Batch),
         NEW l \in {Unreadable, Landing}, Wrote(l)
  PROVE  /\ file' \in Seq([ev : 0 .. emitted, seq : Nat]) /\ file' # <<>>
         /\ Len(file') = Len(file) + (IF Glued THEN 0 ELSE 1)
         /\ \A k \in DOMAIN file' : file'[k].seq <= k
         /\ \A k \in DOMAIN file' : file'[k].ev <= Landing.ev
         /\ \A k \in DOMAIN feed : feed[k] # file'[Len(file')]
         /\ \A k \in DOMAIN feed : feed[k] \in Range(file') \/ feed[k].ev \in cut
         /\ \A i, j \in DOMAIN file' :
              i < j /\ Unreadable \notin {file'[i], file'[j]} => file'[i].ev < file'[j].ev
         /\ ~Glued => Range(file) \cup {l} \subseteq Range(file')
<1>1. Unreadable.ev = 0 /\ Unreadable.seq = 0 /\ Unreadable \in [ev : 0 .. emitted, seq : Nat]
  BY LinesOf DEF Unreadable, Line
<1>2. Landing.ev \in Nat /\ Landing.ev > 0 /\ emitted \in Nat
  BY LandingOf, LinesOf
<1>3. /\ \A k \in DOMAIN file : k \in Nat /\ k <= Len(file) /\ file[k].ev \in Nat
                               /\ file[k].seq <= k /\ file[k].ev < Landing.ev
      /\ \A i, j \in DOMAIN file :
           i < j /\ Unreadable \notin {file[i], file[j]} => file[i].ev < file[j].ev
  <2>1. \A k \in DOMAIN file : k \in Nat /\ k <= Len(file) /\ file[k].ev \in Nat
    BY LinesOf
  <2>2. \A k \in DOMAIN file : file[k].seq <= k
    BY DEF JournalInv, NumbersFit
  <2>3. \A k \in DOMAIN file : file[k].ev < Landing.ev
    BY LandingOf
  <2>. QED
    BY <2>1, <2>2, <2>3 DEF JournalInv, JournalHoldsTheFeed
<1>4. CASE Glued
  <2>1. file' = [file EXCEPT ![Len(file)] = Unreadable]
    BY <1>4 DEF Wrote
  <2>2. /\ Len(file') = Len(file) /\ DOMAIN file' = DOMAIN file /\ Len(file) \in DOMAIN file
        /\ file'[Len(file)] = Unreadable
        /\ \A k \in DOMAIN file : k # Len(file) => file'[k] = file[k]
    BY <1>4, <2>1, GluedFile
  <2>3. /\ \A k \in DOMAIN file' : file'[k].seq <= k
        /\ \A k \in DOMAIN file' : file'[k].ev <= Landing.ev
    BY <1>1, <1>2, <1>3, <2>2
  <2>4. \A k \in DOMAIN feed : feed[k] # file'[Len(file')]
    BY <1>1, <2>2, LinesOf
  <2>5. ASSUME NEW k \in DOMAIN feed
        PROVE  feed[k] \in Range(file') \/ feed[k].ev \in cut
    <3>1. CASE feed[k] \in Range(file)
      <4>1. PICK p \in DOMAIN file : file[p] = feed[k]
        BY <3>1 DEF Range
      <4>2. p # Len(file)
        BY <1>4, <4>1 DEF JournalInv, LandedIsThere, Glued
      <4>3. p \in DOMAIN file' /\ file'[p] = feed[k]
        BY <2>2, <4>1, <4>2
      <4>. QED
        BY <4>3 DEF Range
    <3>. QED
      BY <3>1 DEF JournalInv, JournalHoldsTheFeed
  <2>6. \A i, j \in DOMAIN file' :
          i < j /\ Unreadable \notin {file'[i], file'[j]} => file'[i].ev < file'[j].ev
    BY <1>3, <2>2
  <2>7. Len(file') = Len(file) + (IF Glued THEN 0 ELSE 1)
    BY <1>4, <2>2, LinesOf
  <2>8. file' \in Seq([ev : 0 .. emitted, seq : Nat]) /\ file' # <<>>
    BY <1>4, <2>1, GluedFile
  <2>. QED
    BY <1>4, <2>3, <2>4, <2>5, <2>6, <2>7, <2>8
<1>5. CASE ~Glued
  <2>1. file' = Append(file, l)
    BY <1>5 DEF Wrote
  <2>2. Landing \in [ev : 0 .. emitted, seq : Nat]
    BY LandingOf, <1>2 DEF Landing, Line
  <2>3. l \in [ev : 0 .. emitted, seq : Nat]
    BY <1>1, <2>2
  <2>4. /\ file' \in Seq([ev : 0 .. emitted, seq : Nat]) /\ file' # <<>>
        /\ Len(file') = Len(file) + 1 /\ DOMAIN file' = 1 .. Len(file) + 1
        /\ file'[Len(file) + 1] = l /\ \A k \in DOMAIN file : file'[k] = file[k]
    BY <2>1, <2>3, AppendedFile
  <2>5. Landing.seq <= Len(file) + 1
    <3>1. append.high + append.landed <= Len(file)
      BY <1>5 DEF JournalInv, NumbersFit
    <3>2. /\ Landing.seq = append.high + append.landed + 1
          /\ append.high \in Nat /\ append.landed \in Nat
      BY LandingOf
    <3>. QED
      BY <3>1, <3>2, LinesOf
  <2>6. \A k \in DOMAIN file' : (k \in DOMAIN file /\ file'[k] = file[k]) \/ (k = Len(file) + 1 /\ file'[k] = l)
    <3>1. \A k \in 1 .. Len(file) + 1 : k \in DOMAIN file \/ k = Len(file) + 1
      BY LinesOf
    <3>. QED
      BY <2>4, <3>1
  <2>7. l.ev \in {0, Landing.ev} /\ l.seq <= Len(file) + 1 /\ Len(file) \in Nat
    BY <1>1, <2>5, LinesOf
  <2>8. /\ \A k \in DOMAIN file' : file'[k].seq <= k
        /\ \A k \in DOMAIN file' : file'[k].ev <= Landing.ev
    BY <1>2, <1>3, <2>6, <2>7
  <2>9. \A k \in DOMAIN feed : feed[k] # file'[Len(file')]
    <3>1. \A k \in DOMAIN feed : feed[k].ev < Landing.ev
      BY LandingOf
    <3>2. \A k \in DOMAIN feed : feed[k].ev > 0 /\ feed[k].ev \in Nat
      <4>1. \A k \in DOMAIN feed : feed[k].ev \in 1 .. emitted
        BY LinesOf
      <4>. QED
        BY <1>2, <4>1
    <3>3. \A k \in DOMAIN feed : feed[k].ev # l.ev
      <4>1. \A k \in DOMAIN feed : feed[k].ev # 0 /\ feed[k].ev # Landing.ev
        BY <1>2, <3>1, <3>2
      <4>. QED
        BY <2>7, <4>1
    <3>. QED
      BY <2>4, <3>3
  <2>10. Range(file) \cup {l} \subseteq Range(file')
    <3>1. DOMAIN file \subseteq DOMAIN file' /\ Len(file) + 1 \in DOMAIN file'
      BY <2>4, LinesOf
    <3>. QED
      BY <2>4, <3>1 DEF Range
  <2>11. \A i, j \in DOMAIN file' :
           i < j /\ Unreadable \notin {file'[i], file'[j]} => file'[i].ev < file'[j].ev
    <3>. SUFFICES ASSUME NEW i \in DOMAIN file', NEW j \in DOMAIN file',
                         i < j, Unreadable \notin {file'[i], file'[j]}
                  PROVE  file'[i].ev < file'[j].ev
      OBVIOUS
    <3>d. i \in 1 .. Len(file) + 1 /\ j \in 1 .. Len(file) + 1 /\ Len(file) \in Nat
      BY <2>4, LinesOf
    <3>1. i \in DOMAIN file /\ file'[i] = file[i]
      BY <2>6, <3>d
    <3>2. CASE j \in DOMAIN file
      BY <1>3, <2>4, <3>1, <3>2
    <3>3. CASE j \notin DOMAIN file
      <4>1. file'[j] = Landing
        BY <2>6, <3>3
      <4>. QED
        BY <1>3, <3>1, <4>1
    <3>. QED
      BY <3>2, <3>3
  <2>. QED
    BY <1>5, <2>4, <2>8, <2>9, <2>10, <2>11 DEF JournalInv, JournalHoldsTheFeed
<1>. QED
  BY <1>4, <1>5

\* A line of a batch that lands keeps the types
LEMMA LandType ==
  ASSUME JournalTypeOK, JournalInv, Land
  PROVE  JournalTypeOK'
<1>1. /\ append # None /\ append.landed < Len(Batch) /\ Wrote(Landing)
      /\ open' = FALSE /\ append' = [append EXCEPT !.landed = @ + 1]
      /\ cut' \subseteq cut \cup {Landing.ev}
      /\ UNCHANGED <<emitted, buffer, queue, cache, feed, settled>>
  BY DEF Land, Wrote, FileWith
<1>2. file' \in Seq([ev : 0 .. emitted, seq : Nat])
  BY <1>1, WrittenFile
<1>3. cut' \subseteq 1 .. emitted
  BY <1>1, LandingOf DEF JournalTypeOK
<1>4. /\ append' \in [high : Nat, newline : BOOLEAN, landed : Nat]
      /\ append'.landed = append.landed + 1 /\ queue # <<>>
  <2>1. append \in [high : Nat, newline : BOOLEAN, landed : Nat] /\ queue # <<>>
    BY <1>1 DEF JournalTypeOK
  <2>. QED
    BY <1>1, <2>1
<1>5. append'.landed <= Len(Batch')
  <2>1. append.landed \in Nat /\ Len(Batch) \in Nat /\ Batch' = Batch
    BY <1>1, <1>4, BatchOf, LandingOf DEF Batch
  <2>. QED
    BY <1>1, <1>4, <2>1
<1>. QED
  BY <1>1, <1>2, <1>3, <1>4, <1>5 DEF JournalTypeOK

\* and the order: it is newer than the file and older than all that waits.
LEMMA LandKeeps ==
  ASSUME JournalTypeOK, JournalTypeOK', JournalInv, Land
  PROVE  JournalInv'
<1>1. /\ append # None /\ append.landed < Len(Batch) /\ Wrote(Landing)
      /\ open' = FALSE /\ append' = [append EXCEPT !.landed = @ + 1]
      /\ cut' = IF Glued THEN cut \cup {Landing.ev} ELSE cut
      /\ UNCHANGED <<emitted, buffer, queue, cache, feed>>
  BY DEF Land, Wrote, FileWith
<1>2. /\ append.high \in Nat /\ append.landed \in Nat
      /\ append'.high = append.high /\ append'.landed = append.landed + 1 /\ ~Glued' /\ ~open'
      /\ append' # None
  <2>1. append \in [high : Nat, newline : BOOLEAN, landed : Nat]
    BY <1>1 DEF JournalTypeOK
  <2>2. append'.high = append.high /\ append'.landed = append.landed + 1
    BY <1>1, <2>1
  <2>3. ~open'
    BY <1>1
  <2>4. append' # None
    BY <1>1, <2>1, EventLogAssumption
  <2>. QED
    BY <2>1, <2>2, <2>3, <2>4 DEF Glued
<1>3. Slots' = Slots /\ Batch' = Batch /\ 1 \in DOMAIN Slots /\ Slots[1] = Batch
  BY <1>1, BatchOf DEF Slots, Batch, JournalTypeOK
<1>4. Len(file') = Len(file) + (IF Glued THEN 0 ELSE 1) /\ Len(file) \in Nat
  BY <1>1, WrittenFile, LinesOf
<1>5. \A i \in DOMAIN Slots : \A m \in DOMAIN Slots[i] :
        ~Landed(i, m)' => \A k \in DOMAIN file' : file'[k].ev < Slots[i][m]
  <2>. SUFFICES ASSUME NEW i \in DOMAIN Slots, NEW m \in DOMAIN Slots[i], ~Landed(i, m)',
                       NEW k \in DOMAIN file'
                PROVE  file'[k].ev < Slots[i][m]
    OBVIOUS
  <2>1. i \in Nat /\ i >= 1
    BY SlotsOf
  <2>2. ASSUME i = 1 PROVE m > append.landed + 1
    <3>1. m \in DOMAIN Batch
      BY <1>3, <2>2
    <3>2. queue # <<>>
      BY <1>1 DEF JournalTypeOK
    <3>3. m \in Nat
      BY <3>1, <3>2, BatchOf
    <3>4. ~(m <= append'.landed)
      BY <1>2, <2>2 DEF Landed
    <3>. QED
      BY <1>2, <3>3, <3>4
  <2>3. i > 1 \/ m > append.landed + 1
    BY <2>1, <2>2
  <2>4. Landing.ev < Slots[i][m] /\ file'[k].ev <= Landing.ev
    BY <1>1, <2>3, LandingOf, WrittenFile
  <2>5. file'[k] \in [ev : 0 .. emitted, seq : Nat] /\ emitted \in Nat
    BY <1>1, WrittenFile, ElementOf, LinesOf
  <2>6. Landing.ev \in Nat /\ Slots[i][m] \in Nat /\ file'[k].ev \in Nat
    BY <1>1, <2>5, LandingOf, EventsOfSlots
  <2>. QED
    BY <2>4, <2>6
<1>6. WaitingInOrder'
  <2>1. \A i \in DOMAIN Slots : \A m \in DOMAIN Slots[i] :
          \A k \in DOMAIN feed : feed[k].ev < Slots[i][m]
    BY DEF JournalInv, WaitingInOrder
  <2>2. \A i, j \in DOMAIN Slots : \A m \in DOMAIN Slots[i], n \in DOMAIN Slots[j] :
          (i < j \/ (i = j /\ m < n)) => Slots[i][m] < Slots[j][n]
    BY DEF JournalInv, WaitingInOrder
  <2>. QED
    BY <1>1, <1>3, <1>5, <2>1, <2>2 DEF WaitingInOrder
<1>7. NumbersFit'
  <2>1. \A k \in DOMAIN file' : file'[k].seq <= k
    BY <1>1, WrittenFile
  <2>2. \A k \in DOMAIN feed : /\ feed[k].seq \in Nat /\ feed[k].seq <= Len(file)
                               /\ cache # None => feed[k].seq <= cache.high
                               /\ feed[k].seq <= append.high
    BY <1>1, LinesOf DEF JournalInv, NumbersFit
  <2>3. cache # None => cache.high \in Nat /\ cache.high <= Len(file)
    BY <1>4 DEF JournalInv, NumbersFit, JournalTypeOK
  <2>4. append.high + append.landed + 1 <= Len(file')
    BY <1>1, <1>2, <1>4 DEF JournalInv, NumbersFit, Glued
  <2>5. Len(file) <= Len(file')
    BY <1>4
  <2>. QED
    BY <1>1, <1>2, <1>4, <2>1, <2>2, <2>3, <2>4, <2>5 DEF NumbersFit
<1>8. LandedIsThere'
  <2>1. ASSUME NEW m \in 1 .. append'.landed
        PROVE  Line(Batch[m], append.high + m) \in Range(file') \/ Batch[m] \in cut'
    <3>1. CASE Glued
      <4>1. m = 1 /\ append.landed = 0
        BY <1>2, <3>1 DEF Glued
      <4>. QED
        BY <1>1, <3>1, <4>1, LandingOf
    <3>2. CASE ~Glued
      <4>1. Range(file) \cup {Landing} \subseteq Range(file') /\ cut' = cut
        BY <1>1, <3>2, WrittenFile
      <4>2. CASE m \in 1 .. append.landed
        BY <1>1, <4>1, <4>2 DEF JournalInv, LandedIsThere
      <4>3. CASE m = append.landed + 1
        <5>1. Landing = Line(Batch[m], append.high + m)
          BY <1>2, <4>3 DEF Landing
        <5>. QED
          BY <4>1, <5>1
      <4>. QED
        BY <1>2, <4>2, <4>3
    <3>. QED
      BY <3>1, <3>2
  <2>. QED
    BY <1>2, <1>3, <2>1 DEF LandedIsThere
<1>9. JournalHoldsTheFeed'
  <2>1. cut \subseteq cut' /\ feed' = feed
    BY <1>1
  <2>2. \A k \in DOMAIN feed : feed[k] \in Range(file') \/ feed[k].ev \in cut
    BY <1>1, WrittenFile
  <2>3. \A i, j \in DOMAIN file' :
          i < j /\ Unreadable \notin {file'[i], file'[j]} => file'[i].ev < file'[j].ev
    BY <1>1, WrittenFile
  <2>. QED
    BY <2>1, <2>2, <2>3 DEF JournalHoldsTheFeed
<1>10. Promise!Ordered(feed)'
  BY <1>1 DEF JournalInv, Promise!Ordered
<1>. QED
  BY <1>6, <1>7, <1>8, <1>9, <1>10 DEF JournalInv

(* The first slot is done with: those behind it move up.                    *)
LEMMA TailSlots ==
  ASSUME JournalTypeOK, queue # <<>>, queue' = Tail(queue), buffer' = buffer, emitted' = emitted
  PROVE  /\ queue' \in Seq(Seq(1 .. emitted) \ {<<>>})
         /\ \A i \in DOMAIN Slots' : i \in Nat /\ i >= 1 /\ i + 1 \in DOMAIN Slots /\ Slots'[i] = Slots[i + 1]
<1>1. PICK S : S = Seq(1 .. emitted) \ {<<>>}
  OBVIOUS
<1>2. queue \in Seq(S) /\ buffer \in Seq(1 .. emitted)
  BY <1>1 DEF JournalTypeOK
<1>3. PICK l \in Nat : l = Len(queue) /\ l >= 1
  BY <1>2
<1>4. /\ queue' \in Seq(S) /\ Len(queue') = l - 1
      /\ \A i \in 1 .. l - 1 : queue'[i] = queue[i + 1]
  BY <1>2, <1>3
<1>5. /\ DOMAIN Slots' = 1 .. l /\ Slots'[l] = buffer
      /\ \A i \in 1 .. l - 1 : Slots'[i] = queue'[i]
  <2>1. Slots' = Append(queue', buffer)
    BY DEF Slots
  <2>2. l - 1 + 1 = l
    BY <1>3
  <2>. QED
    BY <1>4, <2>1, <2>2, <1>3, AppendOf
<1>6. /\ DOMAIN Slots = 1 .. l + 1 /\ Slots[l + 1] = buffer
      /\ \A i \in 1 .. l : Slots[i] = queue[i]
  BY <1>3, SlotsOf
<1>7. ASSUME NEW i \in DOMAIN Slots'
      PROVE  i \in Nat /\ i >= 1 /\ i + 1 \in DOMAIN Slots /\ Slots'[i] = Slots[i + 1]
  <2>1. i \in 1 .. l
    BY <1>5
  <2>2. i \in Nat /\ i >= 1 /\ i + 1 \in 1 .. l + 1
    BY <1>3, <2>1
  <2>3. CASE i = l
    BY <1>5, <1>6, <2>2, <2>3
  <2>4. CASE i # l
    <3>1. i \in 1 .. l - 1 /\ i + 1 \in 1 .. l
      BY <1>3, <2>1, <2>4
    <3>. QED
      BY <1>4, <1>5, <1>6, <2>2, <3>1
  <2>. QED
    BY <2>3, <2>4
<1>. QED
  BY <1>1, <1>4, <1>7

\* An append that succeeds tells its events to listeners: types are kept,
LEMMA SucceedType ==
  ASSUME JournalTypeOK, JournalInv, Succeed
  PROVE  JournalTypeOK'
<1>1. /\ append # None /\ append.landed = Len(Batch)
      /\ cache' = [high |-> append.high + Len(Batch), newline |-> FALSE]
      /\ feed' = feed \o Numbered /\ queue' = Tail(queue) /\ append' = None
      /\ UNCHANGED <<emitted, buffer, file, open, settled, cut>>
  BY DEF Succeed, disk
<1>2. queue # <<>> /\ append.high \in Nat
  BY <1>1 DEF JournalTypeOK
<1>3. Len(Batch) \in Nat
  BY <1>2, BatchOf
<1>4. cache' \in [high : Nat, newline : {FALSE}]
  BY <1>1, <1>2, <1>3
<1>5. Numbered \in Seq([ev : 1 .. emitted, seq : Nat])
  <2>1. \A i \in 1 .. Len(Batch) : Line(Batch[i], append.high + i) \in [ev : 1 .. emitted, seq : Nat]
    BY <1>2, BatchOf DEF Line
  <2>. QED
    BY <1>3, <2>1 DEF Numbered
<1>6. feed' \in Seq([ev : 1 .. emitted, seq : Nat])
  BY <1>1, <1>5, LinesOf
<1>7. queue' \in Seq(Seq(1 .. emitted) \ {<<>>})
  BY <1>1, <1>2, TailSlots
<1>. QED
  BY <1>1, <1>4, <1>6, <1>7 DEF JournalTypeOK

(* What was told stays, and the events of the slot follow.                  *)
LEMMA FeedAfter ==
  ASSUME JournalTypeOK, queue # <<>>, feed' = feed \o Numbered
  PROVE  /\ \A k \in DOMAIN feed' :
              \/ k \in DOMAIN feed /\ feed'[k] = feed[k]
              \/ \E m \in DOMAIN Batch : /\ k = Len(feed) + m
                                         /\ feed'[k] = Line(Batch[m], append.high + m)
         /\ IsStrictPrefix(feed, feed')
<1>0. Len(feed) \in Nat
  BY LinesOf
<1>1. PICK S : feed \in Seq(S)
  BY LinesOf
<1>2. Len(Batch) \in Nat /\ Len(Batch) >= 1 /\ DOMAIN Batch = 1 .. Len(Batch)
  BY BatchOf
<1>3. PICK n : n = Numbered
  OBVIOUS
<1>4. DOMAIN n = 1 .. Len(Batch) /\ \A m \in DOMAIN Batch : n[m] = Line(Batch[m], append.high + m)
  BY <1>2, <1>3 DEF Numbered
<1>5. n \in [1 .. Len(Batch) -> Range(n)]
  BY <1>3, <1>4 DEF Numbered, Range
<1>6. n \in Seq(Range(n)) /\ Len(n) = Len(Batch)
  <2>1. PICK T : T = Range(n)
    OBVIOUS
  <2>2. n \in [1 .. Len(Batch) -> T]
    BY <1>5, <2>1
  <2>3. n \in Seq(T) /\ Len(n) = Len(Batch)
    BY <1>2, <2>2
  <2>. QED
    BY <2>1, <2>3
<1>7. PICK l \in Nat : l = Len(feed)
  BY <1>0
<1>8. PICK b \in Nat : b = Len(Batch) /\ b >= 1
  BY <1>2, Zenon
<1>9. PICK U : U = S \cup Range(n)
  OBVIOUS
<1>u. feed \in Seq(U) /\ n \in Seq(U) /\ feed' = feed \o n
  BY <1>1, <1>3, <1>6, <1>9, WiderSequence
<1>10. /\ Len(feed') = l + b /\ feed' \in Seq(U)
       /\ \A k \in 1 .. l : feed'[k] = feed[k]
       /\ \A m \in 1 .. b : feed'[l + m] = n[m]
  <2>1. /\ feed \o n \in Seq(U) /\ Len(feed \o n) = Len(feed) + Len(n)
        /\ \A k \in 1 .. Len(feed) : (feed \o n)[k] = feed[k]
        /\ \A m \in 1 .. Len(n) : (feed \o n)[Len(feed) + m] = n[m]
    BY <1>u, ConcatOf
  <2>2. Len(feed) = l /\ Len(n) = b
    BY <1>6, <1>7, <1>8
  <2>. QED
    BY <1>u, <2>1, <2>2
<1>11. ASSUME NEW k \in DOMAIN feed'
       PROVE  \/ k \in DOMAIN feed /\ feed'[k] = feed[k]
              \/ \E m \in DOMAIN Batch : /\ k = Len(feed) + m
                                         /\ feed'[k] = Line(Batch[m], append.high + m)
  <2>1. k \in 1 .. l + b
    BY <1>10
  <2>2. CASE k \in 1 .. l
    BY <1>1, <1>7, <1>10, <2>2
  <2>3. CASE k \notin 1 .. l
    <3>1. k - l \in 1 .. b /\ k = l + (k - l)
      BY <1>7, <1>8, <2>1, <2>3
    <3>2. k - l \in DOMAIN Batch /\ feed'[k] = n[k - l]
      BY <1>2, <1>8, <1>10, <3>1
    <3>. QED
      BY <1>4, <1>7, <3>1, <3>2
  <2>. QED
    BY <2>2, <2>3
<1>12. IsStrictPrefix(feed, feed')
  <2>1. l <= l + b /\ l # l + b /\ feed # feed'
    BY <1>7, <1>8, <1>10
  <2>2. SubSeq(feed, 1, l) = SubSeq(feed', 1, l)
    BY <1>7, <1>8, <1>u, <1>10
  <2>. QED
    BY <1>7, <1>10, <2>1, <2>2 DEF IsStrictPrefix, IsPrefix
<1>. QED
  BY <1>11, <1>12

\* and the feed grows by the lines that landed, with greater numbers.
LEMMA SucceedKeeps ==
  ASSUME JournalTypeOK, JournalTypeOK', JournalInv, Succeed
  PROVE  JournalInv'
<1>1. /\ append # None /\ append.landed = Len(Batch)
      /\ cache' = [high |-> append.high + Len(Batch), newline |-> FALSE]
      /\ feed' = feed \o Numbered /\ queue' = Tail(queue) /\ append' = None
      /\ UNCHANGED <<emitted, buffer, file, open, cut>>
  BY DEF Succeed, disk
<1>2. /\ queue # <<>> /\ append.high \in Nat /\ Len(Batch) \in Nat /\ Len(Batch) >= 1
      /\ DOMAIN Batch = 1 .. Len(Batch) /\ Len(feed) \in Nat /\ Len(file) \in Nat
      /\ 1 \in DOMAIN Slots /\ Slots[1] = Batch
  BY <1>1, BatchOf, LinesOf DEF JournalTypeOK
<1>3. ~open /\ append.high + Len(Batch) <= Len(file)
  <2>1. ~open
    BY <1>1, <1>2 DEF JournalInv, LandedIsThere
  <2>. QED
    BY <1>1, <1>2, <2>1 DEF JournalInv, NumbersFit, Glued
<1>4. \A k \in DOMAIN feed' :
        \/ k \in DOMAIN feed /\ feed'[k] = feed[k]
        \/ \E m \in DOMAIN Batch : k = Len(feed) + m /\ feed'[k] = Line(Batch[m], append.high + m)
  BY <1>1, <1>2, FeedAfter
<1>5. \A i \in DOMAIN Slots' : i \in Nat /\ i >= 1 /\ i + 1 \in DOMAIN Slots /\ Slots'[i] = Slots[i + 1]
  BY <1>1, <1>2, TailSlots
<1>6. \A m \in DOMAIN Batch : /\ Line(Batch[m], append.high + m).ev = Batch[m]
                              /\ Line(Batch[m], append.high + m).seq = append.high + m
  BY DEF Line
<1>7. WaitingInOrder'
  <2>1. ASSUME NEW i \in DOMAIN Slots', NEW j \in DOMAIN Slots',
               NEW m \in DOMAIN Slots'[i], NEW n \in DOMAIN Slots'[j], i < j \/ (i = j /\ m < n)
        PROVE  Slots'[i][m] < Slots'[j][n]
    <3>1. i + 1 < j + 1 \/ (i + 1 = j + 1 /\ m < n)
      BY <1>5, <2>1
    <3>. QED
      BY <1>5, <3>1 DEF JournalInv, WaitingInOrder
  <2>2. ASSUME NEW i \in DOMAIN Slots', NEW m \in DOMAIN Slots'[i]
        PROVE  /\ \A k \in DOMAIN feed' : feed'[k].ev < Slots'[i][m]
               /\ \A k \in DOMAIN file : file[k].ev < Slots'[i][m]
    <3>1. /\ i + 1 \in DOMAIN Slots /\ Slots'[i] = Slots[i + 1] /\ 1 < i + 1
          /\ m \in DOMAIN Slots[i + 1]
      BY <1>5
    <3>2. ~Landed(i + 1, m)
      BY <3>1, <1>5 DEF Landed
    <3>3. \A k \in DOMAIN file : file[k].ev < Slots'[i][m]
      BY <3>1, <3>2 DEF JournalInv, WaitingInOrder
    <3>4. \A k \in DOMAIN feed : feed[k].ev < Slots'[i][m]
      BY <3>1 DEF JournalInv, WaitingInOrder
    <3>5. \A n \in DOMAIN Batch : Batch[n] < Slots'[i][m]
      BY <1>2, <3>1 DEF JournalInv, WaitingInOrder
    <3>6. \A k \in DOMAIN feed' : feed'[k].ev < Slots'[i][m]
      BY <1>4, <1>6, <3>4, <3>5
    <3>. QED
      BY <3>3, <3>6
  <2>. QED
    BY <1>1, <2>1, <2>2 DEF WaitingInOrder
<1>8. NumbersFit'
  <2>1. cache'.high = append.high + Len(Batch) /\ cache' = [high |-> append.high + Len(Batch), newline |-> FALSE]
    BY <1>1
  <2>2. \A k \in DOMAIN feed : feed[k].seq <= append.high /\ feed[k].seq \in Nat
    BY <1>1, LinesOf DEF JournalInv, NumbersFit
  <2>3. \A k \in DOMAIN feed' : feed'[k].seq <= append.high + Len(Batch) /\ feed'[k].seq \in Nat
    BY <1>2, <1>4, <1>6, <2>2
  <2>4. \A k \in DOMAIN feed' : feed'[k].seq <= Len(file)
    BY <1>2, <1>3, <2>3
  <2>. QED
    BY <1>1, <1>2, <1>3, <2>1, <2>3, <2>4 DEF JournalInv, NumbersFit
<1>9. LandedIsThere'
  BY <1>1, <1>3 DEF LandedIsThere
<1>10. Promise!Ordered(feed)'
  <2>. SUFFICES ASSUME NEW i \in DOMAIN feed', NEW j \in DOMAIN feed', i < j
                PROVE  feed'[i].ev < feed'[j].ev /\ feed'[i].seq < feed'[j].seq
    BY DEF Promise!Ordered
  <2>0. \A k \in DOMAIN feed : k \in Nat /\ k <= Len(feed)
    BY LinesOf
  <2>1. CASE j \in DOMAIN feed /\ feed'[j] = feed[j]
    <3>1. i \in DOMAIN feed /\ feed'[i] = feed[i]
      BY <1>2, <1>4, <2>0, <2>1
    <3>. QED
      BY <2>1, <3>1 DEF JournalInv, Promise!Ordered
  <2>2. ASSUME NEW n \in DOMAIN Batch, j = Len(feed) + n, feed'[j] = Line(Batch[n], append.high + n)
        PROVE  feed'[i].ev < feed'[j].ev /\ feed'[i].seq < feed'[j].seq
    <3>1. CASE i \in DOMAIN feed /\ feed'[i] = feed[i]
      <4>1. feed[i].ev < Batch[n]
        BY <1>2, <3>1 DEF JournalInv, WaitingInOrder
      <4>2. feed[i].seq <= append.high /\ feed[i].seq \in Nat
        BY <1>1, <3>1, LinesOf DEF JournalInv, NumbersFit
      <4>. QED
        BY <1>2, <1>6, <2>2, <3>1, <4>1, <4>2
    <3>2. ASSUME NEW m \in DOMAIN Batch, i = Len(feed) + m, feed'[i] = Line(Batch[m], append.high + m)
          PROVE  feed'[i].ev < feed'[j].ev /\ feed'[i].seq < feed'[j].seq
      <4>1. m < n
        BY <1>2, <2>2, <3>2
      <4>2. Batch[m] < Batch[n]
        BY <1>2, <4>1 DEF JournalInv, WaitingInOrder
      <4>. QED
        BY <1>2, <1>6, <2>2, <3>2, <4>1, <4>2
    <3>. QED
      BY <1>4, <3>1, <3>2
  <2>. QED
    BY <1>4, <2>1, <2>2
<1>11. JournalHoldsTheFeed'
  <2>1. \A m \in DOMAIN Batch : Line(Batch[m], append.high + m) \in Range(file) \/ Batch[m] \in cut
    BY <1>1, <1>2 DEF JournalInv, LandedIsThere
  <2>2. \A k \in DOMAIN feed : feed[k] \in Range(file) \/ feed[k].ev \in cut
    BY DEF JournalInv, JournalHoldsTheFeed
  <2>3. \A k \in DOMAIN feed' : feed'[k] \in Range(file) \/ feed'[k].ev \in cut
    BY <1>4, <1>6, <2>1, <2>2
  <2>. QED
    BY <1>1, <2>3 DEF JournalInv, JournalHoldsTheFeed
<1>. QED
  BY <1>7, <1>8, <1>9, <1>10, <1>11 DEF JournalInv

(* A write that stopped early left nothing, or an unfinished line.          *)
LEMMA StoppedFile ==
  ASSUME JournalTypeOK, JournalInv, StopsWriting
  PROVE  /\ file' \in Seq([ev : 0 .. emitted, seq : Nat]) /\ open' \in BOOLEAN
         /\ Len(file) <= Len(file') /\ \A k \in DOMAIN file' : file'[k].seq <= k
         /\ \A h \in Nat : h + (IF open THEN 1 ELSE 0) <= Len(file)
                             => h + (IF open' THEN 1 ELSE 0) <= Len(file')
         /\ open' => file' # <<>> /\ \A k \in DOMAIN feed : feed[k] # file'[Len(file')]
         /\ \A k \in DOMAIN feed : feed[k] \in Range(file') \/ feed[k].ev \in cut
         /\ \A i, j \in DOMAIN file' :
              i < j /\ Unreadable \notin {file'[i], file'[j]} => file'[i].ev < file'[j].ev
         /\ \A i \in DOMAIN Slots : \A m \in DOMAIN Slots[i] :
              i > 1 => \A k \in DOMAIN file' : file'[k].ev < Slots[i][m]
<1>1. CASE UNCHANGED disk
  <2>1. file' = file /\ open' = open
    BY <1>1 DEF disk
  <2>2. open \in BOOLEAN /\ Len(file) \in Nat
    BY LinesOf DEF JournalTypeOK
  <2>3. open => file # <<>> /\ \A k \in DOMAIN feed : feed[k] # file[Len(file)]
    BY DEF JournalInv, LandedIsThere
  <2>4. \A i \in DOMAIN Slots : \A m \in DOMAIN Slots[i] :
          i > 1 => \A k \in DOMAIN file : file[k].ev < Slots[i][m]
    <3>1. \A i \in DOMAIN Slots : \A m \in DOMAIN Slots[i] : i > 1 => ~Landed(i, m)
      BY DEF Landed
    <3>. QED
      BY <3>1 DEF JournalInv, WaitingInOrder
  <2>. QED
    BY <2>1, <2>2, <2>3, <2>4, LinesOf DEF JournalInv, NumbersFit, JournalHoldsTheFeed
<1>2. CASE append # None /\ append.landed < Len(Batch) /\ open' = TRUE
           /\ file' \in {FileWith(Unreadable), FileWith(Landing)}
  <2>1. PICK l \in {Unreadable, Landing} : Wrote(l)
    BY <1>2 DEF Wrote, FileWith
  <2>2. /\ file' \in Seq([ev : 0 .. emitted, seq : Nat]) /\ file' # <<>>
        /\ Len(file') = Len(file) + (IF Glued THEN 0 ELSE 1) /\ Len(file) \in Nat
    BY <1>2, <2>1, WrittenFile, LinesOf
  <2>3. \A i \in DOMAIN Slots : \A m \in DOMAIN Slots[i] :
          i > 1 => \A k \in DOMAIN file' : file'[k].ev < Slots[i][m]
    <3>1. SUFFICES ASSUME NEW i \in DOMAIN Slots, NEW m \in DOMAIN Slots[i], i > 1,
                          NEW k \in DOMAIN file'
                   PROVE  file'[k].ev < Slots[i][m]
      OBVIOUS
    <3>2. Landing.ev < Slots[i][m] /\ file'[k].ev <= Landing.ev
      BY <1>2, <2>1, <3>1, LandingOf, WrittenFile
    <3>3. file'[k] \in [ev : 0 .. emitted, seq : Nat] /\ emitted \in Nat
      BY <2>2, ElementOf, LinesOf
    <3>4. Landing.ev \in Nat /\ Slots[i][m] \in Nat /\ file'[k].ev \in Nat
      BY <1>2, <3>3, LandingOf, EventsOfSlots
    <3>. QED
      BY <3>2, <3>4
  <2>4. \A h \in Nat : h + (IF open THEN 1 ELSE 0) <= Len(file)
                         => h + (IF open' THEN 1 ELSE 0) <= Len(file')
    BY <1>2, <2>2 DEF Glued
  <2>5. Len(file) <= Len(file')
    BY <2>2
  <2>6. \A k \in DOMAIN file' : file'[k].seq <= k
    BY <1>2, <2>1, WrittenFile
  <2>7. /\ \A k \in DOMAIN feed : feed[k] # file'[Len(file')]
        /\ \A k \in DOMAIN feed : feed[k] \in Range(file') \/ feed[k].ev \in cut
        /\ \A i, j \in DOMAIN file' :
             i < j /\ Unreadable \notin {file'[i], file'[j]} => file'[i].ev < file'[j].ev
    BY <1>2, <2>1, WrittenFile
  <2>. QED
    BY <1>2, <2>2, <2>3, <2>4, <2>5, <2>6, <2>7
<1>. QED
  BY <1>1, <1>2 DEF StopsWriting

\* An append that fails drops its slot and marks the event that is glued to
\* what it left.
LEMMA FailKeeps ==
  ASSUME JournalTypeOK, JournalInv, Fail
  PROVE  JournalTypeOK' /\ JournalInv'
<1>1. /\ append # None /\ StopsWriting /\ queue' = Tail(queue) /\ append' = None
      /\ UNCHANGED <<emitted, buffer, cache, feed, settled, cut>>
  BY DEF Fail
<1>2. queue # <<>>
  BY <1>1 DEF JournalTypeOK
<1>3. JournalTypeOK'
  <2>1. queue' \in Seq(Seq(1 .. emitted) \ {<<>>})
    BY <1>1, <1>2, TailSlots
  <2>2. file' \in Seq([ev : 0 .. emitted, seq : Nat]) /\ open' \in BOOLEAN
    BY <1>1, StoppedFile
  <2>. QED
    BY <1>1, <2>1, <2>2 DEF JournalTypeOK
<1>4. \A i \in DOMAIN Slots' : i \in Nat /\ i >= 1 /\ i + 1 \in DOMAIN Slots /\ Slots'[i] = Slots[i + 1]
  BY <1>1, <1>2, TailSlots
<1>5. WaitingInOrder'
  <2>1. ASSUME NEW i \in DOMAIN Slots', NEW j \in DOMAIN Slots',
               NEW m \in DOMAIN Slots'[i], NEW n \in DOMAIN Slots'[j], i < j \/ (i = j /\ m < n)
        PROVE  Slots'[i][m] < Slots'[j][n]
    <3>1. i + 1 < j + 1 \/ (i + 1 = j + 1 /\ m < n)
      BY <1>4, <2>1
    <3>. QED
      BY <1>4, <3>1 DEF JournalInv, WaitingInOrder
  <2>2. ASSUME NEW i \in DOMAIN Slots', NEW m \in DOMAIN Slots'[i]
        PROVE  /\ \A k \in DOMAIN feed : feed[k].ev < Slots'[i][m]
               /\ \A k \in DOMAIN file' : file'[k].ev < Slots'[i][m]
    <3>1. i + 1 \in DOMAIN Slots /\ Slots'[i] = Slots[i + 1] /\ i + 1 > 1 /\ m \in DOMAIN Slots[i + 1]
      BY <1>4
    <3>2. \A k \in DOMAIN feed : feed[k].ev < Slots'[i][m]
      BY <3>1 DEF JournalInv, WaitingInOrder
    <3>3. \A k \in DOMAIN file' : file'[k].ev < Slots'[i][m]
      BY <1>1, <3>1, StoppedFile
    <3>. QED
      BY <3>2, <3>3
  <2>. QED
    BY <1>1, <2>1, <2>2 DEF WaitingInOrder
<1>6. NumbersFit'
  <2>1. \A k \in DOMAIN file' : file'[k].seq <= k
    BY <1>1, StoppedFile
  <2>2. \A k \in DOMAIN feed : /\ feed[k].seq <= Len(file')
                               /\ cache # None => feed[k].seq <= cache.high
    <3>1. Len(file) <= Len(file') /\ Len(file) \in Nat /\ Len(file') \in Nat
      BY <1>1, StoppedFile, LinesOf, InSequence
    <3>. QED
      BY <3>1, LinesOf DEF JournalInv, NumbersFit
  <2>3. cache # None => cache.high + (IF open' THEN 1 ELSE 0) <= Len(file')
    <3>1. cache # None => cache.high \in Nat /\ cache.high + (IF open THEN 1 ELSE 0) <= Len(file)
      BY DEF JournalInv, NumbersFit, JournalTypeOK
    <3>. QED
      BY <1>1, <3>1, StoppedFile
  <2>. QED
    BY <1>1, <2>1, <2>2, <2>3 DEF NumbersFit
<1>7. LandedIsThere' /\ JournalHoldsTheFeed' /\ Promise!Ordered(feed)'
  <2>1. open' => file' # <<>> /\ \A k \in DOMAIN feed : feed[k] # file'[Len(file')]
    BY <1>1, StoppedFile
  <2>2. /\ \A k \in DOMAIN feed : feed[k] \in Range(file') \/ feed[k].ev \in cut
        /\ \A i, j \in DOMAIN file' :
             i < j /\ Unreadable \notin {file'[i], file'[j]} => file'[i].ev < file'[j].ev
    BY <1>1, StoppedFile
  <2>. QED
    BY <1>1, <2>1, <2>2 DEF LandedIsThere, JournalInv, JournalHoldsTheFeed, Promise!Ordered
<1>. QED
  BY <1>3, <1>5, <1>6, <1>7 DEF JournalInv

\* A crash leaves the file, perhaps torn, and nothing that waits.
LEMMA CrashKeeps ==
  ASSUME JournalTypeOK, JournalInv, Crash
  PROVE  JournalTypeOK' /\ JournalInv'
<1>1. /\ StopsWriting /\ buffer' = <<>> /\ queue' = <<>> /\ cache' = None /\ append' = None
      /\ UNCHANGED <<emitted, feed, settled, cut>>
  BY DEF Crash
<1>2. JournalTypeOK'
  <2>1. file' \in Seq([ev : 0 .. emitted, seq : Nat]) /\ open' \in BOOLEAN
    BY <1>1, StoppedFile
  <2>2. buffer' \in Seq(1 .. emitted) /\ Len(buffer') < MaxBuffered
    BY <1>1, EventLogAssumption
  <2>3. queue' \in Seq(Seq(1 .. emitted) \ {<<>>})
    BY <1>1
  <2>. QED
    BY <1>1, <2>1, <2>2, <2>3 DEF JournalTypeOK
<1>3. WaitingInOrder'
  <2>1. \A i \in DOMAIN Slots' : DOMAIN Slots'[i] = {}
    BY <1>1 DEF Slots
  <2>. QED
    BY <2>1 DEF WaitingInOrder
<1>4. NumbersFit'
  <2>1. \A k \in DOMAIN file' : file'[k].seq <= k
    BY <1>1, StoppedFile
  <2>2. \A k \in DOMAIN feed : feed[k].seq <= Len(file')
    <3>1. Len(file) <= Len(file') /\ Len(file) \in Nat /\ Len(file') \in Nat
      BY <1>1, StoppedFile, LinesOf, InSequence
    <3>. QED
      BY <3>1, LinesOf DEF JournalInv, NumbersFit
  <2>. QED
    BY <1>1, <2>1, <2>2 DEF NumbersFit
<1>5. LandedIsThere' /\ JournalHoldsTheFeed' /\ Promise!Ordered(feed)'
  <2>1. open' => file' # <<>> /\ \A k \in DOMAIN feed : feed[k] # file'[Len(file')]
    BY <1>1, StoppedFile
  <2>2. /\ \A k \in DOMAIN feed : feed[k] \in Range(file') \/ feed[k].ev \in cut
        /\ \A i, j \in DOMAIN file' :
             i < j /\ Unreadable \notin {file'[i], file'[j]} => file'[i].ev < file'[j].ev
    BY <1>1, StoppedFile
  <2>. QED
    BY <1>1, <2>1, <2>2 DEF LandedIsThere, JournalInv, JournalHoldsTheFeed, Promise!Ordered
<1>. QED
  BY <1>2, <1>3, <1>4, <1>5 DEF JournalInv

-----------------------------------------------------------------------------
(* Theorems.                                                                *)

(* What the follower does, and that the run settles, is not written down.   *)
LEMMA FollowerKeepsJournal ==
  ASSUME JournalTypeOK, JournalInv,
         UNCHANGED <<emitted, buffer, queue, cache, append, disk, feed, cut>>,
         settled' \in BOOLEAN
  PROVE  JournalTypeOK' /\ JournalInv'
<1>1. /\ emitted' = emitted /\ buffer' = buffer /\ queue' = queue /\ cache' = cache
      /\ append' = append /\ file' = file /\ open' = open /\ feed' = feed /\ cut' = cut
  BY DEF disk
<1>2. Batch' = Batch /\ Slots' = Slots
  BY <1>1 DEF Batch, Slots
<1>3. JournalTypeOK'
  BY <1>1, <1>2 DEF JournalTypeOK
<1>4. WaitingInOrder'
  BY <1>1, <1>2 DEF JournalInv, WaitingInOrder, Landed
<1>5. NumbersFit' /\ LandedIsThere'
  BY <1>1, <1>2 DEF JournalInv, NumbersFit, LandedIsThere, Glued
<1>6. Promise!Ordered(feed)' /\ JournalHoldsTheFeed'
  BY <1>1 DEF JournalInv, Promise!Ordered, JournalHoldsTheFeed
<1>. QED
  BY <1>3, <1>4, <1>5, <1>6 DEF JournalInv

\* An empty journal is in order.
LEMMA InitJournal ==
  ASSUME Init
  PROVE  JournalTypeOK /\ JournalInv
<1>1. JournalTypeOK
  <2>1. 0 \in 0 .. MaxEvents /\ Len(<<>>) < MaxBuffered /\ {} \subseteq 1 .. 0
    BY EventLogAssumption
  <2>2. /\ <<>> \in Seq(1 .. 0) /\ <<>> \in Seq(Seq(1 .. 0) \ {<<>>})
        /\ <<>> \in Seq([ev : 0 .. 0, seq : Nat]) /\ <<>> \in Seq([ev : 1 .. 0, seq : Nat])
    OBVIOUS
  <2>. QED
    BY <2>1, <2>2 DEF Init, JournalTypeOK
<1>2. WaitingInOrder
  <2>1. Slots = <<<<>>>>
    BY DEF Init, Slots
  <2>2. \A i \in DOMAIN Slots : DOMAIN Slots[i] = {}
    BY <2>1
  <2>. QED
    BY <2>2 DEF WaitingInOrder
<1>3. NumbersFit /\ LandedIsThere /\ JournalHoldsTheFeed /\ Promise!Ordered(feed)
  BY DEF Init, NumbersFit, LandedIsThere, JournalHoldsTheFeed, Promise!Ordered
<1>. QED
  BY <1>1, <1>2, <1>3 DEF JournalInv

\* Every step keeps the invariant.
LEMMA StepKeepsJournal ==
  ASSUME JournalTypeOK, JournalInv, [Next]_vars
  PROVE  JournalTypeOK' /\ JournalInv'
<1>1. CASE (\E n \in 1 .. 2 : AppendEvents(n)) \/ AppendBuffered \/ Drain
  BY <1>1, EmissionKeepsJournal
<1>2. CASE StartAppend
  BY <1>2, StartAppendType, StartAppendKeeps
<1>3. CASE Land
  BY <1>3, LandType, LandKeeps
<1>4. CASE Succeed
  BY <1>4, SucceedType, SucceedKeeps
<1>5. CASE Fail
  BY <1>5, FailKeeps
<1>6. CASE Crash
  BY <1>6, CrashKeeps
<1>7. CASE Settle
  BY <1>7, FollowerKeepsJournal DEF Settle
<1>8. CASE \/ \E all \in BOOLEAN : Follow(all)
           \/ Poll \/ Read \/ Wake \/ TimesOut \/ HangsUp
           \/ UNCHANGED vars
  <2>1. UNCHANGED log
    BY <1>8 DEF Follow, Poll, Read, Wake, TimesOut, HangsUp, Answers, vars, log, disk
  <2>2. UNCHANGED <<emitted, buffer, queue, cache, append, disk, feed, cut>> /\ settled' \in BOOLEAN
    BY <2>1 DEF log, JournalTypeOK
  <2>. QED
    BY <2>2, FollowerKeepsJournal
<1>. QED
  BY <1>1, <1>2, <1>3, <1>4, <1>5, <1>6, <1>7, <1>8 DEF Next

(* The inductive invariant: events wait in the order of their emission      *)
(* behind what was told and written, the file is at least as long as any    *)
(* number that was or is being given, and what landed is in the file.       *)
THEOREM JournalInvariant == Spec => []JournalInv
<1>1. Init => JournalTypeOK /\ JournalInv
  BY InitJournal
<1>2. JournalTypeOK /\ JournalInv /\ [Next]_vars => JournalTypeOK' /\ JournalInv'
  BY StepKeepsJournal
<1>. QED
  BY <1>1, <1>2, PTL DEF Spec

(* events.jsonl holds what subscribers were told under the same number,     *)
(* however many appends fail and however often the process dies, unless the *)
(* line was begun on an unfinished one; and its lines are in the order of   *)
(* emission.                                                                *)
THEOREM JournalAlwaysHoldsTheFeed == Spec => []JournalHoldsTheFeed
<1>1. JournalInv => JournalHoldsTheFeed
  BY DEF JournalInv
<1>. QED
  BY <1>1, JournalInvariant, PTL

\* Every step is one of the feed, or leaves it alone.
LEMMA StepKeepsPromise ==
  ASSUME JournalTypeOK, JournalInv, [Next]_vars
  PROVE  [Promise!Next]_<<emitted, feed>>
<1>0. emitted \in Nat
  BY LinesOf
<1>1. CASE (\E n \in 1 .. 2 : AppendEvents(n)) \/ AppendBuffered
  <2>1. /\ UNCHANGED feed /\ emitted' \in Nat /\ emitted' > emitted
    BY <1>0, <1>1 DEF AppendEvents, AppendBuffered
  <2>. QED
    BY <2>1 DEF Promise!Next, Promise!Emit
<1>2. CASE Succeed
  <2>1. /\ append # None /\ feed' = feed \o Numbered /\ UNCHANGED emitted
    BY <1>2 DEF Succeed
  <2>2. IsStrictPrefix(feed, feed')
    BY <2>1, FeedAfter DEF JournalTypeOK
  <2>3. JournalTypeOK' /\ JournalInv'
    BY <1>2, SucceedType, SucceedKeeps
  <2>4. Promise!Ordered(feed')
    BY <2>3 DEF JournalInv, Promise!Ordered
  <2>5. \A i \in DOMAIN feed' : feed'[i].ev <= emitted
    <3>1. feed' \in Seq([ev : 1 .. emitted, seq : Nat])
      BY <2>1, <2>3 DEF JournalTypeOK
    <3>2. \A i \in DOMAIN feed' : feed'[i] \in [ev : 1 .. emitted, seq : Nat]
      BY <3>1, ElementOf
    <3>. QED
      BY <1>0, <3>2
  <2>. QED
    BY <2>1, <2>2, <2>4, <2>5 DEF Promise!Next, Promise!Tell, Promise!IsStrictPrefix,
                                  Promise!IsPrefix, IsStrictPrefix, IsPrefix
<1>3. CASE \/ Drain \/ StartAppend \/ Land \/ Fail \/ Crash \/ Settle
           \/ \E all \in BOOLEAN : Follow(all)
           \/ Poll \/ Read \/ Wake \/ TimesOut \/ HangsUp
           \/ UNCHANGED vars
  BY <1>3 DEF Drain, StartAppend, Land, Fail, Crash, Settle, Follow, Poll, Read, Wake,
              TimesOut, HangsUp, Answers, vars, log
<1>. QED
  BY <1>1, <1>2, <1>3 DEF Next

(* The event log keeps its promise to the subscribers (OrderedFeed): events *)
(* in the order of their emission, once each, under numbers that only grow, *)
(* through buffers, failed appends and any number of processes.             *)
THEOREM FeedIsOrdered == Spec => ImplementsFeed
<1>1. Init => Promise!Init /\ JournalTypeOK /\ JournalInv
  BY InitJournal DEF Init, Promise!Init
<1>2. JournalTypeOK /\ JournalInv /\ [Next]_vars => [Promise!Next]_<<emitted, feed>>
  BY StepKeepsPromise
<1>3. JournalTypeOK /\ JournalInv /\ [Next]_vars => JournalTypeOK' /\ JournalInv'
  BY StepKeepsJournal
<1>. QED
  BY <1>1, <1>2, <1>3, PTL DEF Spec, ImplementsFeed, Promise!Spec

-----------------------------------------------------------------------------
(* Numbers and selections *)

(* A set of numbers that is not empty has a least one.                      *)
LEMMA LeastNumber ==
  ASSUME NEW S, S \subseteq Nat, S # {}
  PROVE  \E x \in S : \A y \in S : x <= y
<1>. DEFINE R == {ss \in Nat \X Nat : ss[1] < ss[2]}
<1>1. IsWellFoundedOn(R, Nat)
  BY NatLessThanWellFounded DEF OpToRel
<1>2. PICK x \in S : \A y \in S : ~ (<<y, x>> \in R)
  BY <1>1, WFMin
<1>3. ASSUME NEW y \in S PROVE x <= y
  <2>1. x \in Nat /\ y \in Nat
    OBVIOUS
  <2>2. <<y, x>> \in R <=> y < x
    BY <2>1
  <2>. HIDE DEF R
  <2>. QED
    BY <1>2, <2>1, <2>2
<1>. QED
  BY <1>3

(* Induction up to n: a set that holds 0, and with k < n also k + 1, holds  *)
(* n.                                                                       *)
LEMMA UpTo ==
  ASSUME NEW n \in Nat, NEW S, 0 \in S, \A k \in 0 .. n - 1 : k \in S => k + 1 \in S
  PROVE  \A k \in 0 .. n : k \in S
<1>. SUFFICES ASSUME NEW k \in 0 .. n, k \notin S
              PROVE  FALSE
  OBVIOUS
<1>. DEFINE B == {i \in 0 .. n : i \notin S}
<1>1. PICK x \in B : \A y \in B : x <= y
  <2>1. B \subseteq Nat /\ B # {}
    OBVIOUS
  <2>. HIDE DEF B
  <2>. QED
    BY <2>1, LeastNumber
<1>2. x # 0
  OBVIOUS
<1>3. x - 1 \in 0 .. n - 1 /\ x - 1 \notin B
  BY <1>1, <1>2
<1>4. x - 1 \in S
  BY <1>3
<1>. QED
  BY <1>3, <1>4, <1>1

Ascends(q, S, k) ==
  /\ q \in Seq(S \cap (1 .. k))
  /\ \A i, j \in DOMAIN q : i < j => q[i] < q[j]
  /\ \A x \in S \cap (1 .. k) : \E i \in DOMAIN q : q[i] = x

(* One more number, in S or not.                                            *)
LEMMA AscendsOne ==
  ASSUME NEW S, NEW k \in Nat, NEW q, Ascends(q, S, k)
  PROVE  Ascends(IF k + 1 \in S THEN Append(q, k + 1) ELSE q, S, k + 1)
<1>. DEFINE A == S \cap (1 .. k)
            B == S \cap (1 .. k + 1)
<1>1. /\ q \in Seq(A) /\ A \subseteq B /\ A \subseteq Nat
      /\ \A i, j \in DOMAIN q : i < j => q[i] < q[j]
      /\ \A x \in A : \E i \in DOMAIN q : q[i] = x
      /\ \A x \in A : x < k + 1
  BY DEF Ascends
<1>2. q \in Seq(B) /\ DOMAIN q = 1 .. Len(q) /\ Len(q) \in Nat
  BY <1>1
<1>3. CASE k + 1 \notin S
  <2>1. A = B
    BY <1>3
  <2>. QED
    BY <1>1, <1>3, <2>1 DEF Ascends
<1>4. CASE k + 1 \in S
  <2>. DEFINE p == Append(q, k + 1)
  <2>1. k + 1 \in B /\ \A x \in B : x \in A \/ x = k + 1
    BY <1>4
  <2>. HIDE DEF A, B
  <2>2. /\ p \in Seq(B) /\ DOMAIN p = 1 .. Len(q) + 1 /\ Len(q) + 1 \in DOMAIN p
        /\ p[Len(q) + 1] = k + 1 /\ \A i \in DOMAIN q : p[i] = q[i]
    BY <1>2, <2>1
  <2>. HIDE DEF p
  <2>3. \A i, j \in DOMAIN p : i < j => p[i] < p[j]
    <3>1. SUFFICES ASSUME NEW i \in DOMAIN p, NEW j \in DOMAIN p, i < j
                   PROVE  p[i] < p[j]
      OBVIOUS
    <3>2. i \in DOMAIN q /\ p[i] = q[i] /\ q[i] \in A
      BY <1>1, <1>2, <2>2, <3>1
    <3>3. CASE j = Len(q) + 1
      BY <1>1, <2>2, <3>2, <3>3
    <3>4. CASE j # Len(q) + 1
      <4>1. j \in DOMAIN q
        BY <1>2, <2>2, <3>4
      <4>. QED
        BY <1>1, <2>2, <3>1, <3>2, <4>1
    <3>. QED
      BY <3>3, <3>4
  <2>4. \A x \in B : \E i \in DOMAIN p : p[i] = x
    <3>1. SUFFICES ASSUME NEW x \in B PROVE \E i \in DOMAIN p : p[i] = x
      OBVIOUS
    <3>2. CASE x = k + 1
      BY <2>2, <3>2
    <3>3. CASE x \in A
      <4>1. PICK i \in DOMAIN q : q[i] = x
        BY <1>1, <3>3
      <4>. QED
        BY <1>2, <2>2, <4>1
    <3>. QED
      BY <2>1, <3>2, <3>3
  <2>. QED
    BY <1>4, <2>2, <2>3, <2>4 DEF Ascends, p, B
<1>. QED
  BY <1>3, <1>4

(* What is selected of a sequence: its elements at the places in S, by an   *)
(* increasing map of the places.                                            *)
Embeds(p, q, s, S) ==
  /\ p \in [DOMAIN q -> S]
  /\ \A i, j \in DOMAIN q : i < j => p[i] < p[j]
  /\ \A x \in S : \E i \in DOMAIN q : p[i] = x
  /\ \A i \in DOMAIN q : q[i] = s[p[i]]

\* q is what is selected of the first k elements, at the places p.
Selects(p, q, s, S, k) == Ascends(p, S, k) /\ q = [i \in DOMAIN p |-> s[p[i]]]

LEMMA SelectsOne ==
  ASSUME NEW S, NEW s, NEW k \in Nat, NEW p, NEW q, Selects(p, q, s, S, k),
         NEW t, t = IF k + 1 \in S THEN Append(q, s[k + 1]) ELSE q
  PROVE  \E r : Selects(r, t, s, S, k + 1)
<1>. DEFINE r == IF k + 1 \in S THEN Append(p, k + 1) ELSE p
<1>1. Ascends(r, S, k + 1)
  BY AscendsOne DEF Selects
<1>2. t = [i \in DOMAIN r |-> s[r[i]]]
  <2>1. p \in Seq(S \cap (1 .. k)) /\ q = [i \in DOMAIN p |-> s[p[i]]]
    BY DEF Selects, Ascends
  <2>2. CASE k + 1 \notin S
    BY <2>1, <2>2
  <2>3. CASE k + 1 \in S
    <3>1. /\ DOMAIN p = 1 .. Len(p) /\ Len(p) \in Nat
          /\ Len(q) = Len(p) /\ DOMAIN q = DOMAIN p /\ \A i \in DOMAIN p : q[i] = s[p[i]]
      <4>1. DOMAIN p = 1 .. Len(p) /\ Len(p) \in Nat
        BY <2>1
      <4>. QED
        BY <2>1, <4>1
    <3>2. /\ r = Append(p, k + 1) /\ t = Append(q, s[k + 1])
      BY <2>3
    <3>. HIDE DEF r
    <3>3. /\ DOMAIN r = 1 .. Len(p) + 1 /\ r[Len(p) + 1] = k + 1
          /\ \A i \in DOMAIN p : r[i] = p[i]
      <4>1. p \in Seq(Nat)
        BY <2>1
      <4>. QED
        BY <3>1, <3>2, <4>1
    <3>4. t = [i \in 1 .. Len(p) + 1 |-> IF i = Len(p) + 1 THEN s[k + 1] ELSE q[i]]
      BY <3>1, <3>2
    <3>5. \A i \in DOMAIN r : t[i] = s[r[i]]
      BY <3>1, <3>3, <3>4
    <3>. QED
      BY <3>3, <3>4, <3>5
  <2>. QED
    BY <2>2, <2>3
<1>. HIDE DEF r
<1>. QED
  BY <1>1, <1>2 DEF Selects

LEMMA SelectedSelects ==
  ASSUME NEW s, Len(s) \in Nat, NEW S
  PROVE  \E p : Selects(p, Selected(s, S), s, S, Len(s))
<1>. DEFINE n == Len(s)
            More(f, i) == IF i = 0 THEN <<>>
                          ELSE IF i \in S THEN Append(f[i - 1], s[i]) ELSE f[i - 1]
            Is(f, k) == f = [i \in 0 .. k |-> More(f, i)]
            T == {k \in 0 .. n : \E f : Is(f, k)}
            up == CHOOSE f : Is(f, n)
<1>1. Selected(s, S) = up[n]
  BY DEF Selected
<1>2. n \in Nat
  OBVIOUS
<1>. HIDE DEF n
<1>3. 0 \in T
  <2>. DEFINE g == [i \in 0 .. 0 |-> <<>>]
  <2>1. \A i \in 0 .. 0 : More(g, i) = <<>>
    OBVIOUS
  <2>2. Is(g, 0)
    <3>. HIDE DEF More
    <3>. QED
      BY <2>1
  <2>. HIDE DEF g, Is
  <2>. QED
    BY <1>2, <2>2
<1>4. ASSUME NEW k \in 0 .. n - 1, k \in T PROVE k + 1 \in T
  <2>1. PICK f : Is(f, k)
    BY <1>4
  <2>2. \A i \in 0 .. k : f[i] = More(f, i)
    <3>. HIDE DEF More
    <3>. QED
      BY <2>1
  <2>. DEFINE g == [i \in 0 .. k + 1 |-> IF i <= k THEN f[i] ELSE More(f, i)]
  <2>3. ASSUME NEW i \in 0 .. k + 1 PROVE g[i] = More(f, i)
    <3>. HIDE DEF More
    <3>. QED
      BY <2>2
  <2>4. ASSUME NEW i \in 0 .. k + 1 PROVE More(g, i) = More(f, i)
    <3>1. CASE i = 0
      BY <3>1
    <3>2. CASE i # 0
      <4>1. i - 1 \in 0 .. k /\ g[i - 1] = f[i - 1]
        <5>. HIDE DEF More
        <5>. QED
          BY <3>2
      <4>. HIDE DEF g
      <4>. QED
        BY <3>2, <4>1
    <3>. QED
      BY <3>1, <3>2
  <2>5. Is(g, k + 1)
    <3>. HIDE DEF More
    <3>. QED
      BY <2>3, <2>4
  <2>. HIDE DEF g, Is
  <2>. QED
    BY <1>2, <2>5
<1>5. Is(up, n)
  <2>1. n \in T
    <3>. HIDE DEF T
    <3>1. \A k \in 0 .. n : k \in T
      BY <1>2, <1>3, <1>4, UpTo
    <3>. QED
      BY <1>2, <3>1
  <2>. HIDE DEF Is
  <2>. QED
    BY <2>1
<1>. HIDE DEF up, T
<1>6. \A i \in 0 .. n : up[i] = More(up, i)
  <2>. HIDE DEF More
  <2>. QED
    BY <1>5
<1>. HIDE DEF Is
<1>. DEFINE U == {k \in 0 .. n : \E p : Selects(p, up[k], s, S, k)}
<1>7. 0 \in U
  <2>1. up[0] = <<>>
    BY <1>2, <1>6
  <2>2. Ascends(<<>>, S, 0)
    BY DEF Ascends
  <2>3. <<>> = [i \in DOMAIN <<>> |-> s[<<>>[i]]]
    OBVIOUS
  <2>4. Selects(<<>>, up[0], s, S, 0)
    BY <2>1, <2>2, <2>3 DEF Selects
  <2>. QED
    BY <1>2, <2>4
<1>8. ASSUME NEW k \in 0 .. n - 1, k \in U PROVE k + 1 \in U
  <2>1. k + 1 \in 0 .. n /\ k + 1 # 0 /\ (k + 1) - 1 = k /\ k \in Nat
    BY <1>2
  <2>2. up[k + 1] = IF k + 1 \in S THEN Append(up[k], s[k + 1]) ELSE up[k]
    BY <1>6, <2>1
  <2>3. PICK p : Selects(p, up[k], s, S, k)
    BY <1>8
  <2>4. \E r : Selects(r, up[k + 1], s, S, k + 1)
    BY ONLY <2>1, <2>2, <2>3, SelectsOne
  <2>. QED
    BY <2>1, <2>4
<1>9. n \in U
  <2>. HIDE DEF U
  <2>1. \A k \in 0 .. n : k \in U
    BY <1>2, <1>7, <1>8, UpTo
  <2>. QED
    BY <1>2, <2>1
<1>. QED
  BY <1>1, <1>9 DEF n

LEMMA SelectedEmbeds ==
  ASSUME NEW X, NEW s \in Seq(X), NEW S, S \subseteq DOMAIN s
  PROVE  /\ Selected(s, S) \in Seq(X)
         /\ \E p : Embeds(p, Selected(s, S), s, S)
<1>. DEFINE q == Selected(s, S)
<1>1. Len(s) \in Nat /\ S = S \cap (1 .. Len(s))
  OBVIOUS
<1>2. PICK a : Selects(a, q, s, S, Len(s))
  BY <1>1, SelectedSelects
<1>3. /\ a \in Seq(S) /\ DOMAIN a = 1 .. Len(a) /\ Len(a) \in Nat
      /\ \A i, j \in DOMAIN a : i < j => a[i] < a[j]
      /\ \A x \in S : \E i \in DOMAIN a : a[i] = x
      /\ q = [k \in DOMAIN a |-> s[a[k]]]
  <2>. HIDE DEF q
  <2>. QED
    BY <1>1, <1>2 DEF Selects, Ascends
<1>. HIDE DEF q
<1>4. \A k \in DOMAIN a : a[k] \in S /\ s[a[k]] \in X
  BY <1>3
<1>5. q \in Seq(X) /\ DOMAIN q = DOMAIN a
  BY <1>3, <1>4
<1>6. Embeds(a, q, s, S)
  <2>1. a \in [DOMAIN q -> S]
    BY <1>3, <1>5
  <2>. QED
    BY <1>3, <1>5, <2>1 DEF Embeds
<1>. QED
  BY <1>5, <1>6 DEF q

-----------------------------------------------------------------------------
(* The follower and the marks of a failed append *)

\* The finished lines are all lines but an open last one.
LEMMA FinishedLines ==
  ASSUME JournalTypeOK
  PROVE  /\ \A i : i \in Finished <=> i \in DOMAIN file /\ (open => i # Len(file))
         /\ \A i \in DOMAIN file, j \in Finished : i <= j => i \in Finished
         /\ \A i, j \in DOMAIN file : i < j => i \in Finished
<1>1. DOMAIN file = 1 .. Len(file) /\ Len(file) \in Nat /\ open \in BOOLEAN
  BY LinesOf DEF JournalTypeOK
<1>. QED
  BY <1>1 DEF Finished

LEMMA FinishedAfter ==
  ASSUME JournalTypeOK'
  PROVE  /\ \A i : i \in Finished' <=> i \in DOMAIN file' /\ (open' => i # Len(file'))
         /\ DOMAIN file' = 1 .. Len(file') /\ Len(file') \in Nat
         /\ \A i \in DOMAIN file' : file'[i].ev \in Nat /\ file'[i].seq \in Nat
<1>1. DOMAIN file' = 1 .. Len(file') /\ Len(file') \in Nat /\ open' \in BOOLEAN /\ emitted' \in Nat
  BY EventLogAssumption DEF JournalTypeOK
<1>2. \A i \in DOMAIN file' : file'[i] \in [ev : 0 .. emitted', seq : Nat]
  BY InSequence DEF JournalTypeOK
<1>3. \A i \in DOMAIN file' : file'[i].ev \in Nat /\ file'[i].seq \in Nat
  BY <1>1, <1>2
<1>. QED
  BY <1>1, <1>3 DEF Finished

\* A mark stays when the finished lines do.
LinesStay == cut \subseteq cut' /\ \A i \in Finished : i \in Finished' /\ file'[i] = file[i]

LEMMA ScarsStay ==
  ASSUME LinesStay, Scarred
  PROVE  Scarred'
BY DEF LinesStay, Scarred

\* Two lines under one number are a mark.
LEMMA TwiceScarsAfter ==
  ASSUME JournalTypeOK', NEW i \in Finished', NEW j \in Finished', i # j,
         file'[i] # Unreadable, file'[j] # Unreadable, file'[i].seq = file'[j].seq
  PROVE  Scarred'
<1>1. i \in Nat /\ j \in Nat
  BY FinishedAfter
<1>2. i < j \/ j < i
  BY <1>1
<1>. QED
  BY <1>2 DEF Scarred

\* A line with a number can be read.
LEMMA NumberIsRead ==
  ASSUME NEW l, l.seq # 0
  PROVE  l # Unreadable
BY DEF Unreadable, Line

\* The fields of a line.
LEMMA LineFields ==
  ASSUME NEW e, NEW n
  PROVE  Line(e, n).ev = e /\ Line(e, n).seq = n
BY DEF Line

\* The lines after a write, if it was not glued to an unfinished line.
LEMMA WrittenBehind ==
  ASSUME JournalTypeOK, JournalInv, append # None, append.landed < Len(Batch),
         NEW l \in {Unreadable, Landing}, Wrote(l), ~Glued
  PROVE  /\ file' = Append(file, l) /\ Len(file') = Len(file) + 1
         /\ DOMAIN file' = 1 .. Len(file) + 1 /\ file'[Len(file) + 1] = l
         /\ \A k \in DOMAIN file : k \in DOMAIN file' /\ file'[k] = file[k]
<1>1. l \in [ev : 0 .. emitted, seq : Nat]
  <2>1. Landing \in [ev : 0 .. emitted, seq : Nat]
    <3>1. Landing.ev \in 1 .. emitted /\ Landing.seq \in Nat
      BY LandingOf
    <3>. QED
      BY <3>1 DEF Landing, Line
  <2>2. Unreadable \in [ev : 0 .. emitted, seq : Nat]
    BY LinesOf DEF Unreadable, Line
  <2>. QED
    BY <2>1, <2>2
<1>2. file' = Append(file, l)
  BY DEF Wrote
<1>3. DOMAIN file = 1 .. Len(file) /\ Len(file) \in Nat
  BY LinesOf
<1>. QED
  BY <1>1, <1>2, <1>3, AppendedFile

\* What the follower has printed are events, and its cursor a number.
LEMMA FollowerFields ==
  ASSUME JournalTypeOK, FollowerTypeOK
  PROVE  /\ client.all \in BOOLEAN /\ (client.all => client.cursor \in Nat /\ client.cursor # None)
         /\ (~client.all => client.cursor = None)
         /\ Len(got) \in Nat /\ DOMAIN got = 1 .. Len(got) /\ emitted \in Nat
         /\ \A i \in DOMAIN got : got[i] \in Nat /\ got[i] >= 1 /\ got[i] <= emitted
<1>1. emitted \in Nat
  BY LinesOf
<1>2. got \in Seq(1 .. emitted)
  BY DEF FollowerTypeOK
<1>3. \A i \in DOMAIN got : got[i] \in 1 .. emitted
  BY <1>2, InSequence
<1>4. client.all \in BOOLEAN /\ client.cursor \in Nat \cup {None}
  BY DEF FollowerTypeOK
<1>5. (client.all => client.cursor \in Nat /\ client.cursor # None) /\ (~client.all => client.cursor = None)
  BY <1>4 DEF FollowerTypeOK
<1>. QED
  BY <1>1, <1>2, <1>3, <1>4, <1>5

\* Events that are newer than all there are are newer than what was printed.
LEMMA LaterKeepsFollower ==
  ASSUME JournalTypeOK, JournalTypeOK', JournalInv, FollowerTypeOK, FollowerInv, OnlyLater,
         UNCHANGED <<cache, append, disk, feed, cut>>, UNCHANGED follower
  PROVE  FollowerInv'
<1>1. /\ cache' = cache /\ append' = append /\ file' = file /\ open' = open /\ feed' = feed
      /\ cut' = cut /\ client' = client /\ live' = live /\ got' = got
  BY DEF disk, follower
<1>2. append # None => Batch' = Batch
  BY DEF OnlyLater, Batch
<1>3. LinesFit' /\ (Scarred' <=> Scarred) /\ (NumbersGrow <=> NumbersGrow')
  BY <1>1 DEF FollowerInv, LinesFit, Scarred, NumbersGrow, Finished, Doomed
<1>4. ASSUME client.all, FollowerKnows PROVE FollowerKnows'
  <2>1. PrintsAll' /\ CursorIsThere' /\ HearsTheEnd'
    BY <1>1, <1>2, <1>4 DEF FollowerKnows, PrintsAll, CursorIsThere, HearsTheEnd
  <2>2. ASSUME NEW i \in DOMAIN got, NEW k \in DOMAIN Slots', NEW m \in DOMAIN Slots'[k]
        PROVE  Landed(k, m)' \/ got[i] < Slots'[k][m]
    <3>1. CASE OldPlace(k, m)
      <4>1. k \in DOMAIN Slots /\ m \in DOMAIN Slots[k] /\ Slots'[k][m] = Slots[k][m]
        BY <3>1 DEF OldPlace
      <4>2. Landed(k, m) \/ got[i] < Slots[k][m]
        BY <1>4, <4>1 DEF FollowerKnows, PrintsInOrder
      <4>. QED
        BY <1>1, <4>1, <4>2 DEF Landed
    <3>2. CASE Slots'[k][m] > emitted
      <4>1. Slots'[k] \in Seq(1 .. emitted')
        BY SlotsAfter, ElementOf
      <4>2. Slots'[k][m] \in 1 .. emitted'
        BY <4>1, ElementOf
      <4>3. emitted \in Nat /\ Slots'[k][m] \in Nat
        BY <4>2, SlotsOf, SlotsAfter
      <4>4. got[i] \in Nat /\ got[i] <= emitted
        BY FollowerFields
      <4>. QED
        BY <3>2, <4>3, <4>4
    <3>. QED
      BY <3>1, <3>2 DEF OnlyLater
  <2>3. PrintsInOrder'
    BY <1>1, <1>4, <2>2 DEF FollowerKnows, PrintsInOrder
  <2>. QED
    BY <2>1, <2>3 DEF FollowerKnows
<1>. QED
  BY <1>1, <1>3, <1>4 DEF FollowerInv

\* Beginning the first slot: it goes on from what the process knows, or from
\* the end of the file.
LEMMA StartAppendFollower ==
  ASSUME JournalTypeOK, JournalTypeOK', JournalInv, FollowerInv, StartAppend
  PROVE  FollowerInv'
<1>1. /\ append = None /\ append' # None
      /\ append'.landed = 0
      /\ append'.high = JournalState.high /\ append'.newline = JournalState.newline
      /\ cache' = cache /\ queue' = queue /\ buffer' = buffer
      /\ file' = file /\ open' = open /\ feed' = feed
      /\ cut' = cut /\ client' = client /\ live' = live /\ got' = got
  <2>1. append' = [high |-> JournalState.high, newline |-> JournalState.newline, landed |-> 0]
    BY DEF StartAppend
  <2>2. append' # None
    <3>1. JournalState.high \in Nat /\ JournalState.newline \in BOOLEAN
      <4>1. CASE cache # None
        BY <4>1 DEF JournalState, JournalTypeOK
      <4>2. CASE cache = None
        <5>1. HighWater \in Nat
          BY HighWaterIsLength, LinesOf DEF JournalInv
        <5>. QED
          BY <4>2, <5>1 DEF JournalState, JournalTypeOK
      <4>. QED
        BY <4>1, <4>2
    <3>2. append' \in [high : Nat, newline : BOOLEAN, landed : Nat]
      BY <2>1, <3>1
    <3>. QED
      BY <3>2, EventLogAssumption
  <2>. QED
    BY <2>1, <2>2 DEF StartAppend, disk, follower
<1>2. /\ Slots' = Slots /\ Batch' = Batch /\ Finished' = Finished
      /\ (Scarred' <=> Scarred)
  BY <1>1 DEF Slots, Batch, Finished, Scarred
<1>3. IF cache # None THEN append'.high = cache.high /\ ~append'.newline
      ELSE append'.newline = open /\ append'.high = Len(file)
  <2>1. CASE cache # None
    BY <1>1, <2>1 DEF JournalState, JournalTypeOK
  <2>2. CASE cache = None
    <3>1. HighWater = Len(file)
      BY HighWaterIsLength DEF JournalInv
    <3>. QED
      BY <1>1, <2>2, <3>1 DEF JournalState
  <2>. QED
    BY <2>1, <2>2
<1>4. LinesFit'
  BY <1>1, <1>3 DEF FollowerInv, LinesFit
<1>5. ASSUME NumbersGrow PROVE NumbersGrow'
  <2>1. \/ \A i \in DOMAIN file : file[i].seq <= append'.high + append'.landed
        \/ append'.landed = 0 /\ Doomed(append'.high + 1)
    <3>1. CASE cache # None
      <4>1. cache.high \in Nat /\ cache.high + 0 = cache.high
        BY <3>1 DEF JournalTypeOK
      <4>. QED
        BY <1>1, <1>3, <1>5, <3>1, <4>1 DEF NumbersGrow
    <3>2. CASE cache = None
      <4>1. ASSUME NEW i \in DOMAIN file PROVE file[i].seq <= Len(file) + 0
        <5>1. file[i].seq <= i /\ i <= Len(file) /\ i \in Nat /\ Len(file) \in Nat /\ file[i].seq \in Nat
          BY LinesOf DEF JournalInv, NumbersFit
        <5>. QED
          BY <5>1
      <4>. QED
        BY <1>1, <1>3, <3>2, <4>1
    <3>. QED
      BY <3>1, <3>2
  <2>2. Doomed(append'.high + 1) => Doomed(append.high + 1)'
    BY <1>1, <1>2 DEF Doomed
  <2>. QED
    BY <1>1, <1>2, <1>5, <2>1, <2>2 DEF NumbersGrow
<1>6. ASSUME client.all, FollowerKnows PROVE FollowerKnows'
  <2>1. CursorIsThere' /\ HearsTheEnd'
    BY <1>1, <1>6 DEF FollowerKnows, CursorIsThere, HearsTheEnd
  <2>2. PrintsAll'
    BY <1>1, <1>2, <1>6 DEF FollowerKnows, PrintsAll
  <2>3. \A k \in DOMAIN Slots : \A m \in DOMAIN Slots[k] : ~Landed(k, m)
    BY <1>1 DEF Landed
  <2>4. PrintsInOrder'
    BY <1>1, <1>2, <1>6, <2>3 DEF FollowerKnows, PrintsInOrder
  <2>. QED
    BY <2>1, <2>2, <2>4 DEF FollowerKnows
<1>. QED
  BY <1>1, <1>2, <1>4, <1>5, <1>6 DEF FollowerInv

\* A glued line is one of an append that knows its journal, and there is none
\* after the first line of an append.
LEMMA GluedIsKnown ==
  ASSUME JournalTypeOK, JournalInv, LinesFit, append # None
  PROVE  /\ open => append.landed = 0
         /\ Glued => open /\ cache # None /\ append.landed = 0
         /\ open /\ cache # None => Glued
<1>1. append.landed \in Nat
  BY DEF JournalTypeOK
<1>2. append.landed > 0 => ~open
  BY DEF JournalInv, LandedIsThere
<1>3. open => append.landed = 0
  BY <1>1, <1>2
<1>4. Glued <=> append.landed = 0 /\ open /\ ~append.newline
  BY DEF Glued
<1>5. cache # None => ~append.newline
  BY DEF LinesFit
<1>6. cache = None /\ append.landed = 0 => append.newline = open
  BY DEF LinesFit
<1>. QED
  BY <1>3, <1>4, <1>5, <1>6

\* The next line has a new number, or it marks the journal.
LEMMA NextNumber ==
  ASSUME JournalTypeOK, JournalInv, LinesFit, NumbersGrow, append # None,
         append.landed < Len(Batch), ~Glued
  PROVE  \/ \A i \in DOMAIN file : file[i].seq < Landing.seq
         \/ \E i \in Finished : file[i].seq = Landing.seq
<1>1. /\ append.high \in Nat /\ append.landed \in Nat
      /\ Landing.seq = append.high + append.landed + 1
  BY LandingOf
<1>2. CASE \A i \in DOMAIN file : file[i].seq <= append.high + append.landed
  <2>1. ASSUME NEW i \in DOMAIN file PROVE file[i].seq < Landing.seq
    <3>1. file[i].seq \in Nat
      BY LinesOf
    <3>. QED
      BY <1>1, <1>2, <3>1
  <2>. QED
    BY <2>1
<1>3. CASE append.landed = 0 /\ Doomed(append.high + 1)
  <2>1. ~(open /\ cache # None)
    BY GluedIsKnown
  <2>2. Landing.seq = append.high + 1
    BY <1>1, <1>3
  <2>. QED
    BY <1>3, <2>1, <2>2 DEF Doomed
<1>. QED
  BY <1>2, <1>3 DEF NumbersGrow

\* Another line behind the others: the lines before it are finished, and their
\* numbers grow, unless the journal is marked.
LEMMA BehindGrows ==
  ASSUME JournalTypeOK, JournalTypeOK', LinesFit, NumbersGrow,
         NEW l, file' = Append(file, l), Len(file') = Len(file) + 1,
         \A k \in DOMAIN file : file'[k] = file[k],
         cut \subseteq cut', ~Scarred'
  PROVE  /\ LinesStay
         /\ \A i, j \in DOMAIN file :
              i < j /\ file[i] # Unreadable /\ file[j] # Unreadable => file[i].seq < file[j].seq
<1>1. DOMAIN file = 1 .. Len(file) /\ Len(file) \in Nat
  BY LinesOf
<1>2. \A i \in DOMAIN file : i \in Finished'
  BY <1>1, FinishedAfter
<1>3. LinesStay
  BY <1>2, FinishedLines DEF LinesStay
<1>4. ASSUME NEW i \in DOMAIN file, NEW j \in DOMAIN file, i < j,
             file[i] # Unreadable, file[j] # Unreadable
      PROVE  file[i].seq < file[j].seq
  <2>1. i \in Finished
    BY <1>4, FinishedLines
  <2>2. CASE j \in Finished
    BY <1>4, <2>1, <2>2 DEF NumbersGrow
  <2>3. CASE j \notin Finished
    <3>1. open /\ j = Len(file)
      BY <2>3, FinishedLines
    <3>2. CASE \A k \in Finished : file[k].seq < file[j].seq
      BY <2>1, <3>2
    <3>3. CASE \E k \in Finished : file[k].seq = file[j].seq
      <4>1. PICK k \in Finished : file[k].seq = file[j].seq
        BY <3>3
      <4>2. k # j /\ k \in DOMAIN file
        BY <2>3, <4>1, FinishedLines
      <4>3. file[k] # Unreadable
        <5>1. file[j].seq >= 1 /\ file[j].seq \in Nat
          BY <1>4, LinesOf DEF LinesFit
        <5>. QED
          BY <4>1, <5>1, NumberIsRead
      <4>4. k \in Finished' /\ j \in Finished' /\ file'[k] = file[k] /\ file'[j] = file[j]
        BY <1>2, <4>2
      <4>. QED
        BY <1>4, <4>1, <4>2, <4>3, <4>4, TwiceScarsAfter
    <3>. QED
      BY <1>4, <3>1, <3>2, <3>3 DEF NumbersGrow
  <2>. QED
    BY <2>2, <2>3
<1>. QED
  BY <1>3, <1>4

\* A line that landed.
LEMMA LandFollower ==
  ASSUME JournalTypeOK, JournalTypeOK', JournalInv, FollowerTypeOK, FollowerInv, Land
  PROVE  FollowerInv'
<1>1. /\ append # None /\ append.landed < Len(Batch) /\ Wrote(Landing)
      /\ open' = FALSE /\ append' = [append EXCEPT !.landed = @ + 1]
      /\ cut' = IF Glued THEN cut \cup {Landing.ev} ELSE cut
      /\ emitted' = emitted /\ buffer' = buffer /\ queue' = queue /\ cache' = cache
      /\ feed' = feed /\ client' = client /\ live' = live /\ got' = got
  BY DEF Land, Wrote, FileWith, follower
<1>2. /\ append.high \in Nat /\ append.landed \in Nat
      /\ append'.high = append.high /\ append'.landed = append.landed + 1
      /\ append'.newline = append.newline /\ append' # None
  <2>1. append \in [high : Nat, newline : BOOLEAN, landed : Nat]
    BY <1>1 DEF JournalTypeOK
  <2>2. append' \in [high : Nat, newline : BOOLEAN, landed : Nat]
    BY <1>1, <2>1
  <2>. QED
    BY <1>1, <2>1, <2>2, EventLogAssumption
<1>3. /\ Landing.ev \in Nat /\ Landing.ev >= 1
      /\ Landing.seq = append.high + append.landed + 1 /\ Landing.seq >= 1
      /\ append.landed + 1 \in DOMAIN Batch /\ Landing.ev = Batch[append.landed + 1]
  <2>1. Landing.ev \in 1 .. emitted /\ emitted \in Nat
    BY <1>1, LandingOf, LinesOf
  <2>. QED
    BY <1>1, <1>2, <2>1, LandingOf
<1>4. Batch' = Batch /\ Slots' = Slots
  BY <1>1 DEF Batch, Slots
<1>5. LinesFit'
  <2>1. ASSUME NEW i \in DOMAIN file'
        PROVE  file'[i] = Unreadable \/ (file'[i].ev >= 1 /\ file'[i].seq >= 1)
    <3>1. CASE Glued
      <4>1. file' = [file EXCEPT ![Len(file)] = Unreadable]
        BY <1>1, <3>1 DEF Wrote
      <4>2. i \in DOMAIN file /\ (i # Len(file) => file'[i] = file[i]) /\ file'[Len(file)] = Unreadable
        BY <3>1, <4>1, GluedFile
      <4>. QED
        BY <4>2 DEF FollowerInv, LinesFit
    <3>2. CASE ~Glued
      <4>1. /\ DOMAIN file' = 1 .. Len(file) + 1 /\ file'[Len(file) + 1] = Landing
            /\ \A k \in DOMAIN file : file'[k] = file[k]
        BY <1>1, <3>2, WrittenBehind
      <4>2. i \in DOMAIN file \/ i = Len(file) + 1
        BY <4>1, LinesOf
      <4>. QED
        BY <1>3, <4>1, <4>2 DEF FollowerInv, LinesFit
    <3>. QED
      BY <3>1, <3>2
  <2>2. append'.landed # 0
    BY <1>2
  <2>. QED
    BY <1>1, <1>2, <2>1, <2>2 DEF FollowerInv, LinesFit
<1>6. ASSUME ~Scarred' PROVE NumbersGrow' /\ (client'.all => FollowerKnows')
  <2>1. ~Glued /\ cut' = cut
    BY <1>1, <1>6 DEF Scarred
  <2>2. /\ file' = Append(file, Landing) /\ Len(file') = Len(file) + 1
        /\ DOMAIN file' = 1 .. Len(file) + 1 /\ file'[Len(file) + 1] = Landing
        /\ \A k \in DOMAIN file : k \in DOMAIN file' /\ file'[k] = file[k]
    BY <1>1, <2>1, WrittenBehind
  <2>3. DOMAIN file = 1 .. Len(file) /\ Len(file) \in Nat /\ \A k \in DOMAIN file : file[k].seq \in Nat
    BY LinesOf
  <2>4. \/ ~Scarred => NumbersGrow /\ (client.all => FollowerKnows)
        \/ Scarred
    BY DEF FollowerInv
  <2>5. ~Scarred
    <3>1. LinesStay
      <4>1. \A i \in DOMAIN file : i \in Finished'
        BY <1>1, <2>2, <2>3, FinishedAfter
      <4>. QED
        BY <2>1, <2>2, <4>1, FinishedLines DEF LinesStay
    <3>. QED
      BY <1>6, <3>1, ScarsStay
  <2>6. LinesFit /\ NumbersGrow /\ (client.all => FollowerKnows)
    BY <2>5 DEF FollowerInv
  <2>7. \A i, j \in DOMAIN file :
          i < j /\ file[i] # Unreadable /\ file[j] # Unreadable => file[i].seq < file[j].seq
    BY <1>6, <2>1, <2>2, <2>6, BehindGrows
  <2>8. \A i \in DOMAIN file : file[i].seq < Landing.seq
    <3>1. CASE \E i \in Finished : file[i].seq = Landing.seq
      <4>1. PICK i \in Finished : file[i].seq = Landing.seq
        BY <3>1
      <4>2. i \in DOMAIN file /\ i # Len(file) + 1 /\ i \in Finished' /\ Len(file) + 1 \in Finished'
        <5>1. i \in DOMAIN file
          BY FinishedLines
        <5>2. \A x : x \in Finished' <=> x \in DOMAIN file'
          BY <1>1, FinishedAfter
        <5>3. i \in 1 .. Len(file) + 1 /\ Len(file) + 1 \in 1 .. Len(file) + 1 /\ i # Len(file) + 1
          BY <2>3, <5>1
        <5>. QED
          BY <2>2, <5>1, <5>2, <5>3
      <4>3. file'[i] # Unreadable /\ Landing # Unreadable /\ file'[i].seq = Landing.seq
        BY <1>3, <2>2, <4>1, <4>2, NumberIsRead
      <4>. QED
        BY <1>6, <2>2, <4>2, <4>3, TwiceScarsAfter
    <3>. QED
      BY <1>1, <2>1, <2>6, <3>1, NextNumber
  <2>9. NumbersGrow'
    <3>1. ASSUME NEW i \in Finished', NEW j \in Finished', i < j,
                 file'[i] # Unreadable, file'[j] # Unreadable
          PROVE  file'[i].seq < file'[j].seq
      <4>1. i \in 1 .. Len(file) + 1 /\ j \in 1 .. Len(file) + 1
        BY <2>2, FinishedAfter
      <4>2. i \in DOMAIN file /\ (j \in DOMAIN file \/ j = Len(file) + 1)
        BY <2>3, <3>1, <4>1
      <4>. QED
        BY <2>2, <2>7, <2>8, <3>1, <4>2
    <3>2. ASSUME NEW i \in DOMAIN file'
          PROVE  file'[i].seq <= append'.high + append'.landed
      <4>1. i \in DOMAIN file \/ i = Len(file) + 1
        BY <2>2, <2>3
      <4>2. CASE i \in DOMAIN file
        BY <1>2, <1>3, <2>2, <2>3, <2>8, <4>2
      <4>3. CASE i = Len(file) + 1
        BY <1>2, <1>3, <2>2, <4>3
      <4>. QED
        BY <4>1, <4>2, <4>3
    <3>. QED
      BY <1>1, <1>2, <3>1, <3>2 DEF NumbersGrow
  <2>10. ASSUME client.all PROVE FollowerKnows'
    <3>1. FollowerKnows /\ client.cursor \in Nat
      BY <2>6, <2>10, FollowerFields
    <3>2. ~(open /\ cache # None)
      BY <1>1, <2>1, <2>6, GluedIsKnown
    <3>3. client.cursor < Landing.seq
      <4>1. client.cursor = 0 \/ \E i \in DOMAIN file : file[i].seq = client.cursor
        BY <3>1, <3>2 DEF FollowerKnows, CursorIsThere
      <4>2. Landing.seq \in Nat /\ 0 < Landing.seq
        BY <1>2, <1>3
      <4>3. ASSUME NEW i \in DOMAIN file, file[i].seq = client.cursor
            PROVE  client.cursor < Landing.seq
        BY <2>8, <4>3
      <4>. QED
        BY <4>1, <4>2, <4>3
    <3>4. PrintsAll'
      <4>1. ASSUME NEW m \in 1 .. append'.landed, append'.high + m <= client.cursor
            PROVE  Batch[m] \in Range(got)
        <5>1. m # append.landed + 1
          BY <1>2, <1>3, <3>1, <3>3, <4>1
        <5>2. m \in 1 .. append.landed
          BY <1>2, <5>1
        <5>. QED
          BY <1>1, <1>2, <3>1, <4>1, <5>2 DEF FollowerKnows, PrintsAll
      <4>. QED
        BY <1>1, <1>4, <3>1, <4>1 DEF FollowerKnows, PrintsAll
    <3>5. CursorIsThere'
      BY <1>1, <2>2, <3>1, <3>2 DEF FollowerKnows, CursorIsThere
    <3>6. PrintsInOrder'
      <4>1. ASSUME NEW i \in DOMAIN got PROVE got[i] < Landing.ev
        <5>1. 1 \in DOMAIN Slots /\ Slots[1] = Batch
          BY <1>1, BatchOf DEF JournalTypeOK
        <5>2. ~Landed(1, append.landed + 1)
          BY <1>2 DEF Landed
        <5>. QED
          BY <1>3, <3>1, <5>1, <5>2 DEF FollowerKnows, PrintsInOrder
      <4>2. ASSUME NEW i \in DOMAIN got, NEW k \in DOMAIN file', file'[k].seq > client.cursor
            PROVE  got[i] < file'[k].ev
        <5>1. k \in DOMAIN file \/ k = Len(file) + 1
          BY <2>2, <2>3
        <5>. QED
          BY <2>2, <3>1, <4>1, <4>2, <5>1 DEF FollowerKnows, PrintsInOrder
      <4>3. \A k \in DOMAIN Slots : \A m \in DOMAIN Slots[k] : Landed(k, m) => Landed(k, m)'
        <5>1. ASSUME NEW k \in DOMAIN Slots, NEW m \in DOMAIN Slots[k], Landed(k, m)
              PROVE  Landed(k, m)'
          <6>1. m \in Nat
            BY EventsOfSlots
          <6>. QED
            BY <1>2, <5>1, <6>1 DEF Landed
        <5>. QED
          BY <5>1
      <4>. QED
        BY <1>1, <1>4, <3>1, <4>2, <4>3 DEF FollowerKnows, PrintsInOrder
    <3>7. HearsTheEnd'
      BY <1>1, <3>1 DEF FollowerKnows, HearsTheEnd
    <3>. QED
      BY <3>4, <3>5, <3>6, <3>7 DEF FollowerKnows
  <2>. QED
    BY <1>1, <2>9, <2>10
<1>. QED
  BY <1>5, <1>6 DEF FollowerInv

\* The lines of the slot, behind what was told or heard.
LEMMA Tells ==
  ASSUME JournalTypeOK, append # None, NEW s \in Seq([ev : 1 .. emitted, seq : Nat])
  PROVE  /\ s \o Numbered \in Seq([ev : 1 .. emitted, seq : Nat])
         /\ Len(s) \in Nat /\ Len(Batch) \in Nat /\ Len(Batch) >= 1
         /\ Len(s \o Numbered) = Len(s) + Len(Batch)
         /\ \A k \in 1 .. Len(s) : (s \o Numbered)[k] = s[k]
         /\ \A m \in 1 .. Len(Batch) :
              (s \o Numbered)[Len(s) + m] = Line(Batch[m], append.high + m)
<1>1. queue # <<>> /\ append.high \in Nat
  BY DEF JournalTypeOK
<1>2. Len(Batch) \in Nat /\ Len(Batch) >= 1 /\ \A m \in 1 .. Len(Batch) : Batch[m] \in 1 .. emitted
  BY <1>1, BatchOf
<1>3. PICK T : T = [ev : 1 .. emitted, seq : Nat]
  OBVIOUS
<1>4. \A i \in 1 .. Len(Batch) : Line(Batch[i], append.high + i) \in T
  BY <1>1, <1>2, <1>3 DEF Line
<1>5. PICK n : n = Numbered
  OBVIOUS
<1>6. n \in Seq(T) /\ Len(n) = Len(Batch) /\ \A m \in 1 .. Len(Batch) : n[m] = Line(Batch[m], append.high + m)
  BY <1>2, <1>4, <1>5 DEF Numbered
<1>7. s \in Seq(T) /\ Len(s) \in Nat
  BY <1>3
<1>8. /\ s \o n \in Seq(T) /\ Len(s \o n) = Len(s) + Len(n)
      /\ \A k \in 1 .. Len(s) : (s \o n)[k] = s[k]
      /\ \A m \in 1 .. Len(n) : (s \o n)[Len(s) + m] = n[m]
  <2>1. n \in Seq(T) /\ s \in Seq(T)
    BY <1>6, <1>7
  <2>. QED
    BY ONLY <2>1, ConcatOf
<1>. QED
  BY <1>2, <1>3, <1>5, <1>6, <1>7, <1>8

\* An append that is told: what landed becomes what was told.
LEMMA SucceedFollower ==
  ASSUME JournalTypeOK, JournalTypeOK', JournalInv, FollowerTypeOK, FollowerInv, Succeed
  PROVE  FollowerInv'
<1>1. /\ append # None /\ append.landed = Len(Batch)
      /\ cache' = [high |-> append.high + Len(Batch), newline |-> FALSE]
      /\ feed' = feed \o Numbered /\ queue' = Tail(queue) /\ append' = None
      /\ live' = IF client.at \in {"asked", "waiting"} THEN live \o Numbered ELSE live
      /\ emitted' = emitted /\ buffer' = buffer /\ file' = file /\ open' = open
      /\ client' = client /\ got' = got /\ cut' = cut
  BY DEF Succeed, disk
<1>2. queue # <<>> /\ append.high \in Nat
  BY <1>1 DEF JournalTypeOK
<1>3. cache'.high = append.high + Len(Batch) /\ cache' # None
  <2>1. Len(Batch) \in Nat
    BY <1>2, BatchOf
  <2>2. cache' \in [high : Nat, newline : {FALSE}]
    BY <1>1, <1>2, <2>1
  <2>. QED
    BY <1>1, <1>2, <2>1, <2>2, EventLogAssumption DEF JournalTypeOK
<1>4. Finished' = Finished /\ (Scarred' <=> Scarred)
  BY <1>1 DEF Finished, Scarred
<1>5. LinesFit'
  BY <1>1 DEF FollowerInv, LinesFit
<1>6. ASSUME NumbersGrow PROVE NumbersGrow'
  <2>1. append.landed # 0
    BY <1>1, <1>2, BatchOf
  <2>2. \A i \in DOMAIN file : file[i].seq <= cache'.high
    BY <1>1, <1>3, <1>6, <2>1 DEF NumbersGrow
  <2>. QED
    BY <1>1, <1>4, <1>6, <2>2 DEF NumbersGrow
<1>7. ASSUME client.all, FollowerKnows PROVE FollowerKnows'
  <2>0. PICK T : T = [ev : 1 .. emitted, seq : Nat]
    OBVIOUS
  <2>1. /\ feed' \in Seq(T) /\ Len(feed) \in Nat /\ Len(Batch) \in Nat
        /\ Len(feed') = Len(feed) + Len(Batch)
        /\ \A k \in 1 .. Len(feed) : feed'[k] = feed[k]
        /\ \A m \in 1 .. Len(Batch) : feed'[Len(feed) + m] = Line(Batch[m], append.high + m)
    BY <1>1, <2>0, LinesOf, Tells
  <2>2. DOMAIN feed' = 1 .. Len(feed) + Len(Batch) /\ DOMAIN feed = 1 .. Len(feed)
    BY <2>1, InSequence, LinesOf
  <2>3. ASSUME NEW k \in DOMAIN feed', k \notin DOMAIN feed
        PROVE  k - Len(feed) \in 1 .. Len(Batch) /\ k = Len(feed) + (k - Len(feed)) /\ k > Len(feed)
    BY <2>1, <2>2, <2>3
  <2>4. PrintsAll'
    <3>1. ASSUME NEW k \in DOMAIN feed', feed'[k].seq <= client.cursor
          PROVE  feed'[k].ev \in Range(got)
      <4>1. CASE k \in DOMAIN feed
        BY <1>7, <2>1, <2>2, <3>1, <4>1 DEF FollowerKnows, PrintsAll
      <4>2. CASE k \notin DOMAIN feed
        <5>1. PICK m \in 1 .. Len(Batch) : k = Len(feed) + m
          BY <2>3, <4>2
        <5>2. feed'[k].ev = Batch[m] /\ feed'[k].seq = append.high + m
          BY <2>1, <5>1, LineFields
        <5>. QED
          BY <1>1, <1>7, <3>1, <5>2 DEF FollowerKnows, PrintsAll
      <4>. QED
        BY <4>1, <4>2
    <3>. QED
      BY <1>1, <3>1 DEF PrintsAll
  <2>5. CursorIsThere'
    BY <1>1, <1>3, <1>7 DEF FollowerKnows, CursorIsThere
  <2>6. PrintsInOrder'
    <3>1. ASSUME NEW i \in DOMAIN got, NEW k \in DOMAIN Slots', NEW m \in DOMAIN Slots'[k]
          PROVE  got[i] < Slots'[k][m]
      <4>1. k \in Nat /\ k >= 1 /\ k + 1 \in DOMAIN Slots /\ Slots'[k] = Slots[k + 1]
        BY <1>1, <1>2, TailSlots
      <4>2. k + 1 # 1
        BY <4>1
      <4>3. ~Landed(k + 1, m)
        BY <4>2 DEF Landed
      <4>. QED
        BY <1>7, <4>1, <4>3 DEF FollowerKnows, PrintsInOrder
    <3>. QED
      BY <1>1, <1>7, <3>1 DEF FollowerKnows, PrintsInOrder
  <2>7. ASSUME client.at \in {"asked", "waiting"}
        PROVE  /\ Len(live') <= Len(feed')
               /\ \A i \in DOMAIN live' : live'[i] = feed'[Len(feed') - Len(live') + i]
               /\ client.at = "waiting" =>
                    \A i \in DOMAIN feed' : feed'[i].seq > client.cursor => i > Len(feed') - Len(live')
    <3>1. live \in Seq(T) /\ live' = live \o Numbered
      BY <1>1, <2>0, <2>7 DEF FollowerTypeOK
    <3>2. /\ live' \in Seq(T) /\ Len(live) \in Nat /\ Len(live') = Len(live) + Len(Batch)
          /\ \A k \in 1 .. Len(live) : live'[k] = live[k]
          /\ \A m \in 1 .. Len(Batch) : live'[Len(live) + m] = Line(Batch[m], append.high + m)
      BY <1>1, <2>0, <3>1, Tells
    <3>3. DOMAIN live' = 1 .. Len(live) + Len(Batch) /\ DOMAIN live = 1 .. Len(live)
      BY <3>1, <3>2, InSequence
    <3>4. /\ Len(live) <= Len(feed)
          /\ \A i \in DOMAIN live : live[i] = feed[Len(feed) - Len(live) + i]
          /\ client.at = "waiting" =>
               \A i \in DOMAIN feed : feed[i].seq > client.cursor => i > Len(feed) - Len(live)
      BY <1>7, <2>7 DEF FollowerKnows, HearsTheEnd
    <3>5. Len(feed') - Len(live') = Len(feed) - Len(live)
      BY <2>1, <3>2
    <3>6. ASSUME NEW i \in DOMAIN live'
          PROVE  live'[i] = feed'[Len(feed) - Len(live) + i]
      <4>1. CASE i \in 1 .. Len(live)
        <5>1. Len(feed) - Len(live) + i \in 1 .. Len(feed)
          BY <2>1, <3>2, <3>4, <4>1
        <5>. QED
          BY <2>1, <3>2, <3>3, <3>4, <4>1, <5>1
      <4>2. CASE i \notin 1 .. Len(live)
        <5>1. i - Len(live) \in 1 .. Len(Batch) /\ i = Len(live) + (i - Len(live))
          BY <2>1, <3>2, <3>3, <4>2
        <5>2. PICK m \in 1 .. Len(Batch) : i = Len(live) + m
          BY <5>1
        <5>3. Len(feed) - Len(live) + i = Len(feed) + m
          BY <2>1, <3>2, <5>2
        <5>. QED
          BY <2>1, <3>2, <5>2, <5>3
      <4>. QED
        BY <4>1, <4>2
    <3>7. ASSUME client.at = "waiting", NEW i \in DOMAIN feed', feed'[i].seq > client.cursor
          PROVE  i > Len(feed) - Len(live)
      <4>1. CASE i \in DOMAIN feed
        BY <2>1, <2>2, <3>4, <3>7, <4>1
      <4>2. CASE i \notin DOMAIN feed
        <5>1. i > Len(feed) /\ i \in Nat
          BY <2>1, <2>2, <2>3, <4>2
        <5>. QED
          BY <2>1, <3>2, <5>1
      <4>. QED
        BY <4>1, <4>2
    <3>8. Len(live') <= Len(feed')
      BY <2>1, <3>2, <3>4
    <3>. QED
      BY <3>5, <3>6, <3>7, <3>8
  <2>8. HearsTheEnd'
    BY <1>1, <2>7 DEF HearsTheEnd
  <2>. QED
    BY <2>4, <2>5, <2>6, <2>8 DEF FollowerKnows
<1>. QED
  BY <1>1, <1>4, <1>5, <1>6, <1>7 DEF FollowerInv

\* What a write that stops early may have done: nothing, an unfinished line
\* glued to one it did not know of, or an unfinished line behind the others.
Untouched == file' = file /\ open' = open
GluedOn ==
  /\ append # None /\ append.landed < Len(Batch) /\ Glued /\ open /\ open'
  /\ DOMAIN file' = DOMAIN file /\ Len(file') = Len(file) /\ file'[Len(file)] = Unreadable
  /\ \A k \in DOMAIN file : k # Len(file) => file'[k] = file[k]
Behind(l) ==
  /\ append # None /\ append.landed < Len(Batch) /\ ~Glued /\ open'
  /\ file' = Append(file, l) /\ Len(file') = Len(file) + 1
  /\ DOMAIN file' = 1 .. Len(file) + 1 /\ file'[Len(file) + 1] = l
  /\ \A k \in DOMAIN file : k \in DOMAIN file' /\ file'[k] = file[k]

LEMMA StoppedWays ==
  ASSUME JournalTypeOK, JournalInv, StopsWriting
  PROVE  Untouched \/ GluedOn \/ \E l \in {Unreadable, Landing} : Behind(l)
<1>1. CASE UNCHANGED disk
  BY <1>1 DEF disk, Untouched
<1>2. CASE append # None /\ append.landed < Len(Batch) /\ open' = TRUE
           /\ file' \in {FileWith(Unreadable), FileWith(Landing)}
  <2>1. PICK l \in {Unreadable, Landing} : file' = FileWith(l)
    BY <1>2
  <2>2. Wrote(l)
    BY <2>1 DEF Wrote, FileWith
  <2>3. CASE Glued
    <3>1. file' = [file EXCEPT ![Len(file)] = Unreadable]
      BY <2>1, <2>3 DEF FileWith
    <3>. QED
      BY <1>2, <2>3, <3>1, GluedFile DEF GluedOn, Glued
  <2>4. CASE ~Glued
    <3>1. Behind(l)
      BY <1>2, <2>2, <2>4, WrittenBehind DEF Behind
    <3>. QED
      BY <3>1
  <2>. QED
    BY <2>3, <2>4
<1>. QED
  BY <1>1, <1>2 DEF StopsWriting

\* The lines, without the number that the next one gets.
LinesAreFit ==
  \A i \in DOMAIN file : file[i] = Unreadable \/ (file[i].ev >= 1 /\ file[i].seq >= 1)
LinesGrow ==
  /\ \A i, j \in Finished :
       i < j /\ Unreadable \notin {file[i], file[j]} => file[i].seq < file[j].seq
  /\ open /\ file[Len(file)] # Unreadable =>
       \/ \A i \in Finished : file[i].seq < file[Len(file)].seq
       \/ \E i \in Finished : file[i].seq = file[Len(file)].seq

\* A write that stopped early left the finished lines, and another one whose
\* number is greater than theirs or taken.
LEMMA StoppedLines ==
  ASSUME JournalTypeOK, JournalTypeOK', JournalInv, FollowerInv, StopsWriting, cut' = cut
  PROVE  LinesStay /\ LinesAreFit' /\ (Scarred' \/ LinesGrow')
<1>1. LinesFit /\ (~Scarred => NumbersGrow)
  BY DEF FollowerInv
<1>2. DOMAIN file = 1 .. Len(file) /\ Len(file) \in Nat
  BY LinesOf
<1>3. CASE Untouched
  <2>1. file' = file /\ open' = open /\ Finished' = Finished /\ (Scarred' <=> Scarred)
    BY <1>3 DEF Untouched, Finished, Scarred
  <2>. QED
    BY <1>1, <2>1 DEF LinesStay, LinesAreFit, LinesGrow, LinesFit, NumbersGrow
<1>4. CASE GluedOn
  <2>1. Finished' = Finished /\ (\A i \in Finished : i \in DOMAIN file /\ file'[i] = file[i])
    <3>1. Finished' = Finished
      BY <1>4 DEF GluedOn, Finished
    <3>. QED
      BY <1>4, <3>1, FinishedLines DEF GluedOn
  <2>2. LinesStay
    BY <2>1 DEF LinesStay
  <2>3. LinesAreFit'
    <3>1. ASSUME NEW i \in DOMAIN file'
          PROVE  file'[i] = Unreadable \/ (file'[i].ev >= 1 /\ file'[i].seq >= 1)
      BY <1>1, <1>4 DEF GluedOn, LinesFit
    <3>. QED
      BY <3>1 DEF LinesAreFit
  <2>4. ASSUME ~Scarred' PROVE LinesGrow'
    <3>1. NumbersGrow
      BY <1>1, <2>2, <2>4, ScarsStay
    <3>2. file'[Len(file')] = Unreadable
      BY <1>4 DEF GluedOn
    <3>. QED
      BY <2>1, <3>1, <3>2 DEF LinesGrow, NumbersGrow
  <2>. QED
    BY <2>2, <2>3, <2>4
<1>5. CASE \E l \in {Unreadable, Landing} : Behind(l)
  <2>1. PICK l \in {Unreadable, Landing} : Behind(l)
    BY <1>5
  <2>2. /\ append # None /\ append.landed < Len(Batch) /\ ~Glued /\ open'
        /\ file' = Append(file, l) /\ Len(file') = Len(file) + 1
        /\ DOMAIN file' = 1 .. Len(file) + 1 /\ file'[Len(file) + 1] = l
        /\ \A k \in DOMAIN file : k \in DOMAIN file' /\ file'[k] = file[k]
    BY <2>1 DEF Behind
  <2>3. \A i : i \in Finished' <=> i \in DOMAIN file
    <3>1. \A i : i \in Finished' <=> i \in DOMAIN file' /\ i # Len(file')
      BY <2>2, FinishedAfter
    <3>. QED
      BY <1>2, <2>2, <3>1
  <2>4. LinesStay
    BY <2>2, <2>3, FinishedLines DEF LinesStay
  <2>5. /\ Landing.ev \in Nat /\ Landing.ev >= 1 /\ Landing.seq >= 1
        /\ Landing # Unreadable
    <3>1. Landing.ev \in 1 .. emitted /\ emitted \in Nat /\ append.high \in Nat /\ append.landed \in Nat
          /\ Landing.seq = append.high + append.landed + 1
      BY <2>2, LandingOf, LinesOf
    <3>2. Landing.seq # 0 /\ Landing.seq >= 1
      BY <3>1
    <3>. QED
      BY <3>1, <3>2, NumberIsRead
  <2>6. LinesAreFit'
    <3>1. ASSUME NEW i \in DOMAIN file'
          PROVE  file'[i] = Unreadable \/ (file'[i].ev >= 1 /\ file'[i].seq >= 1)
      <4>1. i \in DOMAIN file \/ i = Len(file) + 1
        BY <1>2, <2>2
      <4>. QED
        BY <1>1, <2>2, <2>5, <4>1 DEF LinesFit
    <3>. QED
      BY <3>1 DEF LinesAreFit
  <2>7. ASSUME ~Scarred' PROVE LinesGrow'
    <3>1. NumbersGrow
      BY <1>1, <2>4, <2>7, ScarsStay
    <3>2. \A i, j \in DOMAIN file :
            i < j /\ file[i] # Unreadable /\ file[j] # Unreadable => file[i].seq < file[j].seq
      BY <1>1, <2>2, <2>7, <3>1, BehindGrows
    <3>3. ASSUME l # Unreadable
          PROVE  \/ \A i \in Finished' : file'[i].seq < l.seq
                 \/ \E i \in Finished' : file'[i].seq = l.seq
      <4>1. l = Landing
        BY <3>3
      <4>2. \/ \A i \in DOMAIN file : file[i].seq < Landing.seq
            \/ \E i \in Finished : file[i].seq = Landing.seq
        BY <1>1, <2>2, <3>1, NextNumber
      <4>3. \A i \in Finished : i \in DOMAIN file
        BY FinishedLines
      <4>. QED
        BY <2>2, <2>3, <4>1, <4>2, <4>3
    <3>4. \A i, j \in Finished' :
            i < j /\ file'[i] # Unreadable /\ file'[j] # Unreadable => file'[i].seq < file'[j].seq
      BY <2>2, <2>3, <3>2
    <3>. QED
      BY <2>2, <3>3, <3>4 DEF LinesGrow
  <2>. QED
    BY <2>4, <2>6, <2>7
<1>. QED
  BY <1>3, <1>4, <1>5, StoppedWays

\* A crash: the next process knows only the file, and nobody follows.
LEMMA CrashFollower ==
  ASSUME JournalTypeOK, JournalTypeOK', JournalInv, FollowerInv, Crash
  PROVE  FollowerInv'
<1>1. StopsWriting /\ cache' = None /\ append' = None /\ client' = idle /\ cut' = cut
  BY DEF Crash
<1>2. LinesAreFit' /\ (Scarred' \/ LinesGrow')
  BY <1>1, StoppedLines
<1>3. LinesFit' /\ (LinesGrow' => NumbersGrow')
  BY <1>1, <1>2 DEF LinesFit, LinesAreFit, LinesGrow, NumbersGrow
<1>4. ~client'.all
  BY <1>1 DEF idle
<1>. QED
  BY <1>2, <1>3, <1>4 DEF FollowerInv

\* What was printed is older than the line that is being written.
LEMMA PrintedIsOlder ==
  ASSUME JournalTypeOK, JournalInv, PrintsInOrder, append # None, append.landed < Len(Batch)
  PROVE  \A i \in DOMAIN got : got[i] < Landing.ev
<1>1. 1 \in DOMAIN Slots /\ Slots[1] = Batch
  BY BatchOf DEF JournalTypeOK
<1>2. append.landed \in Nat /\ append.landed + 1 \in DOMAIN Batch /\ Landing.ev = Batch[append.landed + 1]
  BY LandingOf
<1>3. ~Landed(1, append.landed + 1)
  BY <1>2 DEF Landed
<1>. QED
  BY <1>1, <1>2, <1>3 DEF PrintsInOrder

\* A slot that is done with leaves the later ones unwritten.
LEMMA LaterSlots ==
  ASSUME JournalTypeOK, PrintsInOrder, queue # <<>>, queue' = Tail(queue), buffer' = buffer,
         emitted' = emitted, got' = got
  PROVE  \A i \in DOMAIN got : \A k \in DOMAIN Slots' : \A m \in DOMAIN Slots'[k] : got[i] < Slots'[k][m]
<1>1. ASSUME NEW i \in DOMAIN got, NEW k \in DOMAIN Slots', NEW m \in DOMAIN Slots'[k]
      PROVE  got[i] < Slots'[k][m]
  <2>1. k \in Nat /\ k >= 1 /\ k + 1 \in DOMAIN Slots /\ Slots'[k] = Slots[k + 1]
    BY TailSlots
  <2>2. k + 1 # 1
    BY <2>1
  <2>3. ~Landed(k + 1, m)
    BY <2>2 DEF Landed
  <2>. QED
    BY <2>1, <2>3 DEF PrintsInOrder
<1>. QED
  BY <1>1

\* A write that stopped early leaves behind the cursor only what is newer.
LEMMA StoppedIsNewer ==
  ASSUME JournalTypeOK, JournalInv, FollowerTypeOK, client.all, StopsWriting, PrintsInOrder
  PROVE  \A i \in DOMAIN got : \A k \in DOMAIN file' :
           file'[k].seq > client.cursor => got[i] < file'[k].ev
<1>1. client.cursor \in Nat
  BY FollowerFields
<1>2. Unreadable.seq = 0
  BY LineFields DEF Unreadable
<1>3. ASSUME NEW i \in DOMAIN got, NEW k \in DOMAIN file', file'[k].seq > client.cursor
      PROVE  got[i] < file'[k].ev
  <2>1. CASE k \in DOMAIN file /\ file'[k] = file[k]
    BY <1>3, <2>1 DEF PrintsInOrder
  <2>2. CASE file'[k] = Unreadable
    BY <1>1, <1>2, <1>3, <2>2
  <2>3. CASE append # None /\ append.landed < Len(Batch) /\ file'[k] = Landing
    BY <2>3, PrintedIsOlder
  <2>4. CASE Untouched
    BY <2>1, <2>4 DEF Untouched
  <2>5. CASE GluedOn
    BY <2>1, <2>2, <2>5 DEF GluedOn
  <2>6. CASE \E l \in {Unreadable, Landing} : Behind(l)
    <3>1. PICK l \in {Unreadable, Landing} : Behind(l)
      BY <2>6
    <3>2. k \in DOMAIN file \/ k = Len(file) + 1
      <4>1. DOMAIN file = 1 .. Len(file) /\ Len(file) \in Nat
        BY LinesOf
      <4>2. DOMAIN file' = 1 .. Len(file) + 1
        BY <3>1 DEF Behind
      <4>. QED
        BY <4>1, <4>2
    <3>. QED
      BY <2>1, <2>2, <2>3, <3>1, <3>2 DEF Behind
  <2>. QED
    BY <2>4, <2>5, <2>6, StoppedWays
<1>. QED
  BY <1>3

\* An append that fails: the next number is free, or the next line is a mark.
LEMMA FailFollower ==
  ASSUME JournalTypeOK, JournalTypeOK', JournalInv, FollowerTypeOK, FollowerInv, Fail
  PROVE  FollowerInv'
<1>1. /\ append # None /\ StopsWriting /\ queue' = Tail(queue) /\ append' = None
      /\ emitted' = emitted /\ buffer' = buffer /\ cache' = cache /\ feed' = feed
      /\ client' = client /\ live' = live /\ got' = got /\ cut' = cut
  BY DEF Fail, follower
<1>2. queue # <<>> /\ LinesFit
  BY <1>1 DEF JournalTypeOK, FollowerInv
<1>3. LinesStay /\ LinesAreFit' /\ (Scarred' \/ LinesGrow')
  BY <1>1, StoppedLines
<1>4. Untouched \/ open'
  BY <1>1, StoppedWays DEF GluedOn, Behind
<1>5. LinesFit'
  BY <1>1, <1>3 DEF LinesFit, LinesAreFit
<1>6. ASSUME ~Scarred'
      PROVE  NumbersGrow' /\ (client'.all => FollowerKnows')
  <2>1. ~Scarred /\ NumbersGrow /\ (client.all => FollowerKnows)
    BY <1>3, <1>6, ScarsStay DEF FollowerInv
  <2>2. ASSUME cache # None
        PROVE  (\A i \in DOMAIN file' : file'[i].seq <= cache.high) \/ Doomed(cache.high + 1)'
    <3>1. CASE open'
      BY <1>1, <2>2, <3>1 DEF Doomed
    <3>2. CASE ~open'
      <4>1. file' = file /\ ~open /\ Finished' = Finished
        <5>1. file' = file /\ open' = open
          BY <1>4, <3>2 DEF Untouched
        <5>. QED
          BY <3>2, <5>1 DEF Finished
      <4>2. append.high = cache.high /\ append.landed \in Nat /\ append.high \in Nat
        BY <1>1, <1>2, <2>2 DEF LinesFit, JournalTypeOK
      <4>3. CASE append.landed = 0 /\ Doomed(append.high + 1)
        <5>1. \E i \in Finished : file[i].seq = cache.high + 1
          BY <4>1, <4>2, <4>3 DEF Doomed
        <5>. QED
          BY <1>1, <4>1, <5>1 DEF Doomed
      <4>4. CASE \A i \in DOMAIN file : file[i].seq <= append.high + append.landed
        <5>1. CASE append.landed = 0
          <6>1. append.high + append.landed = cache.high
            BY <4>2, <5>1
          <6>. QED
            BY <4>1, <4>4, <6>1
        <5>2. CASE append.landed # 0
          <6>1. 1 \in 1 .. append.landed
            BY <4>2, <5>2
          <6>2. Line(Batch[1], append.high + 1) \in Range(file)
            BY <1>1, <2>1, <6>1 DEF JournalInv, LandedIsThere, Scarred
          <6>3. PICK i \in DOMAIN file : file[i] = Line(Batch[1], append.high + 1)
            BY <6>2 DEF Range
          <6>4. i \in Finished
            BY <4>1, FinishedLines
          <6>5. file[i].seq = cache.high + 1
            BY <4>2, <6>3, LineFields
          <6>. QED
            BY <1>1, <4>1, <6>4, <6>5 DEF Doomed
        <5>. QED
          BY <5>1, <5>2
      <4>. QED
        BY <1>1, <2>1, <4>3, <4>4 DEF NumbersGrow
    <3>. QED
      BY <3>1, <3>2
  <2>3. NumbersGrow'
    <3>1. LinesGrow'
      BY <1>3, <1>6
    <3>. QED
      BY <1>1, <2>2, <3>1 DEF NumbersGrow, LinesGrow
  <2>4. ASSUME client.all PROVE FollowerKnows'
    <3>0. FollowerKnows
      BY <2>1, <2>4
    <3>1. PrintsAll' /\ HearsTheEnd'
      BY <1>1, <3>0 DEF FollowerKnows, PrintsAll, HearsTheEnd
    <3>2. CursorIsThere'
      <4>1. CASE Untouched
        BY <1>1, <3>0, <4>1 DEF Untouched, FollowerKnows, CursorIsThere
      <4>2. CASE open' /\ cache # None
        BY <1>1, <4>2 DEF CursorIsThere
      <4>3. CASE GluedOn
        <5>1. cache # None /\ open'
          BY <1>1, <1>2, <4>3, GluedIsKnown DEF GluedOn
        <5>. QED
          BY <4>2, <5>1
      <4>4. CASE \E l \in {Unreadable, Landing} : Behind(l)
        BY <1>1, <3>0, <4>2, <4>4 DEF Behind, FollowerKnows, CursorIsThere
      <4>. QED
        BY <1>1, <4>1, <4>3, <4>4, StoppedWays
    <3>3. PrintsInOrder'
      <4>1. PrintsInOrder
        BY <3>0 DEF FollowerKnows
      <4>2. \A i \in DOMAIN got : \A k \in DOMAIN file' :
              file'[k].seq > client.cursor => got[i] < file'[k].ev
        BY <1>1, <2>4, <4>1, StoppedIsNewer
      <4>3. \A i \in DOMAIN got : \A k \in DOMAIN Slots' : \A m \in DOMAIN Slots'[k] : got[i] < Slots'[k][m]
        BY <1>1, <1>2, <4>1, LaterSlots
      <4>. QED
        BY <1>1, <4>1, <4>2, <4>3 DEF PrintsInOrder
    <3>. QED
      BY <3>1, <3>2, <3>3 DEF FollowerKnows
  <2>. QED
    BY <1>1, <2>3, <2>4
<1>. QED
  BY <1>5, <1>6 DEF FollowerInv

\* That the run settles is nothing to the follower's numbers.
LEMMA SettleFollower ==
  ASSUME FollowerInv, UNCHANGED <<emitted, buffer, queue, cache, append, disk, feed, cut>>,
         UNCHANGED follower
  PROVE  FollowerInv'
<1>1. /\ buffer' = buffer /\ queue' = queue /\ cache' = cache /\ append' = append
      /\ file' = file /\ open' = open /\ feed' = feed /\ cut' = cut
      /\ client' = client /\ live' = live /\ got' = got
  BY DEF disk, follower
<1>2. Batch' = Batch /\ Slots' = Slots /\ Finished' = Finished /\ (Scarred' <=> Scarred)
  BY <1>1 DEF Batch, Slots, Finished, Scarred
<1>3. LinesFit' /\ (NumbersGrow => NumbersGrow')
  BY <1>1, <1>2 DEF FollowerInv, LinesFit, NumbersGrow, Doomed
<1>4. FollowerKnows => FollowerKnows'
  BY <1>1, <1>2 DEF FollowerKnows, PrintsAll, CursorIsThere, PrintsInOrder, HearsTheEnd, Landed
<1>. QED
  BY <1>1, <1>2, <1>3, <1>4 DEF FollowerInv

-----------------------------------------------------------------------------
(* Pages *)

\* A set of numbers that is not empty and has a bound has a greatest one.
LEMMA GreatestNumber ==
  ASSUME NEW S, S \subseteq Nat, S # {}, NEW b \in Nat, \A x \in S : x <= b
  PROVE  Max(S) \in S /\ \A x \in S : Max(S) >= x
<1>. DEFINE R == {b - x : x \in S}
<1>1. R \subseteq Nat /\ R # {}
  <2>1. \A x \in S : b - x \in Nat
    OBVIOUS
  <2>2. PICK x \in S : TRUE
    OBVIOUS
  <2>. QED
    BY <2>1, <2>2
<1>2. PICK r \in R : \A y \in R : r <= y
  <2>. HIDE DEF R
  <2>. QED
    BY <1>1, LeastNumber
<1>3. PICK x \in S : r = b - x
  OBVIOUS
<1>4. ASSUME NEW y \in S PROVE x >= y
  <2>1. b - y \in R
    OBVIOUS
  <2>2. b - x <= b - y /\ x \in Nat /\ y \in Nat
    BY <1>2, <1>3, <2>1
  <2>. QED
    BY <2>2
<1>. QED
  BY <1>4 DEF Max

\* The answer shows the first m of these events, and takes the cursor to the
\* greatest of their numbers.
ShowsOnly(events, m) ==
  /\ m \in 1 .. Len(events) /\ Len(events) \in Nat
  /\ Page(events) \in Seq(Range(events)) /\ DOMAIN Page(events) = 1 .. m
  /\ \A i \in 1 .. m : Page(events)[i] = events[i]
  /\ CursorAfter(events) \in Nat /\ CursorAfter(events) >= client.cursor
  /\ \A i \in 1 .. m : events[i].seq <= CursorAfter(events)
  /\ CursorAfter(events) = client.cursor \/ \E i \in 1 .. m : CursorAfter(events) = events[i].seq

\* The numbers of a sequence have a bound.
LEMMA NumbersBounded ==
  ASSUME NEW T, NEW s \in Seq(T), \A i \in DOMAIN s : s[i].seq \in Nat
  PROVE  \E b \in Nat : \A i \in DOMAIN s : s[i].seq <= b
<1>. DEFINE U == {k \in 0 .. Len(s) : \E b \in Nat : \A i \in 1 .. k : s[i].seq <= b}
<1>1. Len(s) \in Nat /\ DOMAIN s = 1 .. Len(s)
  OBVIOUS
<1>2. 0 \in U
  BY <1>1
<1>3. ASSUME NEW k \in 0 .. Len(s) - 1, k \in U PROVE k + 1 \in U
  <2>1. PICK b \in Nat : \A i \in 1 .. k : s[i].seq <= b
    BY <1>3
  <2>2. k + 1 \in 1 .. Len(s) /\ s[k + 1].seq \in Nat
    BY <1>1
  <2>3. b + s[k + 1].seq \in Nat /\ \A i \in 1 .. k + 1 : s[i].seq <= b + s[k + 1].seq
    <3>1. ASSUME NEW i \in 1 .. k + 1 PROVE s[i].seq <= b + s[k + 1].seq
      <4>1. i = k + 1 \/ i \in 1 .. k
        BY <1>1
      <4>2. s[i].seq \in Nat
        BY <1>1, <2>2
      <4>. QED
        BY <2>1, <2>2, <4>1, <4>2
    <3>. QED
      BY <2>2, <3>1
  <2>4. \E c \in Nat : \A i \in 1 .. k + 1 : s[i].seq <= c
    BY <2>3
  <2>5. k + 1 \in 0 .. Len(s)
    BY <1>1
  <2>. QED
    BY <2>4, <2>5
<1>. HIDE DEF U
<1>4. \A k \in 0 .. Len(s) : k \in U
  BY <1>1, <1>2, <1>3, UpTo
<1>5. Len(s) \in U
  BY <1>1, <1>4
<1>. QED
  BY <1>1, <1>5 DEF U

LEMMA PageOf ==
  ASSUME client.cursor \in Nat, NEW T, NEW events \in Seq(T), events # <<>>,
         \A i \in DOMAIN events : events[i].seq \in Nat
  PROVE  \E m : ShowsOnly(events, m)
<1>b. PICK b \in Nat : \A i \in DOMAIN events : events[i].seq <= b
  BY NumbersBounded
<1>. DEFINE m == Min({MaxBatch, Len(events)})
<1>1. MaxBatch \in Nat /\ MaxBatch >= 1 /\ Len(events) \in Nat /\ Len(events) >= 1
  BY EventLogAssumption
<1>2. m \in 1 .. Len(events)
  <2>1. \E x \in {MaxBatch, Len(events)} : \A y \in {MaxBatch, Len(events)} : x <= y
    BY <1>1
  <2>2. m \in {MaxBatch, Len(events)} /\ \A y \in {MaxBatch, Len(events)} : m <= y
    BY <2>1 DEF Min
  <2>. QED
    BY <1>1, <2>2
<1>3. Page(events) = SubSeq(events, 1, m)
  BY DEF Page
<1>. HIDE DEF m
<1>4. events \in Seq(Range(events)) /\ DOMAIN events = 1 .. Len(events)
  BY DEF Range
<1>5. /\ Page(events) \in Seq(Range(events)) /\ DOMAIN Page(events) = 1 .. m
      /\ \A i \in 1 .. m : Page(events)[i] = events[i]
  BY <1>1, <1>2, <1>3, <1>4
<1>. DEFINE S == {client.cursor} \cup {Page(events)[i].seq : i \in DOMAIN Page(events)}
<1>6. CursorAfter(events) = Max(S)
  BY DEF CursorAfter
<1>7. S = {client.cursor} \cup {events[i].seq : i \in 1 .. m}
  BY <1>5
<1>8. S \subseteq Nat /\ S # {} /\ \A x \in S : x <= b + client.cursor
  <2>1. \A i \in 1 .. m : events[i].seq \in Nat /\ events[i].seq <= b + client.cursor
    <3>1. ASSUME NEW i \in 1 .. m PROVE events[i].seq \in Nat /\ events[i].seq <= b + client.cursor
      <4>1. i \in DOMAIN events
        BY <1>1, <1>2, <1>4
      <4>. QED
        BY <1>b, <4>1
    <3>. QED
      BY <3>1
  <2>2. client.cursor <= b + client.cursor
    OBVIOUS
  <2>. HIDE DEF S
  <2>. QED
    BY <1>7, <2>1, <2>2
<1>. HIDE DEF S
<1>9. b + client.cursor \in Nat
  OBVIOUS
<1>10. Max(S) \in S /\ \A x \in S : Max(S) >= x
  BY <1>8, <1>9, GreatestNumber
<1>11. ShowsOnly(events, m)
  <2>1. CursorAfter(events) \in Nat /\ CursorAfter(events) >= client.cursor
    BY <1>6, <1>7, <1>8, <1>10
  <2>2. \A i \in 1 .. m : events[i].seq <= CursorAfter(events)
    <3>1. ASSUME NEW i \in 1 .. m PROVE events[i].seq <= CursorAfter(events)
      <4>1. events[i].seq \in S
        BY <1>7
      <4>. QED
        BY <1>6, <1>8, <1>10, <4>1
    <3>. QED
      BY <3>1
  <2>3. CursorAfter(events) = client.cursor \/ \E i \in 1 .. m : CursorAfter(events) = events[i].seq
    BY <1>6, <1>7, <1>10
  <2>. QED
    BY <1>1, <1>2, <1>5, <2>1, <2>2, <2>3 DEF ShowsOnly
<1>. QED
  BY <1>11

\* A selection of a selection.
LEMMA EmbedsTwice ==
  ASSUME NEW s, NEW r, NEW q, NEW S, NEW U, NEW p, NEW o, S \subseteq Nat, DOMAIN r \subseteq Nat,
         Embeds(p, r, s, S), U \subseteq DOMAIN r, Embeds(o, q, r, U), DOMAIN q \subseteq Nat,
         NEW V, \A x : x \in V <=> x \in S /\ \E i \in U : p[i] = x
  PROVE  \E a : Embeds(a, q, s, V)
<1>. DEFINE a == [k \in DOMAIN q |-> p[o[k]]]
<1>1. \A k \in DOMAIN q : o[k] \in U /\ o[k] \in DOMAIN r /\ p[o[k]] \in S /\ q[k] = r[o[k]]
  BY DEF Embeds
<1>2. a \in [DOMAIN q -> V]
  BY <1>1
<1>3. \A i, j \in DOMAIN q : i < j => a[i] < a[j]
  BY <1>1 DEF Embeds
<1>4. \A x \in V : \E k \in DOMAIN q : a[k] = x
  BY <1>1 DEF Embeds
<1>5. \A k \in DOMAIN q : q[k] = s[a[k]]
  BY <1>1 DEF Embeds
<1>. HIDE DEF a
<1>6. Embeds(a, q, s, V)
  BY <1>2, <1>3, <1>4, <1>5 DEF Embeds
<1>. QED
  BY <1>6

\* What is in the journal beyond the cursor, in its order.
LEMMA NewEvents ==
  ASSUME JournalTypeOK, client.cursor \in Nat
  PROVE  /\ Beyond(Readable(file)) \in Seq([ev : 0 .. emitted, seq : Nat])
         /\ \E a : Embeds(a, Beyond(Readable(file)), file,
                          {x \in DOMAIN file : file[x].seq > client.cursor})
<1>1. PICK T : T = [ev : 0 .. emitted, seq : Nat]
  OBVIOUS
<1>. DEFINE S == {i \in DOMAIN file : file[i] # Unreadable}
            r == Readable(file)
            U == {i \in DOMAIN r : r[i].seq > client.cursor}
            q == Beyond(r)
            V == {x \in DOMAIN file : file[x].seq > client.cursor}
<1>2. file \in Seq(T) /\ DOMAIN file = 1 .. Len(file) /\ Len(file) \in Nat
  BY <1>1, LinesOf
<1>3. r = Selected(file, S) /\ q = Selected(r, U) /\ S \subseteq DOMAIN file /\ U \subseteq DOMAIN r
  BY DEF Readable, Beyond
<1>4. \A x \in DOMAIN file : file[x].seq > client.cursor => x \in S
  <2>1. \A x \in DOMAIN file : file[x].seq > client.cursor => file[x].seq # 0
    BY LinesOf
  <2>. QED
    BY <2>1, NumberIsRead
<1>. HIDE DEF S, r, q
<1>5. r \in Seq(T) /\ \E p : Embeds(p, r, file, S)
  BY <1>2, <1>3, SelectedEmbeds
<1>6. PICK p : Embeds(p, r, file, S)
  BY <1>5
<1>u. \A i : i \in U <=> i \in DOMAIN r /\ r[i].seq > client.cursor
  OBVIOUS
<1>v. \A x : x \in V <=> x \in DOMAIN file /\ file[x].seq > client.cursor
  OBVIOUS
<1>. HIDE DEF U, V
<1>7. q \in Seq(T) /\ \E o : Embeds(o, q, r, U)
  BY <1>3, <1>5, SelectedEmbeds
<1>8. PICK o : Embeds(o, q, r, U)
  BY <1>7
<1>9. S \subseteq Nat /\ DOMAIN r \subseteq Nat /\ DOMAIN q \subseteq Nat
  BY <1>2, <1>3, <1>5, <1>7, InSequence
<1>10. \A x : x \in V <=> x \in S /\ \E i \in U : p[i] = x
  <2>1. ASSUME NEW x \in S, NEW i \in U, p[i] = x PROVE x \in V
    BY <1>u, <1>v, <1>3, <1>6, <2>1 DEF Embeds
  <2>2. ASSUME NEW x \in V PROVE x \in S /\ \E i \in U : p[i] = x
    <3>1. x \in S
      BY <1>v, <1>4, <2>2
    <3>2. PICK i \in DOMAIN r : p[i] = x /\ r[i] = file[x]
      BY <1>6, <3>1 DEF Embeds
    <3>. QED
      BY <1>u, <1>v, <2>2, <3>1, <3>2
  <2>. QED
    BY <2>1, <2>2
<1>11. \E a : Embeds(a, q, file, V)
  BY ONLY <1>3, <1>6, <1>8, <1>9, <1>10, EmbedsTwice
<1>. QED
  BY <1>1, <1>7, <1>11 DEF q, r, V

\* What a call that waits has heard beyond the cursor is what was told beyond it.
LEMMA HeardEvents ==
  ASSUME JournalTypeOK, client.cursor \in Nat, live \in Seq([ev : 1 .. emitted, seq : Nat]),
         HearsTheEnd, client.at = "waiting"
  PROVE  /\ Beyond(live) \in Seq([ev : 1 .. emitted, seq : Nat])
         /\ \E a : Embeds(a, Beyond(live), feed, {x \in DOMAIN feed : feed[x].seq > client.cursor})
<1>1. PICK T : T = [ev : 1 .. emitted, seq : Nat]
  OBVIOUS
<1>. DEFINE U == {i \in DOMAIN live : live[i].seq > client.cursor}
            V == {x \in DOMAIN feed : feed[x].seq > client.cursor}
            q == Beyond(live)
<1>2. live \in Seq(T) /\ Len(live) \in Nat /\ DOMAIN live = 1 .. Len(live)
  BY <1>1, InSequence
<1>3. feed \in Seq(T) /\ Len(feed) \in Nat /\ DOMAIN feed = 1 .. Len(feed)
  BY <1>1, LinesOf, InSequence
<1>4. q = Selected(live, U) /\ U \subseteq DOMAIN live
  BY DEF Beyond
<1>u. \A i : i \in U <=> i \in DOMAIN live /\ live[i].seq > client.cursor
  OBVIOUS
<1>v. \A x : x \in V <=> x \in DOMAIN feed /\ feed[x].seq > client.cursor
  OBVIOUS
<1>. HIDE DEF q, U, V
<1>5. q \in Seq(T) /\ \E o : Embeds(o, q, live, U)
  BY <1>2, <1>4, SelectedEmbeds
<1>6. PICK o : Embeds(o, q, live, U)
  BY <1>5
<1>7. PICK d \in Nat : /\ d = Len(feed) - Len(live)
                       /\ \A i \in DOMAIN live : live[i] = feed[d + i]
                       /\ \A i \in DOMAIN feed : feed[i].seq > client.cursor => i > d
  <2>1. Len(live) <= Len(feed)
    BY DEF HearsTheEnd
  <2>2. Len(feed) - Len(live) \in Nat
    BY <1>2, <1>3, <2>1
  <2>. QED
    BY <2>2 DEF HearsTheEnd
<1>. DEFINE a == [k \in DOMAIN q |-> d + o[k]]
<1>8. \A k \in DOMAIN q : o[k] \in DOMAIN live /\ o[k] \in Nat /\ o[k] \in U /\ q[k] = live[o[k]]
  BY <1>2, <1>4, <1>6 DEF Embeds
<1>9. \A i \in DOMAIN live : d + i \in DOMAIN feed
  BY <1>2, <1>3, <1>7
<1>10. \A k \in DOMAIN q : a[k] \in V /\ q[k] = feed[a[k]]
  BY <1>u, <1>v, <1>7, <1>8, <1>9
<1>11. \A i, j \in DOMAIN q : i < j => a[i] < a[j]
  BY <1>6, <1>8 DEF Embeds
<1>12. ASSUME NEW x \in V PROVE \E i \in DOMAIN q : a[i] = x
  <2>1. x \in DOMAIN feed /\ feed[x].seq > client.cursor /\ x > d
    BY <1>v, <1>7
  <2>2. x - d \in DOMAIN live /\ d + (x - d) = x
    BY <1>2, <1>3, <1>7, <2>1
  <2>3. x - d \in U
    BY <1>u, <1>7, <2>1, <2>2
  <2>4. PICK i \in DOMAIN q : o[i] = x - d
    BY <1>6, <2>3 DEF Embeds
  <2>. QED
    BY <2>2, <2>4
<1>13. a \in [DOMAIN q -> V]
  BY <1>10
<1>14. Embeds(a, q, feed, V)
  <2>. HIDE DEF a
  <2>. QED
    BY <1>10, <1>11, <1>12, <1>13 DEF Embeds
<1>15. \E b : Embeds(b, q, feed, V)
  BY <1>14
<1>. QED
  BY <1>1, <1>5, <1>15 DEF q, V

\* Without a mark, what was told is on a finished line,
LEMMA ToldLines ==
  ASSUME JournalTypeOK, JournalInv, cut = {}
  PROVE  \A i \in DOMAIN feed : \E k \in Finished : file[k] = feed[i]
<1>1. ASSUME NEW i \in DOMAIN feed PROVE \E k \in Finished : file[k] = feed[i]
  <2>1. feed[i] \in Range(file)
    BY DEF JournalInv, JournalHoldsTheFeed
  <2>2. PICK k \in DOMAIN file : file[k] = feed[i]
    BY <2>1 DEF Range
  <2>3. open => k # Len(file)
    BY <2>2 DEF JournalInv, LandedIsThere
  <2>. QED
    BY <2>2, <2>3, FinishedLines
<1>. QED
  BY <1>1

\* and so is what landed.
LEMMA LandedLines ==
  ASSUME JournalTypeOK, JournalInv, cut = {}, append # None
  PROVE  \A m \in 1 .. append.landed :
           \E k \in Finished : file[k].ev = Batch[m] /\ file[k].seq = append.high + m
<1>1. ASSUME NEW m \in 1 .. append.landed
      PROVE  \E k \in Finished : file[k].ev = Batch[m] /\ file[k].seq = append.high + m
  <2>1. append.landed \in Nat
    BY DEF JournalTypeOK
  <2>2. ~open
    BY <2>1 DEF JournalInv, LandedIsThere
  <2>3. Line(Batch[m], append.high + m) \in Range(file)
    BY DEF JournalInv, LandedIsThere
  <2>4. PICK k \in DOMAIN file : file[k] = Line(Batch[m], append.high + m)
    BY <2>3 DEF Range
  <2>. QED
    BY <2>2, <2>4, LineFields, FinishedLines
<1>. QED
  BY <1>1

\* A page q that takes the cursor to c: it is of the lines beyond the cursor, in
\* order; of what was told and landed it holds all up to c; and the lines beyond
\* c are newer.
PageFits(q, c) ==
  /\ \A i \in DOMAIN q : q[i] \in Range(file) /\ q[i].seq > client.cursor
  /\ \A i, j \in DOMAIN q : i < j => q[i].ev < q[j].ev
  /\ \A k \in DOMAIN feed :
       feed[k].seq > client.cursor /\ feed[k].seq <= c => \E i \in DOMAIN q : q[i].ev = feed[k].ev
  /\ append # None =>
       \A m \in 1 .. append.landed :
         append.high + m > client.cursor /\ append.high + m <= c =>
           \E i \in DOMAIN q : q[i].ev = Batch[m]
  /\ \A k \in DOMAIN file : file[k].seq > c => \A i \in DOMAIN q : q[i].ev < file[k].ev
  /\ \E i \in DOMAIN q : q[i].seq = c

\* The lines of the file are in order.
LEMMA NumberedLines ==
  ASSUME JournalTypeOK, JournalInv, NEW i \in DOMAIN file, NEW j \in DOMAIN file, i < j,
         file[i].seq # 0, file[j].seq # 0
  PROVE  /\ file[i].ev < file[j].ev
         /\ i \in Finished
         /\ NumbersGrow /\ j \in Finished => file[i].seq < file[j].seq
<1>1. file[i] # Unreadable /\ file[j] # Unreadable
  BY NumberIsRead
<1>2. i \in Finished
  BY FinishedLines
<1>. QED
  BY <1>1, <1>2 DEF JournalInv, JournalHoldsTheFeed, NumbersGrow

\* An answer from the journal.
LEMMA ReadPage ==
  ASSUME JournalTypeOK, JournalInv, NumbersGrow, cut = {}, client.cursor \in Nat,
         NEW events, NEW a, Embeds(a, events, file, {x \in DOMAIN file : file[x].seq > client.cursor}),
         DOMAIN events = 1 .. Len(events), NEW m, ShowsOnly(events, m)
  PROVE  PageFits(Page(events), CursorAfter(events))
<1>. DEFINE S == {x \in DOMAIN file : file[x].seq > client.cursor}
<1>s. \A x : x \in S <=> x \in DOMAIN file /\ file[x].seq > client.cursor
  OBVIOUS
<1>t. Embeds(a, events, file, S)
  OBVIOUS
<1>. HIDE DEF S
<1>1. PICK q, c : q = Page(events) /\ c = CursorAfter(events)
  OBVIOUS
<1>2. /\ m \in Nat /\ m >= 1 /\ Len(events) \in Nat /\ m <= Len(events)
      /\ DOMAIN q = 1 .. m /\ \A i \in 1 .. m : i \in DOMAIN events /\ q[i] = events[i]
      /\ c \in Nat /\ c >= client.cursor /\ \A i \in 1 .. m : events[i].seq <= c
      /\ c = client.cursor \/ \E i \in 1 .. m : c = events[i].seq
  <2>1. m \in 1 .. Len(events) /\ Len(events) \in Nat
    BY <1>1 DEF ShowsOnly
  <2>2. m \in Nat /\ m >= 1 /\ m <= Len(events) /\ \A i \in 1 .. m : i \in DOMAIN events
    BY <2>1
  <2>. QED
    BY <1>1, <2>1, <2>2 DEF ShowsOnly
<1>3. DOMAIN file = 1 .. Len(file) /\ Len(file) \in Nat /\ \A x \in DOMAIN file : file[x].seq \in Nat
  BY LinesOf
<1>4. \A i \in DOMAIN events : /\ a[i] \in DOMAIN file /\ a[i] \in Nat /\ events[i] = file[a[i]]
                               /\ file[a[i]].seq > client.cursor /\ file[a[i]].seq # 0
  <2>1. \A i \in DOMAIN events : a[i] \in S /\ events[i] = file[a[i]]
    BY <1>t DEF Embeds
  <2>2. \A x \in S : x \in DOMAIN file /\ x \in Nat /\ file[x].seq > client.cursor /\ file[x].seq # 0
    BY <1>s, <1>3
  <2>. QED
    BY <2>1, <2>2
<1>5. \A i, j \in DOMAIN events : i < j => a[i] < a[j]
  BY <1>t DEF Embeds
<1>6. \A x \in DOMAIN file : file[x].seq > client.cursor => \E i \in DOMAIN events : a[i] = x
  BY <1>s, <1>t DEF Embeds
<1>7. \A i \in 1 .. m : q[i] = file[a[i]] /\ q[i].seq \in Nat /\ q[i].seq > client.cursor /\ q[i].seq <= c
  <2>. SUFFICES ASSUME NEW i \in 1 .. m
                PROVE  q[i] = file[a[i]] /\ q[i].seq \in Nat /\ q[i].seq > client.cursor /\ q[i].seq <= c
    OBVIOUS
  <2>1. i \in DOMAIN events /\ q[i] = events[i] /\ events[i].seq <= c
    BY <1>2
  <2>2. events[i] = file[a[i]] /\ a[i] \in DOMAIN file /\ file[a[i]].seq > client.cursor
    BY <1>4, <2>1
  <2>3. file[a[i]].seq \in Nat
    BY <1>3, <2>2
  <2>. QED
    BY <2>1, <2>2, <2>3
<1>8. \E i \in 1 .. m : q[i].seq = c
  <2>1. 1 \in 1 .. m
    BY <1>2
  <2>2. c # client.cursor
    BY <1>2, <1>7, <2>1
  <2>. QED
    BY <1>2, <2>2
<1>9. ASSUME NEW x \in DOMAIN file, file[x].seq > client.cursor
      PROVE  \/ \E i \in 1 .. m : q[i] = file[x]
             \/ \A i \in 1 .. m : a[i] < x
  <2>1. PICK i \in DOMAIN events : a[i] = x
    BY <1>6, <1>9
  <2>2. CASE i <= m
    <3>1. i \in 1 .. m
      BY <1>2, <2>2
    <3>. QED
      BY <1>7, <2>1, <3>1
  <2>3. CASE ~(i <= m)
    <3>1. \A j \in 1 .. m : j < i
      BY <1>2, <2>3
    <3>. QED
      BY <1>2, <1>5, <2>1, <3>1
  <2>. QED
    BY <2>2, <2>3
<1>10. \A i, j \in 1 .. m : i < j => q[i].ev < q[j].ev
  <2>1. ASSUME NEW i \in 1 .. m, NEW j \in 1 .. m, i < j PROVE q[i].ev < q[j].ev
    <3>1. a[i] < a[j]
      BY <1>2, <1>5, <2>1
    <3>. QED
      BY <1>2, <1>4, <1>7, <3>1, NumberedLines
  <2>. QED
    BY <2>1
<1>11. ASSUME NEW x \in Finished, file[x].seq > client.cursor, file[x].seq <= c
       PROVE  \E i \in 1 .. m : q[i] = file[x]
  <2>1. x \in DOMAIN file /\ file[x].seq # 0
    BY <1>3, <1>11, FinishedLines
  <2>2. CASE \A i \in 1 .. m : a[i] < x
    <3>1. PICK i \in 1 .. m : q[i].seq = c
      BY <1>8
    <3>2. file[a[i]].seq < file[x].seq
      BY <1>2, <1>4, <1>11, <2>1, <2>2, NumberedLines
    <3>. QED
      BY <1>2, <1>3, <1>7, <1>11, <2>1, <3>1, <3>2
  <2>. QED
    BY <1>9, <1>11, <2>1, <2>2
<1>12. ASSUME NEW x \in DOMAIN file, file[x].seq > c, NEW i \in 1 .. m
       PROVE  q[i].ev < file[x].ev
  <2>1. file[x].seq > client.cursor /\ file[x].seq # 0
    BY <1>2, <1>3, <1>12
  <2>2. ~ \E j \in 1 .. m : q[j] = file[x]
    BY <1>2, <1>3, <1>7, <1>12
  <2>3. a[i] < x
    BY <1>9, <2>1, <2>2
  <2>. QED
    BY <1>2, <1>4, <1>7, <2>1, <2>3, NumberedLines
<1>13. \A i \in 1 .. m : q[i] \in Range(file)
  BY <1>2, <1>4, <1>7 DEF Range
<1>14. ASSUME NEW k \in DOMAIN feed, feed[k].seq > client.cursor, feed[k].seq <= c
       PROVE  \E i \in 1 .. m : q[i].ev = feed[k].ev
  <2>1. PICK x \in Finished : file[x] = feed[k]
    BY ToldLines
  <2>. QED
    BY <1>11, <1>14, <2>1
<1>15. ASSUME append # None, NEW l \in 1 .. append.landed,
              append.high + l > client.cursor, append.high + l <= c
       PROVE  \E i \in 1 .. m : q[i].ev = Batch[l]
  <2>1. PICK x \in Finished : file[x].ev = Batch[l] /\ file[x].seq = append.high + l
    BY <1>15, LandedLines
  <2>. QED
    BY <1>11, <1>15, <2>1
<1>16. PageFits(q, c)
  BY <1>2, <1>7, <1>8, <1>10, <1>12, <1>13, <1>14, <1>15 DEF PageFits
<1>. QED
  BY <1>1, <1>16

\* An answer from what the call has heard.
LEMMA HeardPage ==
  ASSUME JournalTypeOK, JournalInv, NumbersGrow, cut = {}, client.cursor \in Nat,
         NEW events, NEW a, Embeds(a, events, feed, {x \in DOMAIN feed : feed[x].seq > client.cursor}),
         DOMAIN events = 1 .. Len(events), NEW m, ShowsOnly(events, m)
  PROVE  PageFits(Page(events), CursorAfter(events))
<1>. DEFINE S == {x \in DOMAIN feed : feed[x].seq > client.cursor}
<1>s. \A x : x \in S <=> x \in DOMAIN feed /\ feed[x].seq > client.cursor
  OBVIOUS
<1>t. Embeds(a, events, feed, S)
  OBVIOUS
<1>. HIDE DEF S
<1>1. PICK q, c : q = Page(events) /\ c = CursorAfter(events)
  OBVIOUS
<1>2. /\ m \in Nat /\ m >= 1 /\ Len(events) \in Nat /\ m <= Len(events)
      /\ DOMAIN q = 1 .. m /\ \A i \in 1 .. m : i \in DOMAIN events /\ q[i] = events[i]
      /\ c \in Nat /\ c >= client.cursor /\ \A i \in 1 .. m : events[i].seq <= c
      /\ c = client.cursor \/ \E i \in 1 .. m : c = events[i].seq
  <2>1. m \in 1 .. Len(events) /\ Len(events) \in Nat
    BY <1>1 DEF ShowsOnly
  <2>2. m \in Nat /\ m >= 1 /\ m <= Len(events) /\ \A i \in 1 .. m : i \in DOMAIN events
    BY <2>1
  <2>. QED
    BY <1>1, <2>1, <2>2 DEF ShowsOnly
<1>3. /\ DOMAIN file = 1 .. Len(file) /\ Len(file) \in Nat /\ \A x \in DOMAIN file : file[x].seq \in Nat
      /\ DOMAIN feed \subseteq Nat /\ \A x \in DOMAIN feed : feed[x].seq \in Nat
  <2>1. DOMAIN feed \subseteq Nat
    <3>1. \E T : feed \in Seq(T)
      BY DEF JournalTypeOK
    <3>. QED
      BY ONLY <3>1, InSequence
  <2>. QED
    BY <2>1, LinesOf
<1>4. \A i \in DOMAIN events : /\ a[i] \in DOMAIN feed /\ a[i] \in Nat /\ events[i] = feed[a[i]]
                               /\ feed[a[i]].seq > client.cursor
  <2>1. \A i \in DOMAIN events : a[i] \in S /\ events[i] = feed[a[i]]
    BY <1>t DEF Embeds
  <2>. QED
    BY <1>s, <1>3, <2>1
<1>5. \A i, j \in DOMAIN events : i < j => a[i] < a[j]
  BY <1>t DEF Embeds
<1>6. \A x \in DOMAIN feed : feed[x].seq > client.cursor => \E i \in DOMAIN events : a[i] = x
  BY <1>s, <1>t DEF Embeds
<1>7. \A i \in 1 .. m : q[i] = feed[a[i]] /\ q[i].seq \in Nat /\ q[i].seq > client.cursor /\ q[i].seq <= c
  BY <1>2, <1>3, <1>4
<1>8. \E i \in 1 .. m : q[i].seq = c
  <2>1. 1 \in 1 .. m
    BY <1>2
  <2>2. c # client.cursor
    BY <1>2, <1>7, <2>1
  <2>. QED
    BY <1>2, <2>2
<1>9. \A i, j \in DOMAIN feed : i < j => feed[i].ev < feed[j].ev /\ feed[i].seq < feed[j].seq
  BY DEF JournalInv, Promise!Ordered
<1>10. \A i, j \in 1 .. m : i < j => q[i].ev < q[j].ev
  <2>1. ASSUME NEW i \in 1 .. m, NEW j \in 1 .. m, i < j PROVE q[i].ev < q[j].ev
    <3>1. a[i] < a[j]
      BY <1>2, <1>5, <2>1
    <3>. QED
      BY <1>2, <1>4, <1>7, <1>9, <3>1
  <2>. QED
    BY <2>1
<1>11. ASSUME NEW x \in DOMAIN feed, feed[x].seq > client.cursor, feed[x].seq <= c
       PROVE  \E i \in 1 .. m : q[i] = feed[x]
  <2>1. PICK i \in DOMAIN events : a[i] = x
    BY <1>6, <1>11
  <2>2. CASE i <= m
    <3>1. i \in 1 .. m
      BY <1>2, <2>2
    <3>. QED
      BY <1>7, <2>1, <3>1
  <2>3. CASE ~(i <= m)
    <3>1. PICK j \in 1 .. m : q[j].seq = c
      BY <1>8
    <3>2. j < i
      BY <1>2, <2>3, <3>1
    <3>3. feed[a[j]].seq < feed[x].seq
      BY <1>2, <1>4, <1>5, <1>9, <2>1, <3>1, <3>2
    <3>. QED
      BY <1>2, <1>3, <1>7, <1>11, <3>1, <3>3
  <2>. QED
    BY <2>2, <2>3
<1>12. \A i \in 1 .. m : \E y \in Finished : file[y] = q[i]
  <2>1. ASSUME NEW i \in 1 .. m PROVE \E y \in Finished : file[y] = q[i]
    <3>1. a[i] \in DOMAIN feed /\ q[i] = feed[a[i]]
      BY <1>2, <1>4, <1>7
    <3>. QED
      BY <3>1, ToldLines
  <2>. QED
    BY <2>1
<1>13. ASSUME NEW x \in DOMAIN file, file[x].seq > c, NEW i \in 1 .. m
       PROVE  q[i].ev < file[x].ev
  <2>1. PICK y \in Finished : file[y] = q[i]
    BY <1>12
  <2>2. y \in DOMAIN file /\ y \in Nat /\ x \in Nat /\ file[x].seq # 0 /\ file[y].seq # 0
    BY <1>2, <1>3, <1>7, <1>13, <2>1, FinishedLines
  <2>3. CASE y < x
    BY <2>1, <2>2, <2>3, NumberedLines
  <2>4. CASE x < y
    <3>1. file[x].seq < file[y].seq
      BY <2>1, <2>2, <2>4, NumberedLines
    <3>. QED
      BY <1>2, <1>3, <1>7, <1>13, <2>1, <2>2, <3>1
  <2>5. CASE x = y
    BY <1>2, <1>3, <1>7, <1>13, <2>1, <2>5
  <2>. QED
    BY <2>2, <2>3, <2>4, <2>5
<1>14. \A i \in 1 .. m : q[i] \in Range(file)
  <2>1. \A y \in Finished : file[y] \in Range(file)
    BY FinishedLines DEF Range
  <2>. QED
    BY <1>12, <2>1
<1>15. ASSUME append # None, NEW l \in 1 .. append.landed
       PROVE  ~(append.high + l <= c)
  <2>1. PICK i \in 1 .. m : q[i].seq = c
    BY <1>8
  <2>2. feed[a[i]].seq <= append.high
    <3>1. a[i] \in DOMAIN feed
      BY <1>2, <1>4
    <3>. QED
      BY <1>15, <3>1 DEF JournalInv, NumbersFit
  <2>3. append.high \in Nat /\ l \in Nat /\ l >= 1
    BY <1>15 DEF JournalTypeOK
  <2>. QED
    BY <1>2, <1>7, <2>1, <2>2, <2>3
<1>16. PageFits(q, c)
  BY <1>2, <1>7, <1>8, <1>10, <1>11, <1>13, <1>14, <1>15 DEF PageFits
<1>. QED
  BY <1>1, <1>16

\* What was printed, with one more page.
LEMMA PrintedPage ==
  ASSUME NEW n \in Nat, got \in Seq(1 .. n), NEW m \in Nat, NEW q, DOMAIN q = 1 .. m,
         \A i \in 1 .. m : q[i].ev \in 1 .. n,
         NEW g, g = got \o [i \in DOMAIN q |-> q[i].ev]
  PROVE  /\ g \in Seq(1 .. n) /\ DOMAIN g = 1 .. Len(got) + m
         /\ \A i \in DOMAIN got : i \in DOMAIN g /\ g[i] = got[i]
         /\ \A i \in 1 .. m : Len(got) + i \in DOMAIN g /\ g[Len(got) + i] = q[i].ev
<1>. DEFINE s == [i \in DOMAIN q |-> q[i].ev]
<1>2. g = got \o s
  OBVIOUS
<1>0. PICK T : T = 1 .. n
  OBVIOUS
<1>1. s \in Seq(T) /\ Len(s) = m /\ \A i \in 1 .. m : s[i] = q[i].ev
  <2>1. s \in [1 .. m -> T] /\ \A i \in 1 .. m : s[i] = q[i].ev
    BY <1>0
  <2>2. m \in Nat
    OBVIOUS
  <2>. HIDE DEF s
  <2>. QED
    BY ONLY <2>1, <2>2
<1>. HIDE DEF s
<1>t. got \in Seq(T)
  BY <1>0
<1>3. Len(got) \in Nat /\ DOMAIN got = 1 .. Len(got)
  OBVIOUS
<1>4. /\ g \in Seq(T) /\ Len(g) = Len(got) + m
      /\ \A i \in 1 .. Len(got) : g[i] = got[i]
      /\ \A i \in 1 .. m : g[Len(got) + i] = s[i]
  <2>1. /\ got \o s \in Seq(T) /\ Len(got \o s) = Len(got) + Len(s)
        /\ \A i \in 1 .. Len(got) : (got \o s)[i] = got[i]
        /\ \A i \in 1 .. Len(s) : (got \o s)[Len(got) + i] = s[i]
    <3>1. got \in Seq(T) /\ s \in Seq(T)
      BY <1>t, <1>1
    <3>. QED
      BY ONLY <3>1, ConcatOf
  <2>. QED
    BY ONLY <1>1, <1>2, <2>1
<1>5. DOMAIN g = 1 .. Len(got) + m
  BY <1>3, <1>4, InSequence
<1>. QED
  BY <1>0, <1>1, <1>3, <1>4, <1>5

\* The follower knows as much after a page as before.
LEMMA PageFollower ==
  ASSUME JournalTypeOK, JournalInv, FollowerTypeOK, client.all, FollowerKnows,
         NEW q, NEW c \in Nat, NEW m \in Nat, DOMAIN q = 1 .. m,
         \A i \in 1 .. m : q[i].ev \in 1 .. emitted, PageFits(q, c),
         got' = got \o [i \in DOMAIN q |-> q[i].ev], client'.cursor = c,
         client'.at \notin {"asked", "waiting"}, UNCHANGED log
  PROVE  FollowerKnows'
<1>1. /\ emitted' = emitted /\ buffer' = buffer /\ queue' = queue /\ append' = append
      /\ file' = file /\ feed' = feed /\ Batch' = Batch /\ Slots' = Slots
  BY DEF log, disk, Batch, Slots
<1>2. /\ emitted \in Nat /\ client.cursor \in Nat /\ got \in Seq(1 .. emitted)
      /\ DOMAIN got = 1 .. Len(got) /\ Len(got) \in Nat
      /\ \A i \in DOMAIN got : got[i] \in Nat
  BY FollowerFields DEF FollowerTypeOK
<1>g. PICK g : g = got'
  OBVIOUS
<1>3. /\ DOMAIN g = 1 .. Len(got) + m
      /\ \A i \in DOMAIN got : i \in DOMAIN g /\ g[i] = got[i]
      /\ \A i \in 1 .. m : Len(got) + i \in DOMAIN g /\ g[Len(got) + i] = q[i].ev
  <2>1. g = got \o [i \in DOMAIN q |-> q[i].ev]
    BY <1>g
  <2>2. m \in Nat /\ DOMAIN q = 1 .. m /\ \A i \in 1 .. m : q[i].ev \in 1 .. emitted
    OBVIOUS
  <2>. QED
    BY ONLY <1>2, <2>1, <2>2, PrintedPage
<1>4. \A i \in DOMAIN g : i \in DOMAIN got \/ \E l \in 1 .. m : i = Len(got) + l /\ g[i] = q[l].ev
  <2>1. ASSUME NEW i \in DOMAIN g, i \notin DOMAIN got
        PROVE  \E l \in 1 .. m : i = Len(got) + l /\ g[i] = q[l].ev
    <3>1. i - Len(got) \in 1 .. m /\ i = Len(got) + (i - Len(got))
      BY <1>2, <1>3, <2>1
    <3>. QED
      BY <1>3, <3>1
  <2>. QED
    BY <2>1
<1>5. /\ \A e \in Range(got) : e \in Range(g)
      /\ \A i \in 1 .. m : q[i].ev \in Range(g)
  BY <1>3 DEF Range
<1>6. /\ \A i \in DOMAIN q : q[i] \in Range(file) /\ q[i].seq > client.cursor
      /\ \A i, j \in DOMAIN q : i < j => q[i].ev < q[j].ev
      /\ \A k \in DOMAIN feed :
           feed[k].seq > client.cursor /\ feed[k].seq <= c => \E i \in DOMAIN q : q[i].ev = feed[k].ev
      /\ append # None =>
           \A l \in 1 .. append.landed :
             append.high + l > client.cursor /\ append.high + l <= c =>
               \E i \in DOMAIN q : q[i].ev = Batch[l]
      /\ \A k \in DOMAIN file : file[k].seq > c => \A i \in DOMAIN q : q[i].ev < file[k].ev
      /\ \E i \in DOMAIN q : q[i].seq = c
  BY DEF PageFits
<1>7. \A i \in 1 .. m : \E y \in DOMAIN file : file[y] = q[i] /\ file[y].seq > client.cursor
  <2>1. \A i \in 1 .. m : q[i] \in Range(file) /\ q[i].seq > client.cursor
    BY <1>6
  <2>. QED
    BY <2>1 DEF Range
<1>8. PrintsAll'
  <2>1. ASSUME NEW k \in DOMAIN feed, feed[k].seq <= c PROVE feed[k].ev \in Range(g)
    <3>1. feed[k].seq \in Nat
      BY LinesOf
    <3>2. CASE feed[k].seq <= client.cursor
      BY <1>5, <3>2 DEF FollowerKnows, PrintsAll
    <3>3. CASE feed[k].seq > client.cursor
      BY <1>5, <1>6, <2>1, <3>3
    <3>. QED
      BY <1>2, <3>1, <3>2, <3>3
  <2>2. ASSUME append # None, NEW l \in 1 .. append.landed, append.high + l <= c
        PROVE  Batch[l] \in Range(g)
    <3>1. append.high + l \in Nat
      <4>1. append.high \in Nat /\ append.landed \in Nat
        BY <2>2 DEF JournalTypeOK
      <4>. QED
        BY ONLY <2>2, <4>1
    <3>2. CASE append.high + l <= client.cursor
      BY <1>5, <2>2, <3>2 DEF FollowerKnows, PrintsAll
    <3>3. CASE append.high + l > client.cursor
      BY <1>5, <1>6, <2>2, <3>3
    <3>. QED
      BY <1>2, <3>1, <3>2, <3>3
  <2>. QED
    BY <1>1, <1>g, <2>1, <2>2 DEF PrintsAll
<1>9. CursorIsThere'
  <2>1. \E y \in DOMAIN file : file[y].seq = c
    BY <1>6, <1>7
  <2>. QED
    BY <1>1, <2>1 DEF CursorIsThere
<1>10. PrintsInOrder'
  <2>1. ASSUME NEW i \in DOMAIN got, NEW l \in 1 .. m PROVE got[i] < q[l].ev
    BY <1>7 DEF FollowerKnows, PrintsInOrder
  <2>2. ASSUME NEW i \in DOMAIN g, NEW j \in DOMAIN g, i < j PROVE g[i] < g[j]
    <3>1. CASE i \in DOMAIN got /\ j \in DOMAIN got
      BY <1>3, <2>2, <3>1 DEF FollowerKnows, PrintsInOrder
    <3>2. CASE i \in DOMAIN got /\ j \notin DOMAIN got
      BY <1>3, <1>4, <2>1, <3>2
    <3>3. CASE i \notin DOMAIN got
      <4>1. PICK l \in 1 .. m : i = Len(got) + l /\ g[i] = q[l].ev
        BY <1>4, <3>3
      <4>2. j \notin DOMAIN got
        BY <1>2, <1>3, <2>2, <4>1
      <4>3. PICK n \in 1 .. m : j = Len(got) + n /\ g[j] = q[n].ev
        BY <1>4, <4>2
      <4>4. l < n
        BY <1>2, <2>2, <4>1, <4>3
      <4>. QED
        BY <1>6, <4>1, <4>3, <4>4
    <3>. QED
      BY <3>1, <3>2, <3>3
  <2>3. ASSUME NEW i \in DOMAIN g, NEW k \in DOMAIN file, file[k].seq > c
        PROVE  g[i] < file[k].ev
    <3>1. c > client.cursor /\ file[k].seq \in Nat
      <4>1. PICK l \in DOMAIN q : q[l].seq = c
        BY <1>6
      <4>. QED
        BY <1>6, <4>1, LinesOf
    <3>2. CASE i \in DOMAIN got
      <4>1. file[k].seq > client.cursor
        BY <1>2, <2>3, <3>1
      <4>. QED
        BY <1>3, <3>2, <4>1 DEF FollowerKnows, PrintsInOrder
    <3>3. CASE i \notin DOMAIN got
      BY <1>4, <1>6, <2>3, <3>3
    <3>. QED
      BY <3>2, <3>3
  <2>4. ASSUME NEW i \in DOMAIN g, NEW k \in DOMAIN Slots, NEW l \in DOMAIN Slots[k], ~Landed(k, l)
        PROVE  g[i] < Slots[k][l]
    <3>1. CASE i \in DOMAIN got
      BY <1>3, <2>4, <3>1 DEF FollowerKnows, PrintsInOrder
    <3>2. CASE i \notin DOMAIN got
      <4>1. PICK n \in 1 .. m : g[i] = q[n].ev
        BY <1>4, <3>2
      <4>2. PICK y \in DOMAIN file : file[y] = q[n]
        BY <1>7
      <4>3. file[y].ev < Slots[k][l]
        BY <2>4 DEF JournalInv, WaitingInOrder
      <4>. QED
        BY <4>1, <4>2, <4>3
    <3>. QED
      BY <3>1, <3>2
  <2>5. \A k, l : Landed(k, l)' <=> Landed(k, l)
    BY <1>1 DEF Landed
  <2>. QED
    BY <1>1, <1>g, <2>2, <2>3, <2>4, <2>5 DEF PrintsInOrder
<1>11. HearsTheEnd'
  BY DEF HearsTheEnd
<1>. QED
  BY <1>8, <1>9, <1>10, <1>11 DEF FollowerKnows

\* Where the follower steps, the journal stays.
LEMMA LogStays ==
  ASSUME FollowerInv, UNCHANGED log
  PROVE  LinesFit' /\ (Scarred' <=> Scarred) /\ (NumbersGrow => NumbersGrow')
<1>1. /\ cache' = cache /\ append' = append /\ file' = file /\ open' = open /\ cut' = cut
  BY DEF log, disk
<1>2. Finished' = Finished /\ (Scarred' <=> Scarred)
  BY <1>1 DEF Finished, Scarred
<1>. QED
  BY <1>1, <1>2 DEF FollowerInv, LinesFit, NumbersGrow, Doomed

\* What the follower's steps do to its record.
Clients == [at : {"off", "idle", "asked", "waiting", "over"}, cursor : Nat \cup {None}, all : BOOLEAN]

LEMMA ClientMoves ==
  ASSUME client \in Clients, NEW x \in {"idle", "asked", "waiting", "over"},
         client' = [client EXCEPT !.at = x]
  PROVE  /\ client' \in Clients /\ client'.at = x
         /\ client'.cursor = client.cursor /\ client'.all = client.all
BY DEF Clients

LEMMA ClientAnswers ==
  ASSUME client \in Clients, NEW x \in {"idle", "asked", "waiting", "over"},
         NEW c \in Nat \cup {None}, client' = [client EXCEPT !.at = x, !.cursor = c]
  PROVE  client' \in Clients /\ client'.at = x /\ client'.cursor = c /\ client'.all = client.all
BY DEF Clients

\* An answer without events leaves the cursor and what was printed.
LEMMA EmptyAnswer ==
  ASSUME FollowerTypeOK, Answers(<<>>)
  PROVE  /\ client' \in Clients /\ client'.at \in {"idle", "over"}
         /\ client'.cursor = client.cursor /\ client'.all = client.all
         /\ got' = got /\ live' = <<>> /\ UNCHANGED log
<1>1. client \in Clients /\ got \in Seq(1 .. emitted)
  BY DEF FollowerTypeOK, Clients
<1>2. MaxBatch \in Nat
  BY EventLogAssumption
<1>3. Len(<<>>) = 0
  OBVIOUS
<1>4. Min({MaxBatch, Len(<<>>)}) = 0
  <2>1. 0 \in {MaxBatch, 0} /\ \A y \in {MaxBatch, 0} : 0 <= y
    BY <1>2
  <2>2. \A x \in {MaxBatch, 0} : (\A y \in {MaxBatch, 0} : x <= y) => x = 0
    BY <1>2
  <2>3. Min({MaxBatch, 0}) = 0
    BY <2>1, <2>2 DEF Min
  <2>. QED
    BY <1>3, <2>3
<1>5. Page(<<>>) = <<>>
  BY <1>4 DEF Page
<1>6. got' = got \o [i \in DOMAIN Page(<<>>) |-> Page(<<>>)[i].ev]
  BY DEF Answers
<1>7. got' = got
  <2>1. [i \in DOMAIN Page(<<>>) |-> Page(<<>>)[i].ev] = <<>>
    BY <1>5
  <2>2. got \o <<>> = got
    BY <1>1
  <2>. QED
    BY <1>6, <2>1, <2>2
<1>8. PICK x \in {"idle", "over"} : client' = [client EXCEPT !.at = x, !.cursor = client.cursor]
  BY <1>1 DEF Answers, Clients
<1>9. client.cursor \in Nat \cup {None}
  BY <1>1 DEF Clients
<1>10. /\ client' \in Clients /\ client'.at = x
       /\ client'.cursor = client.cursor /\ client'.all = client.all
  <2>1. x \in {"idle", "asked", "waiting", "over"}
    OBVIOUS
  <2>. QED
    BY ONLY <1>1, <1>8, <1>9, <2>1, ClientAnswers, Zenon
<1>. QED
  BY <1>7, <1>8, <1>10 DEF Answers

\* Beginning to follow, with nothing printed and no line before the cursor.
LEMMA FollowFollower ==
  ASSUME JournalTypeOK, JournalInv, FollowerTypeOK, FollowerInv, NEW all \in BOOLEAN, Follow(all)
  PROVE  FollowerTypeOK' /\ FollowerInv'
<1>1. /\ client' = [at |-> "idle", cursor |-> IF all THEN 0 ELSE None, all |-> all]
      /\ got' = <<>> /\ live' = live /\ UNCHANGED log
  BY DEF Follow
<1>2. /\ client' \in Clients /\ client'.at = "idle" /\ client'.all = all
      /\ client'.cursor = IF all THEN 0 ELSE None
  BY <1>1 DEF Clients
<1>3. emitted' = emitted /\ file' = file /\ feed' = feed /\ append' = append /\ Batch' = Batch
  BY <1>1 DEF log, disk, Batch
<1>4. FollowerTypeOK'
  <2>1. None # 0 /\ <<>> \in Seq(1 .. emitted)
    BY EventLogAssumption
  <2>2. client'.cursor = None <=> ~client'.all
    BY <1>2, <2>1
  <2>. QED
    BY <1>1, <1>2, <1>3, <2>1, <2>2 DEF FollowerTypeOK, Clients
<1>5. LinesFit' /\ (Scarred' <=> Scarred) /\ (NumbersGrow => NumbersGrow')
  BY <1>1, LogStays
<1>6. ASSUME ~Scarred, all PROVE FollowerKnows'
  <2>1. client'.cursor = 0
    BY <1>2, <1>6
  <2>2. \A i \in DOMAIN feed : ~(feed[i].seq <= 0)
    <3>1. ASSUME NEW i \in DOMAIN feed PROVE ~(feed[i].seq <= 0)
      <4>1. PICK k \in Finished : file[k] = feed[i]
        BY <1>6, ToldLines DEF Scarred
      <4>2. k \in DOMAIN file /\ feed[i].ev >= 1 /\ feed[i].ev \in Nat /\ feed[i].seq \in Nat
        <5>1. k \in DOMAIN file
          BY FinishedLines
        <5>2. feed[i].ev >= 1 /\ feed[i].ev \in Nat /\ feed[i].seq \in Nat
          BY LinesOf
        <5>. QED
          BY <5>1, <5>2
      <4>3. file[k] # Unreadable
        <5>1. Unreadable.ev = 0
          BY LineFields DEF Unreadable
        <5>. QED
          BY <4>1, <4>2, <5>1
      <4>4. file[k].seq >= 1
        BY <4>2, <4>3 DEF FollowerInv, LinesFit
      <4>. QED
        BY <4>1, <4>2, <4>4
    <3>. QED
      BY <3>1
  <2>3. ASSUME append # None, NEW l \in 1 .. append.landed PROVE ~(append.high + l <= 0)
    <3>1. append.high \in Nat /\ append.landed \in Nat
      BY <2>3 DEF JournalTypeOK
    <3>. QED
      BY ONLY <2>3, <3>1
  <2>4. PrintsAll' /\ CursorIsThere'
    BY <1>3, <2>1, <2>2, <2>3 DEF PrintsAll, CursorIsThere
  <2>5. PrintsInOrder'
    BY <1>1 DEF PrintsInOrder
  <2>6. HearsTheEnd'
    BY <1>2 DEF HearsTheEnd
  <2>. QED
    BY <2>4, <2>5, <2>6 DEF FollowerKnows
<1>7. FollowerInv'
  BY <1>2, <1>5, <1>6 DEF FollowerInv
<1>. QED
  BY <1>4, <1>7

\* A call subscribes, and has heard nothing yet.
LEMMA PollFollower ==
  ASSUME JournalTypeOK, FollowerTypeOK, FollowerInv, Poll
  PROVE  FollowerTypeOK' /\ FollowerInv'
<1>1. /\ client' = [client EXCEPT !.at = "asked"] /\ live' = <<>> /\ got' = got /\ UNCHANGED log
      /\ client \in Clients
  BY DEF Poll, FollowerTypeOK, Clients
<1>2. /\ client' \in Clients /\ client'.at = "asked"
      /\ client'.cursor = client.cursor /\ client'.all = client.all
  BY ONLY <1>1, ClientMoves
<1>3. /\ emitted' = emitted /\ file' = file /\ open' = open /\ cache' = cache /\ feed' = feed
      /\ append' = append /\ Batch' = Batch /\ Slots' = Slots
  BY <1>1 DEF log, disk, Batch, Slots
<1>4. FollowerTypeOK'
  <2>1. <<>> \in Seq([ev : 1 .. emitted, seq : Nat])
    OBVIOUS
  <2>. QED
    BY <1>1, <1>2, <1>3, <2>1 DEF FollowerTypeOK, Clients
<1>5. LinesFit' /\ (Scarred' <=> Scarred) /\ (NumbersGrow => NumbersGrow')
  BY <1>1, LogStays
<1>6. ASSUME FollowerKnows PROVE FollowerKnows'
  <2>1. PrintsAll' /\ CursorIsThere'
    BY <1>1, <1>2, <1>3, <1>6 DEF FollowerKnows, PrintsAll, CursorIsThere
  <2>2. PrintsInOrder'
    BY <1>1, <1>2, <1>3, <1>6 DEF FollowerKnows, PrintsInOrder, Landed
  <2>3. HearsTheEnd'
    <3>1. Len(<<>>) <= Len(feed) /\ DOMAIN <<>> = {}
      BY InSequence DEF JournalTypeOK
    <3>. QED
      BY <1>1, <1>2, <1>3, <3>1 DEF HearsTheEnd
  <2>. QED
    BY <2>1, <2>2, <2>3 DEF FollowerKnows
<1>7. FollowerInv'
  BY <1>2, <1>5, <1>6 DEF FollowerInv
<1>. QED
  BY <1>4, <1>7

\* Who hangs up follows no longer.
LEMMA IdleFollower ==
  ASSUME client' = idle, live' = <<>>, got' = <<>>
  PROVE  FollowerTypeOK' /\ ~client'.all
<1>1. <<>> \in Seq([ev : 1 .. emitted', seq : Nat]) /\ <<>> \in Seq(1 .. emitted')
  OBVIOUS
<1>2. /\ client' \in Clients /\ client'.at = "off" /\ client'.cursor = None /\ ~client'.all
  BY DEF idle, Clients
<1>. QED
  BY <1>1, <1>2 DEF FollowerTypeOK, Clients

LEMMA HangsUpFollower ==
  ASSUME FollowerInv, HangsUp
  PROVE  FollowerTypeOK' /\ FollowerInv'
<1>1. client' = idle /\ live' = <<>> /\ got' = <<>> /\ UNCHANGED log
  BY DEF HangsUp
<1>2. FollowerTypeOK' /\ ~client'.all
  BY <1>1, IdleFollower
<1>3. LinesFit' /\ (Scarred' <=> Scarred) /\ (NumbersGrow => NumbersGrow')
  BY <1>1, LogStays
<1>. QED
  BY <1>2, <1>3 DEF FollowerInv

\* An answer without events leaves all that the follower knows.
LEMMA EmptyAnswerFollower ==
  ASSUME JournalTypeOK, FollowerTypeOK, FollowerInv, Answers(<<>>)
  PROVE  FollowerTypeOK' /\ FollowerInv'
<1>1. /\ client' \in Clients /\ client'.at \in {"idle", "over"}
      /\ client'.cursor = client.cursor /\ client'.all = client.all
      /\ got' = got /\ live' = <<>> /\ UNCHANGED log
  BY EmptyAnswer
<1>2. /\ emitted' = emitted /\ file' = file /\ open' = open /\ cache' = cache /\ feed' = feed
      /\ append' = append /\ Batch' = Batch /\ Slots' = Slots
  BY <1>1 DEF log, disk, Batch, Slots
<1>3. FollowerTypeOK'
  <2>1. <<>> \in Seq([ev : 1 .. emitted, seq : Nat])
    OBVIOUS
  <2>. QED
    BY <1>1, <1>2, <2>1 DEF FollowerTypeOK, Clients
<1>4. LinesFit' /\ (Scarred' <=> Scarred) /\ (NumbersGrow => NumbersGrow')
  BY <1>1, LogStays
<1>5. ASSUME FollowerKnows PROVE FollowerKnows'
  <2>1. PrintsAll' /\ CursorIsThere'
    BY <1>1, <1>2, <1>5 DEF FollowerKnows, PrintsAll, CursorIsThere
  <2>2. PrintsInOrder'
    BY <1>1, <1>2, <1>5 DEF FollowerKnows, PrintsInOrder, Landed
  <2>3. HearsTheEnd'
    BY <1>1 DEF HearsTheEnd
  <2>. QED
    BY <2>1, <2>2, <2>3 DEF FollowerKnows
<1>6. FollowerInv'
  BY <1>1, <1>4, <1>5 DEF FollowerInv
<1>. QED
  BY <1>3, <1>6

\* An answer with events: those are printed, and the cursor goes on.
LEMMA AnswerFollower ==
  ASSUME JournalTypeOK, JournalInv, FollowerTypeOK, FollowerInv, client.all,
         NEW events, Answers(events), events # <<>>, events \in Seq([ev : 0 .. emitted, seq : Nat]),
         \A i \in DOMAIN events : events[i].ev # 0,
         ~Scarred => \A m : ShowsOnly(events, m) => PageFits(Page(events), CursorAfter(events))
  PROVE  FollowerTypeOK' /\ FollowerInv'
<1>1. /\ got' = got \o [i \in DOMAIN Page(events) |-> Page(events)[i].ev]
      /\ live' = <<>> /\ UNCHANGED log
  BY DEF Answers
<1>2. /\ emitted \in Nat /\ client.cursor \in Nat /\ got \in Seq(1 .. emitted)
      /\ client \in Clients
  BY FollowerFields DEF FollowerTypeOK, Clients
<1>3. PICK T : T = [ev : 0 .. emitted, seq : Nat]
  OBVIOUS
<1>4. events \in Seq(T) /\ DOMAIN events = 1 .. Len(events) /\ \A i \in DOMAIN events : events[i] \in T
  BY <1>3, InSequence
<1>5. \A i \in DOMAIN events : events[i].ev \in 1 .. emitted /\ events[i].seq \in Nat
  BY <1>2, <1>3, <1>4
<1>6. \E m : ShowsOnly(events, m)
  <2>1. \A i \in DOMAIN events : events[i].seq \in Nat
    BY <1>5
  <2>2. events # <<>>
    OBVIOUS
  <2>. QED
    BY ONLY <1>2, <1>4, <2>1, <2>2, PageOf
<1>7. PICK m : ShowsOnly(events, m)
  BY <1>6
<1>8. PICK q, c : q = Page(events) /\ c = CursorAfter(events)
  OBVIOUS
<1>9. /\ m \in Nat /\ DOMAIN q = 1 .. m /\ \A i \in 1 .. m : q[i].ev \in 1 .. emitted
      /\ c \in Nat
  <2>1. m \in 1 .. Len(events) /\ Len(events) \in Nat /\ \A i \in 1 .. m : q[i] = events[i]
    BY <1>7, <1>8 DEF ShowsOnly
  <2>2. m \in Nat /\ \A i \in 1 .. m : i \in DOMAIN events
    BY <1>4, <2>1
  <2>. QED
    BY <1>5, <1>7, <1>8, <2>1, <2>2 DEF ShowsOnly
<1>10. got' = got \o [i \in DOMAIN q |-> q[i].ev]
  BY <1>1, <1>8
<1>11. PICK x \in {"idle", "over"} : client' = [client EXCEPT !.at = x, !.cursor = c]
  <2>1. client' = [client EXCEPT !.at = IF settled THEN "over" ELSE "idle", !.cursor = c]
    BY <1>8 DEF Answers
  <2>. QED
    BY <2>1
<1>12. client' \in Clients /\ client'.at = x /\ client'.cursor = c /\ client'.all = client.all
  <2>1. x \in {"idle", "asked", "waiting", "over"} /\ c \in Nat \cup {None}
    BY <1>9
  <2>. QED
    BY ONLY <1>2, <1>11, <2>1, ClientAnswers, Zenon
<1>13. FollowerTypeOK'
  <2>1. got' \in Seq(1 .. emitted)
    BY ONLY <1>2, <1>9, <1>10, PrintedPage
  <2>2. <<>> \in Seq([ev : 1 .. emitted, seq : Nat]) /\ emitted' = emitted
    BY <1>1 DEF log
  <2>3. client'.cursor # None
    BY <1>9, <1>12, EventLogAssumption
  <2>4. client' \in [at : {"off", "idle", "asked", "waiting", "over"}, cursor : Nat \cup {None}, all : BOOLEAN]
    BY <1>12 DEF Clients
  <2>. QED
    BY <1>1, <1>12, <2>1, <2>2, <2>3, <2>4 DEF FollowerTypeOK
<1>14. LinesFit' /\ (Scarred' <=> Scarred) /\ (NumbersGrow => NumbersGrow')
  BY <1>1, LogStays
<1>15. ASSUME ~Scarred PROVE FollowerKnows'
  <2>1. FollowerKnows
    BY <1>15 DEF FollowerInv
  <2>2. PageFits(q, c)
    BY <1>7, <1>8, <1>15
  <2>3. client'.at \notin {"asked", "waiting"}
    BY <1>12
  <2>. QED
    BY <1>1, <1>9, <1>10, <1>12, <2>1, <2>2, <2>3, PageFollower
<1>16. FollowerInv'
  BY <1>14, <1>15 DEF FollowerInv
<1>. QED
  BY <1>13, <1>16

\* A call that reads the journal: it answers what is new there, or it waits, and
\* then there is nothing new that it could miss.
LEMMA ReadFollower ==
  ASSUME JournalTypeOK, JournalInv, FollowerTypeOK, FollowerInv, Read
  PROVE  FollowerTypeOK' /\ FollowerInv'
<1>1. CASE client.cursor = None
  <2>1. Answers(<<>>)
    BY <1>1 DEF Read
  <2>. QED
    BY <2>1, EmptyAnswerFollower
<1>2. CASE client.cursor # None
  <2>1. client.all /\ client.cursor \in Nat
    BY <1>2, FollowerFields
  <2>2. PICK events : events = Beyond(Readable(file))
    OBVIOUS
  <2>3. IF events # <<>> THEN Answers(events)
        ELSE client' = [client EXCEPT !.at = "waiting"] /\ UNCHANGED <<log, live, got>>
    BY <1>2, <2>2 DEF Read
  <2>4. PICK T : T = [ev : 0 .. emitted, seq : Nat]
    OBVIOUS
  <2>5. /\ events \in Seq(T)
        /\ \E a : Embeds(a, events, file, {x \in DOMAIN file : file[x].seq > client.cursor})
    BY <2>1, <2>2, <2>4, NewEvents
  <2>6. PICK a : Embeds(a, events, file, {x \in DOMAIN file : file[x].seq > client.cursor})
    BY <2>5
  <2>7. DOMAIN events = 1 .. Len(events)
    BY <2>5, InSequence
  <2>8. \A i \in DOMAIN events : /\ a[i] \in DOMAIN file /\ file[a[i]].seq > client.cursor
                                 /\ events[i] = file[a[i]]
    BY <2>6 DEF Embeds
  <2>9. CASE events # <<>>
    <3>1. \A i \in DOMAIN events : events[i].ev # 0
      <4>1. ASSUME NEW i \in DOMAIN events PROVE events[i].ev # 0
        <5>1. PICK k \in DOMAIN file : events[i] = file[k] /\ file[k].seq > client.cursor
          BY <2>8
        <5>2. file[k].seq \in Nat /\ file[k].ev \in Nat
          BY LinesOf
        <5>3. file[k] # Unreadable
          BY <2>1, <5>1, <5>2, NumberIsRead
        <5>4. file[k].ev >= 1
          BY <5>3 DEF FollowerInv, LinesFit
        <5>. QED
          BY <5>1, <5>2, <5>4
      <4>. QED
        BY <4>1
    <3>2. ASSUME ~Scarred, NEW m, ShowsOnly(events, m)
          PROVE  PageFits(Page(events), CursorAfter(events))
      <4>1. NumbersGrow /\ cut = {}
        BY <3>2 DEF FollowerInv, Scarred
      <4>. QED
        BY <2>1, <2>6, <2>7, <3>2, <4>1, ReadPage
    <3>3. Answers(events) /\ events \in Seq([ev : 0 .. emitted, seq : Nat])
      BY <2>3, <2>4, <2>5, <2>9
    <3>. QED
      BY <2>1, <2>9, <3>1, <3>2, <3>3, AnswerFollower
  <2>10. CASE events = <<>>
    <3>1. /\ client' = [client EXCEPT !.at = "waiting"] /\ live' = live /\ got' = got
          /\ UNCHANGED log /\ client \in Clients
      BY <2>3, <2>10 DEF FollowerTypeOK, Clients
    <3>2. /\ client' \in Clients /\ client'.at = "waiting"
          /\ client'.cursor = client.cursor /\ client'.all = client.all
      BY ONLY <3>1, ClientMoves
    <3>3. /\ emitted' = emitted /\ file' = file /\ open' = open /\ cache' = cache /\ feed' = feed
          /\ append' = append /\ Batch' = Batch /\ Slots' = Slots
      BY <3>1 DEF log, disk, Batch, Slots
    <3>4. FollowerTypeOK'
      BY <2>1, <3>1, <3>2, <3>3 DEF FollowerTypeOK, Clients
    <3>5. LinesFit' /\ (Scarred' <=> Scarred) /\ (NumbersGrow => NumbersGrow')
      BY <3>1, LogStays
    <3>6. \A x \in DOMAIN file : ~(file[x].seq > client.cursor)
      <4>1. DOMAIN events = {}
        BY <2>10
      <4>. QED
        BY <2>6, <4>1 DEF Embeds
    <3>7. ASSUME ~Scarred, FollowerKnows PROVE FollowerKnows'
      <4>1. PrintsAll' /\ CursorIsThere'
        BY <3>1, <3>2, <3>3, <3>7 DEF FollowerKnows, PrintsAll, CursorIsThere
      <4>2. PrintsInOrder'
        BY <3>1, <3>2, <3>3, <3>7 DEF FollowerKnows, PrintsInOrder, Landed
      <4>3. \A k \in DOMAIN feed : ~(feed[k].seq > client.cursor)
        <5>1. \A k \in DOMAIN feed : \E x \in Finished : file[x] = feed[k]
          BY <3>7, ToldLines DEF Scarred
        <5>. QED
          BY <3>6, <5>1, FinishedLines
      <4>4. client.at = "asked"
        BY DEF Read
      <4>5. HearsTheEnd'
        BY <3>1, <3>2, <3>3, <3>7, <4>3, <4>4 DEF FollowerKnows, HearsTheEnd
      <4>. QED
        BY <4>1, <4>2, <4>5 DEF FollowerKnows
    <3>8. FollowerInv'
      BY <3>2, <3>5, <3>7 DEF FollowerInv
    <3>. QED
      BY <3>4, <3>8
  <2>. QED
    BY <2>9, <2>10
<1>. QED
  BY <1>1, <1>2

\* A call that waits and hears of something new, or of nothing in time.
LEMMA WakeFollower ==
  ASSUME JournalTypeOK, JournalInv, FollowerTypeOK, FollowerInv, Wake
  PROVE  FollowerTypeOK' /\ FollowerInv'
<1>1. client.all /\ client.cursor \in Nat /\ client.at = "waiting"
  BY FollowerFields DEF Wake, FollowerTypeOK
<1>2. PICK events : events = Beyond(live) /\ events # <<>> /\ Answers(events)
  BY DEF Wake
<1>3. PICK T : T = [ev : 1 .. emitted, seq : Nat]
  OBVIOUS
<1>4. live \in Seq(T) /\ Len(file) \in Nat /\ emitted \in Nat
  BY <1>3, LinesOf DEF FollowerTypeOK
<1>5. ASSUME ~Scarred, NEW m, ShowsOnly(events, m)
      PROVE  PageFits(Page(events), CursorAfter(events))
  <2>1. NumbersGrow /\ cut = {} /\ HearsTheEnd
    BY <1>1, <1>5 DEF FollowerInv, Scarred, FollowerKnows
  <2>2. live \in Seq([ev : 1 .. emitted, seq : Nat])
    BY <1>3, <1>4
  <2>3. /\ events \in Seq([ev : 1 .. emitted, seq : Nat])
        /\ \E a : Embeds(a, events, feed, {x \in DOMAIN feed : feed[x].seq > client.cursor})
    BY <1>1, <1>2, <2>1, <2>2, HeardEvents
  <2>4. PICK a : Embeds(a, events, feed, {x \in DOMAIN feed : feed[x].seq > client.cursor})
    BY <2>3
  <2>5. DOMAIN events = 1 .. Len(events)
    BY <2>3, InSequence
  <2>. QED
    BY <1>1, <1>5, <2>1, <2>4, <2>5, HeardPage
<1>6. events \in Seq(T)
  <2>1. {i \in DOMAIN live : live[i].seq > client.cursor} \subseteq DOMAIN live
    OBVIOUS
  <2>. QED
    BY <1>2, <1>4, <2>1, SelectedEmbeds DEF Beyond
<1>7. /\ events \in Seq([ev : 0 .. emitted, seq : Nat])
      /\ \A i \in DOMAIN events : events[i].ev # 0
  <2>1. \A i \in DOMAIN events : events[i] \in T
    BY <1>6, ElementOf
  <2>2. T \subseteq [ev : 0 .. emitted, seq : Nat] /\ \A x \in T : x.ev # 0
    BY <1>3, <1>4
  <2>. QED
    BY <1>6, <2>1, <2>2, WiderSequence
<1>. QED
  BY <1>1, <1>2, <1>5, <1>7, AnswerFollower

LEMMA TimesOutFollower ==
  ASSUME JournalTypeOK, FollowerTypeOK, FollowerInv, TimesOut
  PROVE  FollowerTypeOK' /\ FollowerInv'
BY EmptyAnswerFollower DEF TimesOut

-----------------------------------------------------------------------------
(* Every step of the follower and of the journal *)

\* Events stay events for the follower when more are emitted.
LEMMA FollowerTypeStays ==
  ASSUME JournalTypeOK, JournalTypeOK', FollowerTypeOK, emitted <= emitted', UNCHANGED follower
  PROVE  FollowerTypeOK'
<1>1. emitted \in Nat /\ emitted' \in Nat
  BY LinesOf, EventLogAssumption DEF JournalTypeOK
<1>2. client' = client /\ live' = live /\ got' = got
  BY DEF follower
<1>3. got' \in Seq(1 .. emitted')
  BY <1>1, <1>2, WiderEvents DEF FollowerTypeOK
<1>4. live' \in Seq([ev : 1 .. emitted', seq : Nat])
  <2>1. [ev : 1 .. emitted, seq : Nat] \subseteq [ev : 1 .. emitted', seq : Nat]
    BY <1>1
  <2>. QED
    BY <1>2, <2>1, WiderSequence DEF FollowerTypeOK
<1>. QED
  BY <1>2, <1>3, <1>4 DEF FollowerTypeOK

LEMMA EmissionFollower ==
  ASSUME JournalTypeOK, JournalInv, FollowerTypeOK, FollowerInv,
         (\E n \in 1 .. 2 : AppendEvents(n)) \/ AppendBuffered \/ Drain
  PROVE  FollowerTypeOK' /\ FollowerInv'
<1>1. JournalTypeOK'
  BY EmissionKeepsJournal
<1>2. OnlyLater
  BY <1>1, AppendEventsLater, AppendBufferedLater, DrainLater
<1>3. UNCHANGED <<cache, append, disk, feed, cut>> /\ UNCHANGED follower
  BY DEF AppendEvents, AppendBuffered, Drain
<1>4. emitted <= emitted'
  <2>1. emitted \in Nat
    BY LinesOf
  <2>. QED
    BY <2>1 DEF AppendEvents, AppendBuffered, Drain
<1>. QED
  BY <1>1, <1>2, <1>3, <1>4, LaterKeepsFollower, FollowerTypeStays

LEMMA SucceedFollowerType ==
  ASSUME JournalTypeOK, FollowerTypeOK, Succeed
  PROVE  FollowerTypeOK'
<1>1. /\ append # None /\ emitted' = emitted /\ client' = client /\ got' = got
      /\ live' = IF client.at \in {"asked", "waiting"} THEN live \o Numbered ELSE live
  BY DEF Succeed
<1>2. live \in Seq([ev : 1 .. emitted, seq : Nat])
  BY DEF FollowerTypeOK
<1>3. live \o Numbered \in Seq([ev : 1 .. emitted, seq : Nat])
  BY <1>1, <1>2, Tells
<1>. QED
  BY <1>1, <1>2, <1>3 DEF FollowerTypeOK

\* Nobody follows yet.
LEMMA InitFollower ==
  ASSUME Init
  PROVE  FollowerTypeOK /\ FollowerInv
<1>1. <<>> \in Seq([ev : 1 .. emitted, seq : Nat]) /\ <<>> \in Seq(1 .. emitted)
  OBVIOUS
<1>2. client = idle /\ live = <<>> /\ got = <<>>
  BY DEF Init
<1>3. client \in Clients /\ client.at = "off" /\ client.cursor = None /\ ~client.all
  BY <1>2 DEF idle, Clients
<1>4. FollowerTypeOK
  BY <1>1, <1>2, <1>3 DEF FollowerTypeOK, Clients
<1>5. file = <<>> /\ append = None /\ cache = None /\ open = FALSE
  BY DEF Init
<1>6. DOMAIN file = {} /\ Finished = {}
  BY <1>5 DEF Finished
<1>7. LinesFit /\ NumbersGrow
  BY <1>5, <1>6 DEF LinesFit, NumbersGrow
<1>. QED
  BY <1>3, <1>4, <1>7 DEF FollowerInv

\* Every step keeps what the follower knows.
LEMMA StepKeepsFollower ==
  ASSUME JournalTypeOK, JournalInv, FollowerTypeOK, FollowerInv, [Next]_vars
  PROVE  FollowerTypeOK' /\ FollowerInv'
<1>0. JournalTypeOK' /\ JournalInv'
  BY StepKeepsJournal
<1>1. CASE (\E n \in 1 .. 2 : AppendEvents(n)) \/ AppendBuffered \/ Drain
  BY <1>1, EmissionFollower
<1>2. CASE StartAppend
  <2>1. emitted' = emitted /\ emitted \in Nat /\ UNCHANGED follower
    BY <1>2, LinesOf DEF StartAppend
  <2>2. FollowerTypeOK'
    BY <1>0, <2>1, FollowerTypeStays
  <2>. QED
    BY <1>0, <1>2, <2>2, StartAppendFollower
<1>3. CASE Land
  <2>1. emitted' = emitted /\ emitted \in Nat /\ UNCHANGED follower
    BY <1>3, LinesOf DEF Land
  <2>2. FollowerTypeOK'
    BY <1>0, <2>1, FollowerTypeStays
  <2>. QED
    BY <1>0, <1>3, <2>2, LandFollower
<1>4. CASE Succeed
  BY <1>0, <1>4, SucceedFollowerType, SucceedFollower
<1>5. CASE Fail
  <2>1. emitted' = emitted /\ emitted \in Nat /\ UNCHANGED follower
    BY <1>5, LinesOf DEF Fail
  <2>2. FollowerTypeOK'
    BY <1>0, <2>1, FollowerTypeStays
  <2>. QED
    BY <1>0, <1>5, <2>2, FailFollower
<1>6. CASE Crash
  <2>1. FollowerTypeOK'
    BY <1>6, IdleFollower DEF Crash
  <2>. QED
    BY <1>0, <1>6, <2>1, CrashFollower
<1>7. CASE Settle \/ UNCHANGED vars
  <2>1. /\ UNCHANGED <<emitted, buffer, queue, cache, append, disk, feed, cut>>
        /\ UNCHANGED follower
    BY <1>7 DEF Settle, vars, disk, follower
  <2>2. emitted <= emitted'
    BY <2>1, LinesOf
  <2>. QED
    BY <1>0, <2>1, <2>2, SettleFollower, FollowerTypeStays
<1>8. CASE \E all \in BOOLEAN : Follow(all)
  BY <1>8, FollowFollower
<1>9. CASE Poll \/ HangsUp
  BY <1>9, PollFollower, HangsUpFollower
<1>10. CASE Read \/ Wake \/ TimesOut
  BY <1>10, ReadFollower, WakeFollower, TimesOutFollower
<1>. QED
  BY <1>1, <1>2, <1>3, <1>4, <1>5, <1>6, <1>7, <1>8, <1>9, <1>10 DEF Next

\* Every variable of the journal and of the follower has its type.
THEOREM TypeCorrect == Spec => []TypeOK
<1>1. Init => JournalTypeOK /\ JournalInv /\ FollowerTypeOK /\ FollowerInv
  BY InitJournal, InitFollower
<1>2. JournalTypeOK /\ JournalInv /\ FollowerTypeOK /\ FollowerInv /\ [Next]_vars =>
        JournalTypeOK' /\ JournalInv' /\ FollowerTypeOK' /\ FollowerInv'
  BY StepKeepsJournal, StepKeepsFollower
<1>3. JournalTypeOK /\ FollowerTypeOK => TypeOK
  BY DEF TypeOK
<1>. QED
  BY <1>1, <1>2, <1>3, PTL DEF Spec

\* The inductive invariant behind what the follower prints: as long as no failed
\* append has left its mark, the numbers of the lines grow, and the follower has
\* printed what was told or landed up to its cursor, has only newer events to
\* come, and does not wait for anything it could have read.
THEOREM FollowerInvariant == Spec => []FollowerInv
<1>1. Init => JournalTypeOK /\ JournalInv /\ FollowerTypeOK /\ FollowerInv
  BY InitJournal, InitFollower
<1>2. JournalTypeOK /\ JournalInv /\ FollowerTypeOK /\ FollowerInv /\ [Next]_vars =>
        JournalTypeOK' /\ JournalInv' /\ FollowerTypeOK' /\ FollowerInv'
  BY StepKeepsJournal, StepKeepsFollower
<1>. QED
  BY <1>1, <1>2, PTL DEF Spec

\* Who follows from the start has printed every event told up to the cursor, in
\* order and once each, whatever lands, fails or is told while it reads page
\* after page, unless a failed append left its mark.
THEOREM FollowerSeesAll == Spec => []FollowerMissesNothing
<1>1. FollowerInv => FollowerMissesNothing
  BY DEF FollowerInv, FollowerMissesNothing, FollowerKnows, PrintsAll, PrintsInOrder
<1>. QED
  BY <1>1, FollowerInvariant, PTL

=============================================================================
