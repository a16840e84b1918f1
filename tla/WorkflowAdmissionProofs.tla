---------------------- MODULE WorkflowAdmissionProofs ----------------------
(***************************************************************************)
(* The slots of WorkflowAdmission, for any agents and any limits: none is  *)
(* lost, given back twice or left unused, requests are served in turn, and *)
(* nobody waits while nothing of ours runs.                                *)
(***************************************************************************)
EXTENDS WorkflowAdmission, FiniteSetTheorems, SequenceTheorems, TLAPS

-----------------------------------------------------------------------------
(* Queues kept in an array: what push and splice leave of a queue that     *)
(* holds everything once, and of the order in it.                          *)

Distinct(q) == \A i, j \in DOMAIN q : q[i] = q[j] => i = j
Members(q) == {q[i] : i \in DOMAIN q}

\* q without its i-th element.
Spliced(q, i) == SubSeq(q, 1, i - 1) \o SubSeq(q, i + 1, Len(q))
IsSpliced(r, q, i) ==
  /\ Len(r) = Len(q) - 1
  /\ \A k \in 1 .. Len(q) - 1 : r[k] = IF k < i THEN q[k] ELSE q[k + 1]

\* A part of a sequence, element by element.
LEMMA PartOf ==
  ASSUME NEW S, NEW q \in Seq(S), NEW a \in Int, NEW b \in Int, 1 <= a, b <= Len(q)
  PROVE  /\ SubSeq(q, a, b) \in Seq(S)
         /\ Len(SubSeq(q, a, b)) = IF a <= b THEN b - a + 1 ELSE 0
         /\ \A k \in 1 .. b - a + 1 : SubSeq(q, a, b)[k] = q[a + k - 1]
<1>1. \A k \in a .. b : q[k] \in S
  OBVIOUS
<1> QED
  BY <1>1, SubSeqProperties

\* What that is, element by element.
LEMMA SplicedSequence ==
  ASSUME NEW S, NEW q \in Seq(S), NEW i \in DOMAIN q
  PROVE  Spliced(q, i) \in Seq(S) /\ IsSpliced(Spliced(q, i), q, i)
<1>n. PICK n \in Nat : n = Len(q) /\ DOMAIN q = 1 .. n /\ i \in 1 .. n
  OBVIOUS
<1>u. PICK u : u = SubSeq(q, 1, i - 1)
  OBVIOUS
<1>v. PICK v : v = SubSeq(q, i + 1, n)
  OBVIOUS
<1>1. /\ u \in Seq(S) /\ Len(u) = i - 1
      /\ \A k \in 1 .. i - 1 : u[k] = q[k]
  <2>1. 1 \in Int /\ i - 1 \in Int /\ 1 <= 1 /\ i - 1 <= Len(q)
    BY <1>n
  <2>2. /\ u \in Seq(S) /\ Len(u) = IF 1 <= i - 1 THEN i - 1 - 1 + 1 ELSE 0
        /\ \A k \in 1 .. i - 1 - 1 + 1 : u[k] = q[1 + k - 1]
    BY <1>u, <2>1, PartOf
  <2> QED
    BY <1>n, <2>2
<1>2. /\ v \in Seq(S) /\ Len(v) = n - i
      /\ \A k \in 1 .. n - i : v[k] = q[i + k]
  <2>1. i + 1 \in Int /\ n \in Int /\ 1 <= i + 1 /\ n <= Len(q)
    BY <1>n
  <2>2. /\ v \in Seq(S) /\ Len(v) = IF i + 1 <= n THEN n - (i + 1) + 1 ELSE 0
        /\ \A k \in 1 .. n - (i + 1) + 1 : v[k] = q[i + 1 + k - 1]
    BY <1>v, <2>1, PartOf
  <2>3. Len(v) = n - i
    BY <1>n, <2>2
  <2>4. ASSUME NEW k \in 1 .. n - i
        PROVE  v[k] = q[i + k]
    <3>1. k \in 1 .. n - (i + 1) + 1 /\ i + 1 + k - 1 = i + k
      BY <1>n
    <3> QED
      BY <2>2, <3>1
  <2> QED
    BY <2>2, <2>3, <2>4
<1>3. PICK r : r = u \o v
  OBVIOUS
<1>4. /\ r \in Seq(S) /\ Len(r) = Len(u) + Len(v)
      /\ \A k \in 1 .. Len(u) + Len(v) : r[k] = IF k <= Len(u) THEN u[k] ELSE v[k - Len(u)]
  BY <1>1, <1>2, <1>3, ConcatProperties
<1>5. Len(r) = n - 1
  BY <1>n, <1>1, <1>2, <1>4
<1>6. ASSUME NEW k \in 1 .. n - 1
      PROVE  r[k] = IF k < i THEN q[k] ELSE q[k + 1]
  <2>1. r[k] = IF k <= i - 1 THEN u[k] ELSE v[k - (i - 1)]
    <3>1. k \in 1 .. Len(u) + Len(v) /\ Len(u) = i - 1
      BY <1>n, <1>1, <1>2
    <3>2. r[k] = IF k <= Len(u) THEN u[k] ELSE v[k - Len(u)]
      BY <1>4, <3>1
    <3> QED
      BY <3>1, <3>2
  <2>2. CASE k < i
    BY <1>n, <1>1, <2>1, <2>2
  <2>3. CASE ~(k < i)
    <3>1. k - (i - 1) \in 1 .. n - i /\ i + (k - (i - 1)) = k + 1
      BY <1>n, <2>3
    <3>2. v[k - (i - 1)] = q[k + 1]
      BY <1>2, <3>1
    <3> QED
      BY <1>n, <2>1, <2>3, <3>2
  <2> QED
    BY <2>2, <2>3
<1>7. r = Spliced(q, i)
  BY <1>n, <1>u, <1>v, <1>3 DEF Spliced
<1> QED
  BY <1>n, <1>4, <1>5, <1>6, <1>7 DEF IsSpliced

\* Taking one out leaves the others, once each.
LEMMA SplicedMembers ==
  ASSUME NEW S, NEW q \in Seq(S), NEW r \in Seq(S), NEW i \in DOMAIN q,
         Distinct(q), IsSpliced(r, q, i)
  PROVE  Distinct(r) /\ Members(r) = Members(q) \ {q[i]}
<1> DEFINE n == Len(q)
<1>n. /\ n \in Nat /\ DOMAIN q = 1 .. n /\ i \in 1 .. n /\ DOMAIN r = 1 .. n - 1
      /\ \A k \in 1 .. n - 1 : r[k] = IF k < i THEN q[k] ELSE q[k + 1]
  BY DEF IsSpliced
<1> HIDE DEF n
<1>1. Distinct(r)
  <2> SUFFICES ASSUME NEW k \in 1 .. n - 1, NEW m \in 1 .. n - 1, r[k] = r[m]
               PROVE  k = m
    BY <1>n DEF Distinct
  <2>1. \A a, b \in 1 .. n : q[a] = q[b] => a = b
    BY <1>n DEF Distinct
  <2> QED
    BY <1>n, <2>1
<1>2. Members(r) \subseteq Members(q) \ {q[i]}
  <2> SUFFICES ASSUME NEW k \in 1 .. n - 1
               PROVE  r[k] \in Members(q) /\ r[k] # q[i]
    BY <1>n DEF Members
  <2>1. PICK m \in 1 .. n : m # i /\ r[k] = q[m]
    BY <1>n
  <2> QED
    BY <1>n, <2>1 DEF Members, Distinct
<1>3. ASSUME NEW k \in 1 .. n, k # i
      PROVE  q[k] \in Members(r)
  <2>1. PICK m \in 1 .. n - 1 : r[m] = q[k]
    <3>1. CASE k < i
      BY <1>n, <3>1
    <3>2. CASE k > i
      <4>1. k - 1 \in 1 .. n - 1 /\ ~(k - 1 < i) /\ k - 1 + 1 = k
        BY <1>n, <3>2
      <4> QED
        BY <1>n, <4>1
    <3> QED
      BY <1>n, <1>3, <3>1, <3>2
  <2> QED
    BY <1>n, <2>1 DEF Members
<1>4. Members(q) \ {q[i]} \subseteq Members(r)
  BY <1>n, <1>3 DEF Members
<1> QED
  BY <1>1, <1>2, <1>4

\* So taking out what is in a queue once takes it out of the queue (splice).
LEMMA SplicedQueue ==
  ASSUME NEW S, NEW q \in Seq(S), Distinct(q), NEW i \in DOMAIN q
  PROVE  /\ Spliced(q, i) \in Seq(S)
         /\ Distinct(Spliced(q, i))
         /\ Members(Spliced(q, i)) = Members(q) \ {q[i]}
BY SplicedSequence, SplicedMembers

\* A new request comes last (push).
LEMMA PushedQueue ==
  ASSUME NEW S, NEW q \in Seq(S), Distinct(q), NEW x \in S, x \notin Members(q)
  PROVE  /\ Append(q, x) \in Seq(S)
         /\ Distinct(Append(q, x))
         /\ Members(Append(q, x)) = Members(q) \cup {x}
<1>1. /\ Append(q, x) \in Seq(S) /\ Len(Append(q, x)) = Len(q) + 1
      /\ \A k \in 1 .. Len(q) : Append(q, x)[k] = q[k]
      /\ Append(q, x)[Len(q) + 1] = x
  OBVIOUS
<1>2. DOMAIN q = 1 .. Len(q) /\ Len(q) \in Nat /\ DOMAIN Append(q, x) = 1 .. Len(q) + 1
  BY <1>1
<1>3. \A k \in 1 .. Len(q) : q[k] # x
  BY <1>2 DEF Members
<1>4. Distinct(Append(q, x))
  BY <1>1, <1>2, <1>3 DEF Distinct
<1>5. Members(Append(q, x)) = Members(q) \cup {x}
  BY <1>1, <1>2 DEF Members
<1> QED
  BY <1>1, <1>4, <1>5

\* x is ahead of y in q.
Ahead(q, x, y) == \E j, k \in DOMAIN q : j < k /\ q[j] = x /\ q[k] = y

\* An element that goes leaves the others in their order.
LEMMA SplicedOrder ==
  ASSUME NEW S, NEW q \in Seq(S), NEW i \in DOMAIN q,
         NEW x, NEW y, Ahead(q, x, y), x # q[i], y # q[i]
  PROVE  Ahead(Spliced(q, i), x, y)
<1> DEFINE r == Spliced(q, i)
<1>n. PICK n \in Nat : n = Len(q) /\ DOMAIN q = 1 .. n /\ i \in 1 .. n
  OBVIOUS
<1>1. r \in Seq(S) /\ Len(r) = n - 1
      /\ \A k \in 1 .. n - 1 : r[k] = IF k < i THEN q[k] ELSE q[k + 1]
  BY <1>n, SplicedSequence DEF IsSpliced
<1> HIDE DEF r
<1>2. DOMAIN r = 1 .. n - 1
  BY <1>1, <1>n
<1>3. PICK j \in 1 .. n, k \in 1 .. n : j < k /\ q[j] = x /\ q[k] = y
  BY <1>n DEF Ahead
<1>4. j # i /\ k # i
  BY <1>3
<1> DEFINE at(m) == IF m < i THEN m ELSE m - 1
<1>5. ASSUME NEW m \in 1 .. n, m # i
      PROVE  at(m) \in 1 .. n - 1 /\ r[at(m)] = q[m]
  <2>1. CASE m < i
    <3>1. at(m) = m /\ m \in 1 .. n - 1
      BY <1>n, <2>1
    <3> QED
      BY <1>1, <2>1, <3>1
  <2>2. CASE ~(m < i)
    <3>1. at(m) = m - 1 /\ m - 1 \in 1 .. n - 1 /\ ~(m - 1 < i) /\ m - 1 + 1 = m
      BY <1>n, <1>5, <2>2
    <3> QED
      BY <1>1, <3>1
  <2> QED
    BY <2>1, <2>2
<1>6. at(j) < at(k)
  BY <1>n, <1>3, <1>4
<1>7. /\ at(j) \in 1 .. n - 1 /\ r[at(j)] = x
      /\ at(k) \in 1 .. n - 1 /\ r[at(k)] = y
  BY <1>3, <1>4, <1>5
<1> HIDE DEF at
<1> QED
  BY <1>2, <1>6, <1>7 DEF Ahead, r

\* One that is pushed is behind all of them.
LEMMA PushedOrder ==
  ASSUME NEW S, NEW q \in Seq(S), NEW z \in S, NEW x
  PROVE  /\ \A y : Ahead(q, x, y) => Ahead(Append(q, z), x, y)
         /\ x \in Members(q) => Ahead(Append(q, z), x, z)
<1>n. PICK n \in Nat : n = Len(q) /\ DOMAIN q = 1 .. n
  OBVIOUS
<1>1. /\ DOMAIN Append(q, z) = 1 .. n + 1 /\ Append(q, z)[n + 1] = z
      /\ \A k \in 1 .. n : Append(q, z)[k] = q[k]
  BY <1>n
<1>2. ASSUME NEW k \in 1 .. n PROVE k \in 1 .. n + 1 /\ k < n + 1
  BY <1>n
<1>3. n + 1 \in 1 .. n + 1
  BY <1>n
<1> QED
  BY <1>n, <1>1, <1>2, <1>3 DEF Ahead, Members

-----------------------------------------------------------------------------

-----------------------------------------------------------------------------
(* The inductive invariant *)

PumpType == [on : BOOLEAN, i : Nat \ {0}, checked : BOOLEAN, open : BOOLEAN]

\* What has its type, as far as the argument needs it.
Typed ==
  /\ queue \in Seq(Agents)
  /\ leases \subseteq Agents
  /\ phase \in [Agents -> Phases]
  /\ limits \in Limits
  /\ pump \in PumpType

\* A request is in the queue once, and only until its slot is granted.
Queued ==
  /\ Distinct(queue)
  /\ \A a \in Waiting : a \notin leases /\ phase[a] \in {"waiting", "lost"}

\* While a walk goes on and nothing of ours runs, it is still at the first
\* request and memory does not hold it.
WalkBegins ==
  queue # <<>> /\ active = 0 =>
    pump.on /\ pump.i = 1 /\ (pump.checked => pump.open)

IInv == Typed /\ Queued /\ SlotsAreHeld /\ WalkBegins

-----------------------------------------------------------------------------
(* Slots *)

\* A grant adds one to the counters and a release takes one off.
LEMMA OneMore ==
  ASSUME NEW a \in Agents, a \notin leases, leases \subseteq Agents
  PROVE  /\ Cardinality(leases \cup {a}) = Cardinality(leases) + 1
         /\ Cardinality((leases \cup {a}) \cap Heavy)
              = Cardinality(leases \cap Heavy) + (IF a \in Heavy THEN 1 ELSE 0)
<1>1. IsFiniteSet(leases) /\ IsFiniteSet(leases \cap Heavy)
  BY FS_Subset, AdmissionAssumption
<1>2. Cardinality(leases \cup {a}) = Cardinality(leases) + 1
  BY <1>1, FS_AddElement
<1>3. CASE a \in Heavy
  <2>1. (leases \cup {a}) \cap Heavy = (leases \cap Heavy) \cup {a} /\ a \notin leases \cap Heavy
    BY <1>3
  <2>2. Cardinality((leases \cap Heavy) \cup {a}) = Cardinality(leases \cap Heavy) + 1
    BY <1>1, <2>1, FS_AddElement
  <2> QED
    BY <1>2, <1>3, <2>1, <2>2
<1>4. CASE a \notin Heavy
  <2>1. (leases \cup {a}) \cap Heavy = leases \cap Heavy
    BY <1>4
  <2>2. Cardinality(leases \cap Heavy) \in Nat
    BY <1>1, FS_CardinalityType
  <2>3. (IF a \in Heavy THEN 1 ELSE 0) = 0
    BY <1>4
  <2> QED
    BY <1>2, <2>1, <2>2, <2>3
<1> QED
  BY <1>3, <1>4

\* One slot given back is one less to count, of either kind.
LEMMA OneLess ==
  ASSUME NEW a \in leases, leases \subseteq Agents
  PROVE  /\ Cardinality(leases \ {a}) = Cardinality(leases) - 1
         /\ Cardinality((leases \ {a}) \cap Heavy)
              = Cardinality(leases \cap Heavy) - (IF a \in Heavy THEN 1 ELSE 0)
<1>1. IsFiniteSet(leases) /\ IsFiniteSet(leases \cap Heavy)
  BY FS_Subset, AdmissionAssumption
<1>2. Cardinality(leases \ {a}) = Cardinality(leases) - 1
  BY <1>1, FS_RemoveElement
<1>3. CASE a \in Heavy
  <2>1. (leases \ {a}) \cap Heavy = (leases \cap Heavy) \ {a} /\ a \in leases \cap Heavy
    BY <1>3
  <2>2. Cardinality((leases \cap Heavy) \ {a}) = Cardinality(leases \cap Heavy) - 1
    BY <1>1, <2>1, FS_RemoveElement
  <2> QED
    BY <1>2, <1>3, <2>1, <2>2
<1>4. CASE a \notin Heavy
  <2>1. (leases \ {a}) \cap Heavy = leases \cap Heavy
    BY <1>4
  <2>2. Cardinality(leases \cap Heavy) \in Nat
    BY <1>1, FS_CardinalityType
  <2>3. (IF a \in Heavy THEN 1 ELSE 0) = 0
    BY <1>4
  <2> QED
    BY <1>2, <2>1, <2>2, <2>3
<1> QED
  BY <1>3, <1>4

\* A heavy slot that is taken is a machine slot that is taken.
LEMMA HeavyIsActive ==
  ASSUME Typed, SlotsAreHeld
  PROVE  active \in Nat /\ heavy \in Nat /\ (heavy > 0 => active > 0)
<1>1. IsFiniteSet(leases) /\ IsFiniteSet(leases \cap Heavy)
  BY FS_Subset, AdmissionAssumption DEF Typed
<1>2. Cardinality(leases \cap Heavy) <= Cardinality(leases)
  BY <1>1, FS_Subset
<1>3. Cardinality(leases) \in Nat /\ Cardinality(leases \cap Heavy) \in Nat
  BY <1>1, FS_CardinalityType
<1> QED
  BY <1>2, <1>3 DEF SlotsAreHeld

-----------------------------------------------------------------------------
(* The walk over the queue *)

\* A change begins a walk at the first request, without a sample.
LEMMA PumpsBegin ==
  ASSUME Pumps
  PROVE  pump' \in PumpType /\ pump'.on /\ pump'.i = 1 /\ ~pump'.checked
<1>1. pump' = [on |-> TRUE, i |-> 1, checked |-> FALSE, open |-> TRUE]
  BY DEF Pumps, NoPump
<1>2. pump'.on /\ pump'.i = 1 /\ ~pump'.checked
  BY <1>1
<1>3. pump' \in PumpType
  BY <1>1 DEF PumpType
<1> QED
  BY <1>2, <1>3

\* A request that is taken back is in the queue no more.
LEMMA TakenBack ==
  ASSUME Typed, Queued, NEW a \in Agents, Cancels(a)
  PROVE  /\ queue' \in Seq(Agents) /\ Distinct(queue') /\ Waiting' = Waiting \ {a}
         /\ pump' \in PumpType
         /\ \/ UNCHANGED <<queue, pump>>
            \/ pump'.on /\ pump'.i = 1 /\ ~pump'.checked
<1>1. CASE a \in Waiting /\ Pumps /\ \E i \in DOMAIN queue : queue[i] = a /\ queue' = Without(i)
  <2>1. PICK i \in DOMAIN queue : queue[i] = a /\ queue' = Spliced(queue, i)
    BY <1>1 DEF Without, Spliced
  <2>2. /\ queue' \in Seq(Agents) /\ Distinct(queue')
        /\ Members(queue') = Members(queue) \ {a}
    BY <2>1, SplicedQueue DEF Typed, Queued
  <2> QED
    BY <1>1, <2>2, PumpsBegin DEF Waiting, Members
<1>2. CASE a \notin Waiting /\ UNCHANGED <<queue, pump>>
  <2>1. queue' = queue /\ pump' = pump /\ Waiting' = Waiting
    BY <1>2 DEF Waiting
  <2> QED
    BY <1>2, <2>1 DEF Typed, Queued
<1> QED
  BY <1>1, <1>2 DEF Cancels

\* The request that the walk looks at.
LEMMA AskingWaits ==
  ASSUME Typed, Queued, Walking
  PROVE  /\ pump.i \in DOMAIN queue /\ Asking = queue[pump.i]
         /\ Asking \in Waiting /\ Asking \in Agents
         /\ Asking \notin leases /\ phase[Asking] \in {"waiting", "lost"}
<1>1. pump.i \in Nat \ {0} /\ pump.i <= Len(queue)
  BY DEF Typed, PumpType, Walking
<1>2. pump.i \in DOMAIN queue /\ Asking = queue[pump.i]
  BY <1>1 DEF Typed, Asking
<1>3. Asking \in Waiting /\ Asking \in Agents
  BY <1>2 DEF Waiting, Typed
<1> QED
  BY <1>2, <1>3 DEF Queued

-----------------------------------------------------------------------------
(* The invariant is inductive *)

\* Nothing waits and nothing is taken at first.
LEMMA InitInv == Init => IInv
<1> SUFFICES ASSUME Init PROVE IInv
  OBVIOUS
<1>1. Typed
  <2>1. pump \in PumpType
    BY DEF Init, NoPump, PumpType
  <2>2. phase \in [Agents -> Phases]
    BY DEF Init, Phases
  <2> QED
    BY <2>1, <2>2 DEF Init, Typed
<1>2. Queued
  BY DEF Init, Queued, Waiting, Distinct
<1>3. SlotsAreHeld
  <2>1. {} \cap Heavy = {} /\ Cardinality({}) = 0
    BY FS_EmptySet
  <2> QED
    BY <2>1 DEF Init, SlotsAreHeld
<1>4. WalkBegins
  BY DEF Init, WalkBegins
<1> QED
  BY <1>1, <1>2, <1>3, <1>4 DEF IInv

\* A step of the walk that leaves the queue and the slots alone.
LEMMA WalkKeeps ==
  ASSUME IInv, PumpFull \/ PumpSkips \/ PumpSamples \/ PumpHolds \/ PumpEnds
  PROVE  IInv'
<1>1. UNCHANGED <<queue, active, heavy, leases, phase, limits>>
  BY DEF PumpFull, PumpSkips, PumpSamples, PumpHolds, PumpEnds, counts
<1>2. pump.i \in Nat \ {0} /\ pump.on \in BOOLEAN /\ pump.checked \in BOOLEAN /\ pump.open \in BOOLEAN
  BY DEF IInv, Typed, PumpType
<1>3. pump' \in PumpType /\ WalkBegins'
  <2>1. /\ active \in Nat /\ heavy \in Nat /\ (heavy > 0 => active > 0)
        /\ limits.machine \in Nat \ {0} /\ limits.heavy \in Nat \ {0}
    BY HeavyIsActive, AdmissionAssumption DEF IInv, Typed
  <2>2. NoPump \in PumpType
    BY DEF NoPump, PumpType
  <2>3. CASE PumpFull
    BY <1>1, <2>1, <2>2, <2>3 DEF PumpFull, WalkBegins
  <2>4. CASE PumpSkips
    <3>1. active > 0
      BY <2>1, <2>4 DEF PumpSkips, HeavyFull
    <3>2. pump' \in PumpType
      BY <2>4, <1>2 DEF PumpSkips, Passes, PumpType, IInv, Typed
    <3> QED
      BY <1>1, <3>1, <3>2 DEF WalkBegins
  <2>5. CASE PumpSamples
    <3>1. PICK o \in BOOLEAN : /\ pump' = [pump EXCEPT !.checked = TRUE, !.open = o]
                               /\ active = 0 => o
      BY <2>5 DEF PumpSamples, MemoryOpen
    <3>2. pump' \in PumpType /\ pump'.on = pump.on /\ pump'.i = pump.i /\ pump'.open = o
      BY <3>1 DEF PumpType, IInv, Typed
    <3> QED
      BY <1>1, <3>1, <3>2 DEF WalkBegins, IInv
  <2>6. CASE PumpHolds
    <3>1. queue # <<>> => active # 0
      BY <2>6 DEF PumpHolds, WalkBegins, IInv
    <3> QED
      BY <1>1, <2>2, <2>6, <3>1 DEF PumpHolds, WalkBegins
  <2>7. CASE PumpEnds
    <3>1. queue # <<>> => Len(queue) \in Nat \ {0}
      BY DEF IInv, Typed
    <3>2. queue # <<>> => active # 0
      BY <1>2, <2>7, <3>1 DEF PumpEnds, WalkBegins, IInv
    <3> QED
      BY <1>1, <2>2, <2>7, <3>2 DEF PumpEnds, WalkBegins
  <2> QED
    BY <2>3, <2>4, <2>5, <2>6, <2>7
<1>4. Typed' /\ Queued' /\ SlotsAreHeld'
  BY <1>1, <1>3 DEF IInv, Typed, Queued, Waiting, SlotsAreHeld
<1> QED
  BY <1>3, <1>4 DEF IInv

\* The walk grants a slot.
LEMMA GrantKeeps ==
  ASSUME IInv, PumpGrants
  PROVE  IInv'
<1>1. PICK a \in Agents : /\ a = Asking /\ a = queue[pump.i] /\ pump.i \in DOMAIN queue
                          /\ a \notin leases /\ phase[a] \in {"waiting", "lost"}
  BY AskingWaits DEF IInv, PumpGrants
<1>2. /\ queue' = Spliced(queue, pump.i) /\ leases' = leases \cup {a} /\ limits' = limits
      /\ active' = active + 1 /\ heavy' = heavy + (IF a \in Heavy THEN 1 ELSE 0)
      /\ phase' = [phase EXCEPT ![a] = IF @ = "waiting" THEN "won" ELSE @]
  BY <1>1 DEF PumpGrants, Without, Spliced, gate
<1>3. /\ queue' \in Seq(Agents) /\ Distinct(queue')
      /\ Members(queue') = Members(queue) \ {a}
  BY <1>1, <1>2, SplicedQueue DEF IInv, Typed, Queued
<1>4. /\ phase' \in [Agents -> Phases] /\ phase'[a] \in {"won", "lost"}
      /\ \A b \in Agents \ {a} : phase'[b] = phase[b]
  BY <1>1, <1>2 DEF IInv, Typed, Phases
<1>5. Typed'
  <2>1. pump' \in PumpType
    BY DEF PumpGrants, IInv, Typed, PumpType
  <2> QED
    BY <1>1, <1>2, <1>3, <1>4, <2>1 DEF IInv, Typed
<1>6. Queued'
  <2>1. Waiting' = Waiting \ {a} /\ Waiting \subseteq Agents
    <3>1. Waiting = Members(queue) /\ Waiting' = Members(queue')
      BY DEF Waiting, Members
    <3> QED
      BY <1>3, <3>1 DEF Members, IInv, Typed
  <2> QED
    BY <1>2, <1>3, <1>4, <2>1 DEF IInv, Queued
<1>7. SlotsAreHeld'
  <2>1. active' = Cardinality(leases') /\ heavy' = Cardinality(leases' \cap Heavy)
    BY <1>1, <1>2, OneMore DEF IInv, Typed, SlotsAreHeld
  <2> QED
    BY <1>1, <1>2, <1>4, <2>1 DEF IInv, SlotsAreHeld, Typed
<1>8. WalkBegins'
  BY <1>2, HeavyIsActive DEF WalkBegins, IInv
<1> QED
  BY <1>5, <1>6, <1>7, <1>8 DEF IInv

\* A request comes.
LEMMA RequestKeeps ==
  ASSUME IInv, NEW a \in Agents, Request(a)
  PROVE  IInv'
<1>1. /\ phase[a] = "new" /\ queue' = Append(queue, a) /\ phase' = [phase EXCEPT ![a] = "waiting"]
      /\ UNCHANGED <<active, heavy, leases, limits>>
  BY DEF Request, QueuedLast, counts
<1>2. pump' \in PumpType /\ pump'.on /\ pump'.i = 1 /\ ~pump'.checked
  BY PumpsBegin DEF Request
<1>3. a \notin Waiting /\ a \notin leases
  BY <1>1 DEF IInv, Queued, SlotsAreHeld
<1>4. Waiting = Members(queue) /\ Waiting' = Members(queue')
  BY DEF Waiting, Members
<1>5. /\ queue' \in Seq(Agents) /\ Distinct(queue') /\ Waiting' = Waiting \cup {a}
  BY <1>1, <1>3, <1>4, PushedQueue DEF IInv, Typed, Queued
<1>6. /\ phase' \in [Agents -> Phases] /\ phase'[a] = "waiting"
      /\ \A b \in Agents \ {a} : phase'[b] = phase[b]
  BY <1>1 DEF IInv, Typed, Phases
<1>7. Waiting \subseteq Agents
  BY <1>4 DEF Members, IInv, Typed
<1>8. Typed'
  BY <1>1, <1>2, <1>5, <1>6 DEF IInv, Typed
<1>9. Queued'
  BY <1>1, <1>3, <1>5, <1>6, <1>7 DEF IInv, Queued
<1>10. SlotsAreHeld'
  BY <1>1, <1>3, <1>6 DEF IInv, SlotsAreHeld, Typed
<1>11. WalkBegins'
  BY <1>2 DEF WalkBegins
<1> QED
  BY <1>8, <1>9, <1>10, <1>11 DEF IInv

\* A request is taken back, or not, and its agent moves to the phase p: its
\* slot, if it has one, it keeps.
LEMMA PhaseKeeps ==
  ASSUME IInv, NEW a \in Agents, NEW p \in Phases,
         phase' = [phase EXCEPT ![a] = p], Cancels(a) \/ UNCHANGED <<queue, pump>>,
         UNCHANGED <<active, heavy, leases, limits>>,
         a \in leases => p \in {"won", "lost", "late", "running"},
         p \in {"won", "late", "running"} => a \in leases,
         a \in Waiting' => p \in {"waiting", "lost"}
  PROVE  IInv'
<1>1. /\ queue' \in Seq(Agents) /\ Distinct(queue') /\ Waiting' \subseteq Waiting
      /\ pump' \in PumpType
      /\ \/ UNCHANGED <<queue, pump>>
         \/ pump'.on /\ pump'.i = 1 /\ ~pump'.checked
  <2>1. CASE Cancels(a)
    BY <2>1, TakenBack DEF IInv
  <2>2. CASE UNCHANGED <<queue, pump>>
    BY <2>2 DEF IInv, Typed, Queued, Waiting
  <2> QED
    BY <2>1, <2>2
<1>2. /\ phase' \in [Agents -> Phases] /\ phase'[a] = p
      /\ \A b \in Agents \ {a} : phase'[b] = phase[b]
  BY DEF IInv, Typed
<1>3. Waiting' \subseteq Agents
  BY <1>1 DEF Waiting
<1>4. Typed'
  BY <1>1, <1>2 DEF IInv, Typed
<1>5. Queued'
  BY <1>1, <1>2, <1>3 DEF IInv, Queued
<1>6. SlotsAreHeld'
  BY <1>2 DEF IInv, SlotsAreHeld, Typed
<1>7. WalkBegins'
  BY <1>1 DEF WalkBegins, IInv
<1> QED
  BY <1>4, <1>5, <1>6, <1>7 DEF IInv

\* A slot is given back, by an agent that is over then.
LEMMA ReleaseKeeps ==
  ASSUME IInv, NEW a \in Agents, phase[a] \in {"won", "late", "running"}, Releases(a),
         phase' = [phase EXCEPT ![a] = "over"], UNCHANGED <<queue, limits>>
  PROVE  IInv'
<1>1. a \in leases /\ a \notin Waiting
  BY DEF IInv, SlotsAreHeld, Queued
<1>2. /\ leases' = leases \ {a} /\ active' = active - 1
      /\ heavy' = heavy - (IF a \in Heavy THEN 1 ELSE 0)
  BY DEF Releases, HeavyWithout
<1>3. pump' \in PumpType /\ pump'.on /\ pump'.i = 1 /\ ~pump'.checked
  BY PumpsBegin DEF Releases
<1>4. /\ phase' \in [Agents -> Phases] /\ phase'[a] = "over"
      /\ \A b \in Agents \ {a} : phase'[b] = phase[b]
  BY DEF IInv, Typed, Phases
<1>5. Waiting' = Waiting /\ Waiting \subseteq Agents
  BY DEF Waiting, IInv, Typed
<1>6. Typed'
  BY <1>2, <1>3, <1>4 DEF IInv, Typed
<1>7. Queued'
  BY <1>1, <1>2, <1>4, <1>5 DEF IInv, Queued
<1>8. SlotsAreHeld'
  <2>1. active' = Cardinality(leases') /\ heavy' = Cardinality(leases' \cap Heavy)
    BY <1>1, <1>2, OneLess DEF IInv, Typed, SlotsAreHeld
  <2> QED
    BY <1>1, <1>2, <1>4, <2>1 DEF IInv, SlotsAreHeld, Typed
<1>9. WalkBegins'
  BY <1>3 DEF WalkBegins
<1> QED
  BY <1>6, <1>7, <1>8, <1>9 DEF IInv

\* The settings, the timer and the machine touch no request and no slot.
LEMMA OthersKeep ==
  ASSUME IInv, UNCHANGED <<queue, active, heavy, leases, phase>>, limits' \in Limits,
         Pumps \/ UNCHANGED pump
  PROVE  IInv'
<1>1. /\ pump' \in PumpType
      /\ pump' = pump \/ (pump'.on /\ pump'.i = 1 /\ ~pump'.checked)
  BY PumpsBegin DEF IInv, Typed
<1>2. WalkBegins'
  BY <1>1 DEF IInv, WalkBegins
<1> QED
  BY <1>1, <1>2 DEF IInv, Typed, Queued, Waiting, SlotsAreHeld

\* Every step keeps the invariant.
LEMMA NextInv == IInv /\ [Next]_vars => IInv'
<1> SUFFICES ASSUME IInv, [Next]_vars PROVE IInv'
  OBVIOUS
<1>t. /\ limits \in Limits /\ phase \in [Agents -> Phases]
  BY DEF IInv, Typed
<1>1. CASE Pump
  BY <1>1, WalkKeeps, GrantKeeps DEF Pump
<1>2. ASSUME NEW a \in Agents, Request(a)
      PROVE  IInv'
  BY <1>2, RequestKeeps
<1>3. ASSUME NEW a \in Agents, Won(a)
      PROVE  IInv'
  <2>1. CASE /\ phase' = [phase EXCEPT ![a] = "running"]
             /\ UNCHANGED <<counts, baseline, pump>>
    <3>1. a \in leases /\ a \notin Waiting
      BY <1>3 DEF Won, IInv, SlotsAreHeld, Queued
    <3>2. UNCHANGED <<queue, active, heavy, leases, limits, pump>> /\ Waiting' = Waiting
      BY <1>3, <2>1 DEF Won, counts, Waiting
    <3>3. "running" \in Phases
      BY DEF Phases
    <3> QED
      BY <2>1, <3>1, <3>2, <3>3, PhaseKeeps
  <2>2. CASE phase' = [phase EXCEPT ![a] = "over"] /\ Releases(a)
    <3>1. phase[a] \in {"won", "late", "running"} /\ UNCHANGED <<queue, limits>>
      BY <1>3 DEF Won
    <3> QED
      BY <2>2, <3>1, ReleaseKeeps
  <2> QED
    BY <1>3, <2>1, <2>2 DEF Won
<1>4. ASSUME NEW a \in Agents, Lost(a)
      PROVE  IInv'
  <2>1. PICK p : p = IF a \in leases THEN "late" ELSE "over"
    OBVIOUS
  <2>2. /\ phase' = [phase EXCEPT ![a] = p] /\ Cancels(a)
        /\ UNCHANGED <<active, heavy, leases, limits>>
    BY <1>4, <2>1 DEF Lost, AfterLoss, counts
  <2>3. a \notin Waiting'
    BY <2>2, TakenBack DEF IInv
  <2>4. p \in Phases
    BY <2>1 DEF Phases
  <2> QED
    BY <2>1, <2>2, <2>3, <2>4, PhaseKeeps
<1>5. ASSUME NEW a \in Agents, Back(a)
      PROVE  IInv'
  <2>1. /\ phase[a] \in {"won", "late", "running"} /\ Releases(a)
        /\ phase' = [phase EXCEPT ![a] = "over"] /\ UNCHANGED <<queue, limits>>
    BY <1>5 DEF Back
  <2> QED
    BY <2>1, ReleaseKeeps
<1>6. ASSUME NEW a \in Agents, NEW all \in BOOLEAN, Abort(a, all)
      PROVE  IInv'
  <2>1. PICK p : p = IF phase[a] = "waiting" THEN "lost" ELSE phase[a]
    OBVIOUS
  <2>2. /\ phase' = [phase EXCEPT ![a] = p] /\ (Cancels(a) \/ UNCHANGED <<queue, pump>>)
        /\ UNCHANGED <<active, heavy, leases, limits>>
    BY <1>6, <2>1 DEF Abort, counts
  <2>3. p \in Phases
    BY <1>t, <2>1 DEF Phases
  <2>4. /\ a \in leases => p \in {"won", "lost", "late", "running"}
        /\ p \in {"won", "late", "running"} => a \in leases
    BY <2>1 DEF IInv, SlotsAreHeld
  <2>5. Waiting' \subseteq Waiting
    BY <2>2, TakenBack DEF IInv, Waiting
  <2>6. a \in Waiting' => p \in {"waiting", "lost"}
    BY <2>1, <2>5 DEF IInv, Queued
  <2> QED
    BY <2>2, <2>3, <2>4, <2>6, PhaseKeeps
<1>7. ASSUME NEW a \in Agents, Runtime(a)
      PROVE  IInv'
  BY <1>2, <1>3, <1>4, <1>5, <1>6, <1>7 DEF Runtime
<1>8. CASE Recheck
  BY <1>8, <1>t, OthersKeep DEF Recheck, counts
<1>9. ASSUME NEW l \in Limits, Configure(l)
      PROVE  IInv'
  BY <1>9, OthersKeep DEF Configure, counts
<1>10. CASE Machine
  BY <1>10, <1>t, OthersKeep DEF Machine, counts
<1>11. CASE UNCHANGED vars
  BY <1>11, <1>t, OthersKeep DEF vars
<1> QED
  BY <1>1, <1>7, <1>8, <1>9, <1>10, <1>11 DEF Next

-----------------------------------------------------------------------------

\* No race of a grant with an abort loses a slot or gives one back twice, for
\* any agents and any limits.
THEOREM SlotsStayHeld == Spec => []SlotsAreHeld
<1>1. IInv => SlotsAreHeld
  BY DEF IInv
<1> QED
  BY InitInv, NextInv, <1>1, PTL DEF Spec

\* A queue never waits for somebody else's memory alone (memoryOpen).
THEOREM NobodyEverWaitsAlone == Spec => []NobodyWaitsAlone
<1>1. IInv => NobodyWaitsAlone
  <2> SUFFICES ASSUME IInv, Idle, queue # <<>> PROVE active > 0
    BY DEF NobodyWaitsAlone
  <2>1. active \in Nat
    BY HeavyIsActive DEF IInv
  <2> QED
    BY <2>1 DEF IInv, WalkBegins, Idle
<1> QED
  BY InitInv, NextInv, <1>1, PTL DEF Spec

-----------------------------------------------------------------------------
(* No slot is wasted, and requests are served as they came.                 *)

\* The requests that a walk has passed by are heavy ones without a slot: no
\* slot comes free and no setting changes before the walk is over.
PassedBy == pump.on => \A j \in DOMAIN queue : j < pump.i => HeavyFull(queue[j])

WalkInv == PassedBy /\ NoSlotIsWasted

\* Whatever changes the queue, a slot, a setting or the timer between two walks
\* begins a walk.
LEMMA ChangesPump ==
  ASSUME [Next]_vars, ~Pump
  PROVE  Pumps \/ UNCHANGED <<queue, active, heavy, leases, limits, timer, pump>>
<1>1. ASSUME NEW a \in Agents, Runtime(a)
      PROVE  Pumps \/ UNCHANGED <<queue, active, heavy, leases, limits, timer, pump>>
  <2>1. ASSUME Request(a) PROVE Pumps
    BY <2>1 DEF Request
  <2>2. ASSUME Won(a)
        PROVE  Pumps \/ UNCHANGED <<queue, active, heavy, leases, limits, timer, pump>>
    BY <2>2 DEF Won, Releases, counts
  <2>3. ASSUME Lost(a)
        PROVE  Pumps \/ UNCHANGED <<queue, active, heavy, leases, limits, timer, pump>>
    BY <2>3 DEF Lost, Cancels, counts, gate
  <2>4. ASSUME Back(a) PROVE Pumps
    BY <2>4 DEF Back, Releases
  <2>5. ASSUME NEW all \in BOOLEAN, Abort(a, all)
        PROVE  Pumps \/ UNCHANGED <<queue, active, heavy, leases, limits, timer, pump>>
    BY <2>5 DEF Abort, Cancels, counts, gate
  <2> QED
    BY <1>1, <2>1, <2>2, <2>3, <2>4, <2>5 DEF Runtime
<1>2. ASSUME Recheck \/ \E l \in Limits : Configure(l)
      PROVE  Pumps
  BY <1>2 DEF Recheck, Configure
<1>3. ASSUME Machine \/ UNCHANGED vars
      PROVE  UNCHANGED <<queue, active, heavy, leases, limits, timer, pump>>
  BY <1>3 DEF Machine, vars, counts, gate
<1> QED
  BY <1>1, <1>2, <1>3 DEF Next

\* A grant in the middle of the queue leaves behind only requests its walk
\* passed by.
LEMMA GrantPasses ==
  ASSUME IInv, PassedBy, PumpGrants
  PROVE  WalkInv'
<1> DEFINE i == pump.i
<1>1. /\ i \in DOMAIN queue /\ queue' = Spliced(queue, i) /\ i \in Nat
      /\ queue \in Seq(Agents) /\ pump.on
  BY AskingWaits DEF IInv, Typed, PumpType, PumpGrants, Without, Spliced, Walking
<1>2. pump'.on /\ pump'.i = i
  BY DEF PumpGrants, IInv, Typed, PumpType, Walking
<1>3. heavy \in Nat /\ limits' = limits /\ heavy' \in {heavy, heavy + 1}
  BY HeavyIsActive DEF IInv, PumpGrants
<1>4. limits.heavy \in Nat
  BY AdmissionAssumption DEF IInv, Typed
<1>5. ASSUME NEW j \in DOMAIN queue', j < i
      PROVE  queue'[j] \in Heavy /\ heavy' >= limits'.heavy
  <2>1. PICK n \in Nat : n = Len(queue) /\ DOMAIN queue = 1 .. n
    BY <1>1
  <2>2. /\ queue' \in Seq(Agents) /\ Len(queue') = n - 1
        /\ \A k \in 1 .. n - 1 : queue'[k] = IF k < i THEN queue[k] ELSE queue[k + 1]
    BY <1>1, <2>1, SplicedSequence DEF IsSpliced
  <2>3. DOMAIN queue' = 1 .. n - 1
    BY <2>1, <2>2
  <2>4. queue'[j] = queue[j] /\ j \in DOMAIN queue
    BY <1>5, <2>1, <2>2, <2>3
  <2>5. queue[j] \in Heavy /\ heavy >= limits.heavy
    BY <1>1, <1>5, <2>4 DEF PassedBy, HeavyFull
  <2> QED
    BY <1>3, <1>4, <2>4, <2>5
<1> HIDE DEF i
<1>6. PassedBy'
  BY <1>2, <1>5 DEF PassedBy, HeavyFull
<1>7. NoSlotIsWasted'
  BY <1>2 DEF NoSlotIsWasted, Idle
<1> QED
  BY <1>6, <1>7 DEF WalkInv

\* A walk ends because every machine slot is taken, because a recheck is due
\* or because every request that is left waits for a heavy slot.
LEMMA WalkPasses ==
  ASSUME IInv, PassedBy, PumpFull \/ PumpSkips \/ PumpSamples \/ PumpHolds \/ PumpEnds
  PROVE  WalkInv'
<1>1. /\ UNCHANGED <<queue, active, heavy, limits>> /\ pump.on
      /\ pump \in PumpType /\ pump.i \in Nat /\ queue \in Seq(Agents)
  BY DEF PumpFull, PumpSkips, PumpSamples, PumpHolds, PumpEnds, counts, Walking,
         IInv, Typed, PumpType
<1>2. CASE PumpFull
  BY <1>1, <1>2 DEF PumpFull, NoPump, WalkInv, PassedBy, NoSlotIsWasted, Waiting
<1>3. CASE PumpSkips
  <2>1. pump'.on /\ pump'.i = pump.i + 1
    BY <1>1, <1>3 DEF PumpSkips, Passes, PumpType
  <2>2. HeavyFull(queue[pump.i])
    BY <1>3 DEF PumpSkips, Asking
  <2>3. ASSUME NEW j \in DOMAIN queue, j < pump.i + 1
        PROVE  HeavyFull(queue[j])
    <3>1. j < pump.i \/ j = pump.i
      BY <1>1, <2>3
    <3> QED
      BY <1>1, <2>2, <3>1 DEF PassedBy
  <2> QED
    BY <1>1, <2>1, <2>3 DEF WalkInv, PassedBy, NoSlotIsWasted, Idle, HeavyFull
<1>4. CASE PumpSamples
  <2>1. pump'.on /\ pump'.i = pump.i
    BY <1>1, <1>4 DEF PumpSamples, PumpType
  <2> QED
    BY <1>1, <2>1 DEF WalkInv, PassedBy, NoSlotIsWasted, Idle, HeavyFull
<1>5. CASE PumpHolds
  BY <1>5 DEF PumpHolds, SchedulesRecheck, NoPump, WalkInv, PassedBy, NoSlotIsWasted
<1>6. CASE PumpEnds
  <2>1. \A j \in DOMAIN queue : j < pump.i
    BY <1>1, <1>6 DEF PumpEnds
  <2>2. \A a \in Waiting : HeavyFull(a)
    BY <1>1, <2>1 DEF PassedBy, Waiting
  <2> QED
    BY <1>1, <1>6, <2>2 DEF PumpEnds, NoPump, WalkInv, PassedBy, NoSlotIsWasted,
                            Waiting, HeavyFull
<1> QED
  BY <1>2, <1>3, <1>4, <1>5, <1>6

\* What a walk passed by it could not have served, after every step.
LEMMA NextWalkInv == IInv /\ WalkInv /\ [Next]_vars => WalkInv'
<1> SUFFICES ASSUME IInv, WalkInv, [Next]_vars PROVE WalkInv'
  OBVIOUS
<1>1. CASE Pump
  BY <1>1, GrantPasses, WalkPasses DEF Pump, WalkInv
<1>2. CASE ~Pump /\ Pumps
  <2>1. pump'.on /\ pump'.i = 1
    BY <1>2, PumpsBegin
  <2>2. queue' \in Seq(Agents)
    BY NextInv DEF IInv, Typed
  <2>3. \A j \in DOMAIN queue' : ~(j < 1)
    BY <2>2
  <2> QED
    BY <2>1, <2>3 DEF WalkInv, PassedBy, NoSlotIsWasted, Idle
<1>3. CASE UNCHANGED <<queue, active, heavy, leases, limits, timer, pump>>
  BY <1>3 DEF WalkInv, PassedBy, NoSlotIsWasted, Idle, HeavyFull, Waiting
<1> QED
  BY <1>1, <1>2, <1>3, ChangesPump

\* A slot that could be used is used, for any agents, limits and memory: when
\* the walk over the queue is over, who waits has a reason (pump).
THEOREM NoSlotIsEverWasted == Spec => []NoSlotIsWasted
<1>1. Init => WalkInv
  BY DEF Init, WalkInv, PassedBy, NoSlotIsWasted, NoPump, Waiting
<1>2. WalkInv => NoSlotIsWasted
  BY DEF WalkInv
<1> QED
  BY InitInv, NextInv, <1>1, NextWalkInv, <1>2, PTL DEF Spec

\* Who is before a in the queue, or before a request that is not made yet.
LEMMA BeforeIs ==
  ASSUME queue \in Seq(Agents), NEW a, NEW b
  PROVE  b \in Before(a) <=> b \in Waiting /\ (a \in Waiting => Ahead(queue, b, a))
<1>1. PICK n \in Nat : n = Len(queue) /\ DOMAIN queue = 1 .. n
  OBVIOUS
<1>2. ASSUME NEW j \in 1 .. n
      PROVE  a \in From(j + 1) <=> \E k \in 1 .. n : j < k /\ queue[k] = a
  BY <1>1 DEF From
<1> QED
  BY <1>1, <1>2 DEF Before, Waiting, Ahead

\* Who is ahead of whom, in the queue a step leaves.
LEMMA BeforeNext ==
  ASSUME queue' \in Seq(Agents), NEW a, NEW b
  PROVE  b \in Before(a)' <=> b \in Waiting' /\ (a \in Waiting' => Ahead(queue', b, a))
<1>1. PICK n \in Nat : n = Len(queue') /\ DOMAIN queue' = 1 .. n
  OBVIOUS
<1>2. ASSUME NEW j \in 1 .. n
      PROVE  a \in From(j + 1)' <=> \E k \in 1 .. n : j < k /\ queue'[k] = a
  BY <1>1 DEF From
<1> QED
  BY <1>1, <1>2 DEF Before, Waiting, Ahead

\* A step leaves the queue as it is, takes one request out, or puts a new one
\* at its end.
LEMMA QueueChanges ==
  ASSUME IInv, [Next]_vars
  PROVE  \/ queue' = queue
         \/ \E i \in DOMAIN queue : queue' = Spliced(queue, i)
         \/ \E a \in Agents : a \notin Waiting /\ queue' = Append(queue, a)
<1> DEFINE Goal == \/ queue' = queue
                   \/ \E i \in DOMAIN queue : queue' = Spliced(queue, i)
                   \/ \E a \in Agents : a \notin Waiting /\ queue' = Append(queue, a)
<1>1. ASSUME NEW a \in Agents, Runtime(a)
      PROVE  Goal
  <2>1. ASSUME Cancels(a) PROVE Goal
    BY <2>1 DEF Cancels, Without, Spliced
  <2>2. ASSUME Request(a) PROVE Goal
    <3>1. phase[a] = "new" /\ queue' = Append(queue, a)
      BY <2>2 DEF Request, QueuedLast
    <3>2. a \notin Waiting
      BY <3>1 DEF IInv, Queued
    <3> QED
      BY <3>1, <3>2
  <2>3. ASSUME Won(a) \/ Back(a) PROVE Goal
    BY <2>3 DEF Won, Back
  <2>4. ASSUME Lost(a) PROVE Goal
    BY <2>1, <2>4 DEF Lost
  <2>5. ASSUME NEW all \in BOOLEAN, Abort(a, all) PROVE Goal
    BY <2>1, <2>5 DEF Abort
  <2> QED
    BY <1>1, <2>2, <2>3, <2>4, <2>5 DEF Runtime
<1>2. ASSUME PumpGrants PROVE Goal
  BY <1>2, AskingWaits DEF IInv, PumpGrants, Without, Spliced
<1>3. ASSUME PumpFull \/ PumpSkips \/ PumpSamples \/ PumpHolds \/ PumpEnds
      PROVE  Goal
  BY <1>3 DEF PumpFull, PumpSkips, PumpSamples, PumpHolds, PumpEnds
<1>4. ASSUME Machine \/ Recheck \/ (\E l \in Limits : Configure(l)) \/ UNCHANGED vars
      PROVE  Goal
  BY <1>4 DEF Machine, Recheck, Configure, vars
<1> QED
  BY <1>1, <1>2, <1>3, <1>4 DEF Next, Pump

\* Who waits behind somebody stays behind.
LEMMA OrderStays ==
  ASSUME IInv, IInv', [Next]_vars, NEW a \in Waiting', NEW b \in Before(a), b \in Waiting'
  PROVE  b \in Before(a)'
<1>1. /\ queue \in Seq(Agents) /\ queue' \in Seq(Agents) /\ Distinct(queue)
      /\ Waiting = Members(queue) /\ Waiting' = Members(queue')
  BY DEF IInv, Typed, Queued, Waiting, Members
<1>2. b \in Waiting /\ (a \in Waiting => Ahead(queue, b, a))
  BY <1>1, BeforeIs
<1>3. Ahead(queue', b, a)
  <2>1. CASE queue' = queue
    BY <1>1, <1>2, <2>1
  <2>2. ASSUME NEW i \in DOMAIN queue, queue' = Spliced(queue, i)
        PROVE  Ahead(queue', b, a)
    <3>1. Members(queue') = Members(queue) \ {queue[i]}
      BY <1>1, <2>2, SplicedQueue
    <3>2. a \in Waiting /\ a # queue[i] /\ b # queue[i]
      BY <1>1, <3>1
    <3> QED
      BY <1>1, <1>2, <2>2, <3>2, SplicedOrder
  <2>3. ASSUME NEW c \in Agents, c \notin Waiting, queue' = Append(queue, c)
        PROVE  Ahead(queue', b, a)
    <3>1. Members(queue') = Members(queue) \cup {c}
      BY <1>1, <2>3, PushedQueue
    <3> QED
      BY <1>1, <1>2, <2>3, <3>1, PushedOrder
  <2> QED
    BY <2>1, <2>2, <2>3, QueueChanges
<1> QED
  BY <1>1, <1>3, BeforeNext

\* Only a walk grants a slot, and to the request it is at.
LEMMA GrantsAreInTurn ==
  ASSUME IInv, WalkInv, [Next]_vars, NEW a \in leases' \ leases
  PROVE  /\ active' <= limits.machine /\ (a \in Heavy => heavy' <= limits.heavy)
         /\ \A b \in Before(a) : HeavyFull(b)
<1>1. PumpGrants
  <2>1. ASSUME ~Pump PROVE FALSE
    <3>1. ASSUME NEW b \in Agents, Runtime(b) PROVE leases' \subseteq leases
      BY <3>1 DEF Runtime, Request, Won, Lost, Back, Abort, Releases, counts
    <3>2. ASSUME Machine \/ Recheck \/ (\E l \in Limits : Configure(l)) \/ UNCHANGED vars
          PROVE  leases' = leases
      BY <3>2 DEF Machine, Recheck, Configure, vars, counts
    <3> QED
      BY <2>1, <3>1, <3>2 DEF Next
  <2> QED
    BY <2>1 DEF Pump, PumpFull, PumpSkips, PumpSamples, PumpHolds, PumpEnds, counts
<1>2. /\ a = Asking /\ pump.i \in DOMAIN queue /\ a = queue[pump.i] /\ a \in Waiting
      /\ queue \in Seq(Agents) /\ pump.on /\ pump.i \in Nat /\ Distinct(queue)
  BY <1>1, AskingWaits DEF PumpGrants, IInv, Typed, PumpType, Walking, Queued
<1>3. active' <= limits.machine
  <2>1. active \in Nat /\ limits.machine \in Nat
    BY HeavyIsActive, AdmissionAssumption DEF IInv, Typed
  <2> QED
    BY <1>1, <2>1 DEF PumpGrants
<1>4. a \in Heavy => heavy' <= limits.heavy
  <2>1. heavy \in Nat /\ limits.heavy \in Nat
    BY HeavyIsActive, AdmissionAssumption DEF IInv, Typed
  <2> QED
    BY <1>1, <1>2, <2>1 DEF PumpGrants, HeavyFull
<1>5. ASSUME NEW b \in Before(a) PROVE HeavyFull(b)
  <2>1. Ahead(queue, b, a)
    BY <1>2, BeforeIs
  <2>2. PICK j \in DOMAIN queue, k \in DOMAIN queue : j < k /\ queue[j] = b /\ queue[k] = a
    BY <2>1 DEF Ahead
  <2>3. k = pump.i
    BY <1>2, <2>2 DEF Distinct
  <2> QED
    BY <1>2, <2>2, <2>3 DEF WalkInv, PassedBy
<1> QED
  BY <1>3, <1>4, <1>5

\* Requests are served as they came and within the limits: one is overtaken
\* only while it is heavy and every heavy slot is taken (pump).
THEOREM GrantsAlwaysInTurn == Spec => GrantsInTurn
<1>1. IInv /\ IInv' /\ WalkInv /\ [Next]_vars => [InTurn]_vars
  BY OrderStays, GrantsAreInTurn DEF InTurn
<1>2. Init => WalkInv
  BY DEF Init, WalkInv, PassedBy, NoSlotIsWasted, NoPump, Waiting
<1> QED
  BY InitInv, NextInv, <1>1, <1>2, NextWalkInv, PTL DEF Spec, GrantsInTurn

-----------------------------------------------------------------------------
(* Types *)

\* A queue that holds everything once is as long as it has members.
LEMMA DistinctLength ==
  ASSUME NEW S, NEW q \in Seq(S), Distinct(q)
  PROVE  Cardinality(Members(q)) = Len(q)
<1>1. PICK n \in Nat : n = Len(q) /\ DOMAIN q = 1 .. n /\ q \in [1 .. n -> S]
  OBVIOUS
<1>2. q \in Bijection(1 .. n, Members(q))
  BY <1>1 DEF Bijection, Injection, Surjection, IsInjective, Members, Distinct
<1>3. ExistsBijection(1 .. n, Members(q))
  BY <1>2 DEF ExistsBijection
<1> QED
  BY <1>1, <1>3, FS_CountingElements

\* What the argument about the slots does not need.
RestTyped ==
  /\ aborted \subseteq Agents /\ baseline \in 0 .. None /\ timer \in BOOLEAN
  /\ memory \in {"fine", "short", "none"} /\ swap \in 0 .. MaxSwap

\* The other variables keep their types.
LEMMA NextRest == RestTyped /\ [Next]_vars => RestTyped'
<1> SUFFICES ASSUME RestTyped, [Next]_vars PROVE RestTyped'
  OBVIOUS
<1>t. None \in 0 .. None /\ 0 .. MaxSwap \subseteq 0 .. None
  BY AdmissionAssumption DEF None
<1>1. CASE Pump
  <2>1. aborted' = aborted /\ memory' = memory /\ swap' = swap
    BY <1>1 DEF Pump, PumpFull, PumpSkips, PumpSamples, PumpHolds, PumpGrants,
                PumpEnds, machine
  <2>2. timer' \in BOOLEAN
    BY <1>1 DEF RestTyped, Pump, PumpFull, PumpSkips, PumpSamples, PumpHolds,
                PumpGrants, PumpEnds, gate, SchedulesRecheck
  <2>3. baseline' \in {baseline, swap}
    BY <1>1 DEF Pump, PumpFull, PumpSkips, PumpSamples, PumpHolds, PumpGrants,
                PumpEnds, gate
  <2> QED
    BY <1>t, <2>1, <2>2, <2>3 DEF RestTyped
<1>2. ASSUME NEW a \in Agents, Runtime(a) PROVE RestTyped'
  <2>1. /\ memory' = memory /\ swap' = swap /\ timer' = timer
        /\ aborted' \in {aborted, aborted \cup {a}} /\ baseline' \in {baseline, None}
    BY <1>2 DEF Runtime, Request, Won, Lost, Back, Abort, Releases, gate, machine
  <2> QED
    BY <1>t, <2>1 DEF RestTyped
<1>3. CASE Recheck /\ UNCHANGED machine
  BY <1>3 DEF RestTyped, Recheck, machine
<1>4. ASSUME NEW l \in Limits, Configure(l), UNCHANGED machine PROVE RestTyped'
  BY <1>4 DEF RestTyped, Configure, gate, machine
<1>5. CASE Machine
  BY <1>5 DEF RestTyped, Machine, gate
<1>6. CASE UNCHANGED vars
  BY <1>6 DEF RestTyped, vars, gate
<1> QED
  BY <1>1, <1>2, <1>3, <1>4, <1>5, <1>6 DEF Next

\* Every variable has its type, and a request is in the queue at most once.
THEOREM TypeCorrect == Spec => []TypeOK
<1>1. Init => RestTyped
  <2>1. None \in 0 .. None /\ 0 \in 0 .. MaxSwap
    BY AdmissionAssumption DEF None
  <2> QED
    BY <2>1 DEF Init, RestTyped
<1>2. IInv /\ RestTyped => TypeOK
  <2> SUFFICES ASSUME IInv, RestTyped PROVE TypeOK
    OBVIOUS
  <2>1. active \in Nat /\ heavy \in Nat
    BY HeavyIsActive DEF IInv
  <2>2. Cardinality(Waiting) = Len(queue)
    BY DistinctLength DEF IInv, Typed, Queued, Waiting, Members
  <2> QED
    BY <2>1, <2>2 DEF IInv, Typed, RestTyped, PumpType, TypeOK
<1> QED
  BY InitInv, NextInv, <1>1, <1>2, NextRest, PTL DEF Spec

=============================================================================
