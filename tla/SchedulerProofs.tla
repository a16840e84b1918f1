--------------------------- MODULE SchedulerProofs ---------------------------
(***************************************************************************)
(* Proofs about Scheduler for every schedule, tolerance and grace.         *)
(***************************************************************************)
EXTENDS Scheduler, SequenceTheorems, WellFoundedInduction, TLAPS

Inv == TypeOK /\ TimesInv

-----------------------------------------------------------------------------
(* Numbers of times.                                                        *)

(* A set of numbers that is not empty has a least one.                      *)
LEMMA LeastNumber ==
  ASSUME NEW S, S \subseteq Nat, S # {}
  PROVE  \E x \in S : \A y \in S : x <= y
<1>. DEFINE R == {ss \in Nat \X Nat : ss[1] < ss[2]}
<1>1. IsWellFoundedOn(R, Nat)
  BY NatLessThanWellFounded DEF OpToRel
<1>2. PICK x \in S : \A y \in S : ~ (<<y, x>> \in R)
  BY <1>1, WFMin
<1>3. ASSUME NEW y \in S PROVE x <= y
  <2>1. x \in Nat /\ y \in Nat
    OBVIOUS
  <2>2. <<y, x>> \in R <=> y < x
    BY <2>1
  <2>. HIDE DEF R
  <2>. QED
    BY <1>2, <2>1, <2>2
<1>. QED
  BY <1>3

(* The least member of a set of numbers is what Min chooses.                *)
LEMMA MinIsLeast ==
  ASSUME NEW S, S \subseteq Nat, S # {}
  PROVE  Min(S) \in S /\ \A y \in S : Min(S) <= y
<1>1. \E x \in S : \A y \in S : x <= y
  BY LeastNumber
<1>. QED
  BY <1>1 DEF Min

(* A bounded set of numbers that is not empty has a greatest one, and Max   *)
(* chooses it.                                                              *)
LEMMA MaxIsGreatest ==
  ASSUME NEW S, S \subseteq Nat, S # {}, NEW b \in Nat, \A s \in S : s <= b
  PROVE  Max(S) \in S /\ \A y \in S : y <= Max(S)
<1>. DEFINE U == {u \in Nat : \A s \in S : s <= u}
<1>1. PICK x \in U : \A y \in U : x <= y
  <2>1. b \in U /\ U \subseteq Nat
    OBVIOUS
  <2>. QED
    BY <2>1, LeastNumber
<1>2. x \in S
  <2>1. SUFFICES ASSUME x \notin S PROVE FALSE
    OBVIOUS
  <2>2. \A s \in S : s \in Nat /\ s < x
    BY <1>1, <2>1
  <2>3. x \in Nat /\ x > 0
    <3>1. PICK s \in S : s \in Nat /\ s < x
      BY <2>2
    <3>. QED
      BY <1>1, <3>1
  <2>4. x - 1 \in U
    BY <2>2, <2>3
  <2>. QED
    BY <1>1, <2>3, <2>4
<1>3. \E z \in S : \A y \in S : z >= y
  BY <1>1, <1>2
<1>4. Max(S) \in S /\ \A y \in S : Max(S) >= y
  BY <1>3 DEF Max
<1>. QED
  BY <1>4

-----------------------------------------------------------------------------
(* The functions of automation-catchup.ts.                                  *)

(* latestCronSlot: the last time that came, if one did.                     *)
LEMMA LatestSlotIs ==
  ASSUME NEW at \in Nat
  PROVE  /\ LatestSlot(at) = None => \A s \in Slots : ~ (s <= at)
         /\ LatestSlot(at) # None =>
              /\ LatestSlot(at) \in Slots /\ LatestSlot(at) <= at
              /\ \A s \in Slots : s <= at => s <= LatestSlot(at)
<1>. DEFINE S == {s \in Slots : s <= at}
<1>1. S \subseteq Nat /\ \A s \in S : s <= at
  BY SchedulerAssumption
<1>2. CASE S = {}
  BY <1>2 DEF LatestSlot, Latest
<1>3. CASE S # {}
  <2>1. Max(S) \in S /\ \A y \in S : y <= Max(S)
    BY <1>1, <1>3, MaxIsGreatest
  <2>2. LatestSlot(at) = Max(S)
    BY <1>3 DEF LatestSlot, Latest
  <2>3. Max(S) # None
    BY <1>1, <2>1, SchedulerAssumption
  <2>. QED
    BY <2>1, <2>2, <2>3
<1>. QED
  BY <1>2, <1>3

(* What croner waits for is a time still to come.                           *)
LEMMA NextSlotIs ==
  ASSUME NEW at \in Nat
  PROVE  NextSlot(at) # None => NextSlot(at) \in Slots /\ NextSlot(at) > at
<1>. DEFINE S == {s \in Slots : s > at}
<1>1. CASE S = {}
  BY <1>1 DEF NextSlot
<1>2. CASE S # {}
  <2>1. Min(S) \in S
    BY <1>2, SchedulerAssumption, MinIsLeast
  <2>. QED
    BY <1>2, <2>1 DEF NextSlot
<1>. QED
  BY <1>1, <1>2

(* missedBaselineMs: the last checkpoint, or start of a pass, that is not   *)
(* in the future.                                                           *)
LEMMA BaselineIs ==
  ASSUME NEW record, record.checked \in Nat \cup {None},
         record.lastRun \in Nat \cup {None},
         NEW session \in Nat \cup {None}, NEW at \in Nat
  PROVE  LET b == Baseline(record, session, at) IN
         /\ b \in {session, record.checked, record.lastRun, 0} \ {None}
         /\ b \in Nat /\ b <= at
         /\ \A t \in {session, record.checked, record.lastRun, 0} \ {None} :
              t <= at => t <= b
<1>. DEFINE S == {t \in {session, record.checked, record.lastRun, 0} \ {None} : t <= at}
<1>1. S \subseteq Nat /\ (\A s \in S : s <= at) /\ 0 \in S
  BY SchedulerAssumption
<1>2. Max(S) \in S /\ \A y \in S : y <= Max(S)
  BY <1>1, MaxIsGreatest
<1>3. Baseline(record, session, at) = Max(S)
  BY DEF Baseline
<1>. HIDE DEF S
<1>4. Baseline(record, session, at) \in Nat
  BY <1>1, <1>2, <1>3
<1>. QED
  BY <1>2, <1>3, <1>4 DEF S

-----------------------------------------------------------------------------
(* Records and handlers.                                                    *)

(* What a record holds.                                                     *)
LEMMA RecordFields ==
  ASSUME NEW r \in Record
  PROVE  /\ r.checked \in Nat \cup {None} /\ r.lastRun \in Nat \cup {None}
         /\ r.enabled \in BOOLEAN /\ r.status \in Statuses
BY DEF Record

(* A record with a new checkpoint.                                          *)
LEMMA Rechecked ==
  ASSUME NEW r \in Record, NEW n \in Nat
  PROVE  LET q == [r EXCEPT !.checked = n] IN
         /\ q \in Record
         /\ q.checked = n /\ q.lastRun = r.lastRun /\ q.enabled = r.enabled
BY DEF Record

(* A record that says when a pass was begun.                                *)
LEMMA Restarted ==
  ASSUME NEW r \in Record, NEW n \in Nat
  PROVE  LET q == [r EXCEPT !.lastRun = n, !.status = "running"] IN
         /\ q \in Record
         /\ q.checked = r.checked /\ q.lastRun = n /\ q.enabled = r.enabled
BY DEF Record, Statuses

(* A record with another status.                                            *)
LEMMA Restatused ==
  ASSUME NEW r \in Record, NEW v \in Statuses
  PROVE  LET q == [r EXCEPT !.status = v] IN
         /\ q \in Record
         /\ q.checked = r.checked /\ q.lastRun = r.lastRun /\ q.enabled = r.enabled
BY DEF Record

(* A record with a row of missed times.                                     *)
LEMMA Reskipped ==
  ASSUME NEW r \in Record, NEW v \in Slots \cup {None}
  PROVE  LET q == [r EXCEPT !.skipped = v] IN
         /\ q \in Record
         /\ q.checked = r.checked /\ q.lastRun = r.lastRun /\ q.enabled = r.enabled
BY DEF Record

(* A record that is switched on or off.                                     *)
LEMMA Reenabled ==
  ASSUME NEW r \in Record, NEW b \in BOOLEAN
  PROVE  LET q == [r EXCEPT !.enabled = b] IN
         /\ q \in Record
         /\ q.checked = r.checked /\ q.lastRun = r.lastRun /\ q.enabled = b
BY DEF Record

(* What a handler holds.                                                    *)
LEMMA HandlerFields ==
  ASSUME NEW h \in Handler
  PROVE  /\ h.at \in Nat /\ h.step \in {"todo", "noted", "acting"}
         /\ h.what \in {"tick", "start", "wake"}
BY DEF Handler

(* A handler whose turn is still to come.                                   *)
LEMMA NewHandler ==
  ASSUME NEW w \in {"tick", "start", "wake"}, NEW t \in Nat
  PROVE  LET h == [what |-> w, at |-> t, step |-> "todo", verdict |-> None] IN
         h \in Handler /\ h.what = w /\ h.at = t /\ h.step = "todo"
BY DEF Handler

(* A sequence without its first element.                                    *)
LEMMA TailOfSeq ==
  ASSUME NEW H, NEW c \in Seq(H), c # <<>>
  PROVE  /\ Tail(c) \in Seq(H) /\ Len(c) \in Nat \ {0}
         /\ DOMAIN Tail(c) = 1..Len(c) - 1 /\ DOMAIN c = 1..Len(c)
         /\ \A i \in DOMAIN Tail(c) : Tail(c)[i] = c[i + 1]
         /\ Head(c) = c[1] /\ c[1] \in H
BY HeadTailProperties, EmptySeq

(* A sequence with one more element.                                        *)
LEMMA AppendToSeq ==
  ASSUME NEW H, NEW c \in Seq(H), NEW h \in H
  PROVE  /\ Append(c, h) \in Seq(H) /\ Len(c) \in Nat
         /\ DOMAIN Append(c, h) = 1..Len(c) + 1 /\ DOMAIN c = 1..Len(c)
         /\ \A i \in DOMAIN c : Append(c, h)[i] = c[i]
         /\ Append(c, h)[Len(c) + 1] = h
BY AppendProperties

(* A sequence with another first element.                                   *)
LEMMA FirstReplaced ==
  ASSUME NEW H, NEW c \in Seq(H), c # <<>>, NEW h \in H
  PROVE  LET d == [c EXCEPT ![1] = h] IN
         /\ d \in Seq(H) /\ DOMAIN d = DOMAIN c /\ d[1] = h
         /\ \A i \in DOMAIN c : i # 1 => d[i] = c[i]
BY ExceptSeq, EmptySeq

-----------------------------------------------------------------------------
(* What several steps share.                                                *)

(* The types the proofs use most.                                           *)
LEMMA Numbers ==
  ASSUME TypeOK
  PROVE  /\ now \in Nat /\ checkpoint \in Nat \cup {None}
         /\ armedAt \in Nat \cup {None} /\ firing \in Nat \cup {None}
         /\ next \in Nat \cup {None}
         /\ job.checked \in Nat \cup {None} /\ job.lastRun \in Nat \cup {None}
         /\ disk.checked \in Nat \cup {None} /\ disk.lastRun \in Nat \cup {None}
         /\ stamps \subseteq Nat /\ owed \subseteq Nat /\ excused \subseteq Nat
         /\ Slots \subseteq Nat /\ None \notin Nat
<1>1. job \in Record /\ disk \in Record
  BY DEF TypeOK
<1>. QED
  BY <1>1, RecordFields, SchedulerAssumption DEF TypeOK

(* The handlers are numbered from 1, and each has a moment.                 *)
LEMMA Handlers ==
  ASSUME TypeOK
  PROVE  /\ Len(chain) \in Nat /\ DOMAIN chain = 1..Len(chain)
         /\ \A i \in DOMAIN chain : chain[i] \in Handler /\ chain[i].at \in Nat
         /\ chain # <<>> => /\ 1 \in DOMAIN chain /\ Head(chain) = chain[1]
                            /\ Len(chain) \in Nat \ {0}
<1>1. chain \in Seq(Handler)
  BY DEF TypeOK
<1>2. /\ Len(chain) \in Nat /\ DOMAIN chain = 1..Len(chain)
      /\ \A i \in 1..Len(chain) : chain[i] \in Handler
  BY <1>1, ElementOfSeq, LenProperties
<1>3. \A i \in DOMAIN chain : chain[i].at \in Nat
  BY <1>2, HandlerFields
<1>4. chain # <<>> => Head(chain) = chain[1] /\ Len(chain) \in Nat \ {0}
  BY <1>1, TailOfSeq
<1>. QED
  BY <1>2, <1>3, <1>4

(* A handler that is put on the chain comes after all the others.           *)
LEMMA PutInOrder ==
  ASSUME Inv, NEW h \in Handler, h.at = now, h.step = "todo",
         h.what = "tick" => \E s \in Slots : s <= now,
         chain' = Append(chain, h),
         UNCHANGED <<now, checkpoint, stamps>>
  PROVE  HandlersInOrder'
<1>. USE DEF Inv, TimesInv
<1>1. chain \in Seq(Handler)
  BY DEF TypeOK
<1>2. /\ Len(chain) \in Nat
      /\ DOMAIN chain' = 1..Len(chain) + 1 /\ DOMAIN chain = 1..Len(chain)
      /\ \A i \in DOMAIN chain : chain'[i] = chain[i]
      /\ chain'[Len(chain) + 1] = h
  BY <1>1, AppendToSeq
<1>3. \A i \in DOMAIN chain : chain[i].at \in Nat /\ chain[i].at <= now
  BY Handlers DEF HandlersInOrder
<1>4. ASSUME NEW i \in DOMAIN chain'
      PROVE  /\ chain'[i].at <= now'
             /\ \A j \in DOMAIN chain' : j <= i => chain'[j].at <= chain'[i].at
  BY <1>2, <1>3, <1>4, Numbers DEF HandlersInOrder
<1>5. ASSUME NEW i \in DOMAIN chain'
      PROVE  \A t \in stamps : t <= chain'[i].at
  BY <1>2, <1>5 DEF HandlersInOrder, NothingAhead
<1>6. ASSUME NEW i \in DOMAIN chain'
      PROVE  /\ i > 1 => chain'[i].step = "todo"
             /\ chain'[i].what = "tick" => \E s \in Slots : s <= chain'[i].at
             /\ chain'[i].step # "todo" => Reaches(checkpoint', chain'[i].at)
  BY <1>2, <1>3, <1>6 DEF HandlersInOrder, Reaches
<1>. QED
  BY <1>4, <1>5, <1>6 DEF HandlersInOrder

(* The first handler is done; what it noted is of its own moment.           *)
LEMMA TailInOrder ==
  ASSUME Inv, chain # <<>>, chain' = Tail(chain), UNCHANGED now,
         stamps' \subseteq stamps \cup {chain[1].at}
  PROVE  HandlersInOrder'
<1>. USE DEF Inv, TimesInv
<1>1. chain \in Seq(Handler)
  BY DEF TypeOK
<1>2. /\ Len(chain) \in Nat \ {0}
      /\ DOMAIN chain' = 1..Len(chain) - 1 /\ DOMAIN chain = 1..Len(chain)
      /\ \A i \in DOMAIN chain' : chain'[i] = chain[i + 1]
  BY <1>1, TailOfSeq
<1>3. ASSUME NEW i \in DOMAIN chain'
      PROVE  /\ i \in Nat /\ i + 1 \in DOMAIN chain /\ chain'[i] = chain[i + 1]
             /\ chain'[i].at <= now /\ chain[1].at <= chain'[i].at
             /\ chain'[i].step = "todo"
             /\ chain'[i].what = "tick" => \E s \in Slots : s <= chain'[i].at
  BY <1>2 DEF HandlersInOrder
<1>4. ASSUME NEW i \in DOMAIN chain', NEW j \in DOMAIN chain', j <= i
      PROVE  chain'[j].at <= chain'[i].at
  BY <1>3, <1>4 DEF HandlersInOrder
<1>5. ASSUME NEW i \in DOMAIN chain'
      PROVE  \A t \in stamps' : t <= chain'[i].at
  BY <1>3, <1>5 DEF HandlersInOrder
<1>. QED
  BY <1>3, <1>4, <1>5 DEF HandlersInOrder

(* The first handler goes on.                                               *)
LEMMA MoveInOrder ==
  ASSUME Inv, chain # <<>>,
         NEW g \in Handler, g.at = chain[1].at, g.what = chain[1].what,
         chain' = [chain EXCEPT ![1] = g], UNCHANGED now,
         Reaches(checkpoint', chain[1].at),
         stamps' \subseteq stamps \cup {chain[1].at}
  PROVE  HandlersInOrder'
<1>. USE DEF Inv, TimesInv
<1>1. chain \in Seq(Handler)
  BY DEF TypeOK
<1>2. /\ DOMAIN chain' = DOMAIN chain /\ chain'[1] = g
      /\ \A i \in DOMAIN chain : i # 1 => chain'[i] = chain[i]
  BY <1>1, FirstReplaced
<1>3. ASSUME NEW i \in DOMAIN chain
      PROVE  /\ chain'[i].at = chain[i].at /\ chain'[i].what = chain[i].what
             /\ chain'[i].at <= now /\ chain[1].at <= chain'[i].at
             /\ i > 1 => chain'[i].step = "todo"
             /\ chain'[i].step # "todo" => i = 1
  <2>1. i \in 1..Len(chain) /\ Len(chain) \in Nat /\ 1 \in DOMAIN chain
    BY <1>3, Handlers
  <2>. QED
    BY <1>2, <1>3, <2>1 DEF HandlersInOrder
<1>4. ASSUME NEW i \in DOMAIN chain
      PROVE  /\ \A j \in DOMAIN chain : j <= i => chain'[j].at <= chain'[i].at
             /\ chain'[i].what = "tick" => \E s \in Slots : s <= chain'[i].at
  BY <1>3, <1>4 DEF HandlersInOrder
<1>5. Reaches(checkpoint', chain'[1].at)
  BY <1>2
<1>6. ASSUME NEW i \in DOMAIN chain
      PROVE  \A t \in stamps' : t <= chain'[i].at
  BY <1>3, <1>6 DEF HandlersInOrder
<1>. QED
  BY <1>2, <1>3, <1>4, <1>5, <1>6 DEF HandlersInOrder, Reaches

(* What is settled stays settled, as long as checkpoints only move on and   *)
(* the steps settle nothing but what a checkpoint covers.                   *)
LEMMA ForgottenKept ==
  ASSUME Inv, NothingAhead', UNCHANGED <<now, armedAt>>,
         job'.lastRun = job.lastRun, job'.enabled => job.enabled,
         up = "down" => up' = "down",
         \A s \in Slots : Checked(s) => Checked(s)',
         \A s \in owed \cup excused :
           s \in Slots => s \in owed' \cup excused' \/ Checked(s)',
         \A s \in excused : s \in Slots => s \in excused' \/ Checked(s)',
         \A i \in DOMAIN chain' :
           chain'[i].at = now \/ \E j \in DOMAIN chain : chain'[i].at = chain[j].at
  PROVE  NoneForgotten'
<1>. USE DEF Inv, TimesInv
<1>. SUFFICES ASSUME job'.enabled PROVE NoneForgotten'
  BY DEF NoneForgotten
<1>1. \A s \in Unowed' : s \in Unowed \/ Checked(s)'
  BY DEF Unowed
<1>2. \A s \in Slots : Reaches(job.lastRun, s)' <=> Reaches(job.lastRun, s)
  BY DEF Reaches
<1>3. \A s \in Slots : Reaches(armedAt, s)' <=> Reaches(armedAt, s)
  BY DEF Reaches
<1>4. job.lastRun # None => job.lastRun <= now
  BY DEF NothingAhead, By
<1>5. ASSUME NEW s \in Unowed'
      PROVE  \/ Checked(s)'
             \/ /\ Reaches(job.lastRun, s)'
                /\ \A i \in DOMAIN chain' : job'.lastRun <= chain'[i].at
  <2>1. s \in Slots
    BY DEF Unowed
  <2>2. CASE s \in Unowed
    <3>1. \/ Checked(s)
          \/ /\ Reaches(job.lastRun, s)
             /\ \A i \in DOMAIN chain : job.lastRun <= chain[i].at
      BY <2>2 DEF NoneForgotten
    <3>2. Reaches(job.lastRun, s) => job.lastRun <= now
      BY <1>4 DEF Reaches
    <3>. QED
      BY <1>2, <2>1, <3>1, <3>2
  <2>. QED
    BY <1>1, <2>2
<1>6. ASSUME NEW s \in Unowed', up' # "down"
      PROVE  Checked(s)' \/ Reaches(armedAt, s)'
  <2>1. s \in Slots
    BY DEF Unowed
  <2>. QED
    BY <1>1, <1>3, <1>6, <2>1 DEF NoneForgotten
<1>7. ASSUME NEW s \in Slots \ excused', up' # "down", Reaches(job.lastRun, s)'
      PROVE  Checked(s)' \/ Reaches(armedAt, s)'
  <2>1. s \in Slots \ excused \/ Checked(s)'
    OBVIOUS
  <2>. QED
    BY <1>2, <1>3, <1>7, <2>1 DEF NoneForgotten
<1>. QED
  BY <1>5, <1>6, <1>7 DEF NoneForgotten

(* A step that touches neither the handlers nor what they are measured by.  *)
LEMMA SameOrder ==
  ASSUME Inv, UNCHANGED <<now, chain, checkpoint>>, stamps' \subseteq stamps
  PROVE  HandlersInOrder'
BY DEF Inv, TimesInv, HandlersInOrder, Reaches

(* What the session and the record know stays, and handlers are only gone   *)
(* or put on the chain now.                                                 *)
LEMMA SameSession ==
  ASSUME Inv, UNCHANGED checkpoint, job'.checked = job.checked,
         stamps' \subseteq stamps,
         \A i \in DOMAIN chain' :
           chain'[i].at = now \/ \E j \in DOMAIN chain : chain'[i].at = chain[j].at
  PROVE  SessionLeads'
<1>1. By(job.checked, now)
  BY DEF Inv, TimesInv, NothingAhead
<1>. QED
  BY <1>1 DEF Inv, TimesInv, SessionLeads, By

(* A step that only changes the status of the record, or what the model     *)
(* does not measure times by.                                               *)
LEMMA Aside ==
  ASSUME Inv, UNCHANGED <<now, up, checkpoint, timer, chain, stamps, firing,
                          resumed, owed, excused>>,
         edit' \in {edit, "arm"}, asks' = 0 \/ up # "down", up = "down" => edit' = edit,
         job'.checked = job.checked, job'.lastRun = job.lastRun,
         job'.enabled = job.enabled,
         disk' = disk \/ disk' = job
  PROVE  TimesInv'
<1>. USE DEF Inv, TimesInv
<1>1. NothingAhead'
  BY Numbers DEF NothingAhead, By, timer
<1>2. SessionLeads'
  BY SameSession
<1>3. TimerIsArmed'
  BY SchedulerAssumption DEF TimerIsArmed, timer
<1>4. HandlersInOrder'
  BY SameOrder DEF timer
<1>5. NoneForgotten'
  BY <1>1, ForgottenKept DEF Checked, Reaches, timer
<1>. QED
  BY <1>1, <1>2, <1>3, <1>4, <1>5

-----------------------------------------------------------------------------
(* Each step keeps the invariant.                                           *)

(* At first nothing is later than the clock and no time has come.           *)
LEMMA InitTimes ==
  ASSUME Init
  PROVE  TimesInv
<1>. USE SchedulerAssumption
<1>1. NothingAhead
  BY DEF Init, NothingAhead, By, Fresh
<1>2. SessionLeads
  BY DEF Init, SessionLeads
<1>3. TimerIsArmed
  BY NextSlotIs DEF Init, TimerIsArmed
<1>4. HandlersInOrder
  BY DEF Init, HandlersInOrder
<1>5. Unowed = {}
  <2>1. \A s \in Slots : s \in Nat /\ ~ (s <= 0)
    OBVIOUS
  <2>. QED
    BY <2>1 DEF Init, Unowed
<1>6. NoneForgotten
  BY <1>5 DEF Init, NoneForgotten, Reaches, Fresh
<1>. QED
  BY <1>1, <1>2, <1>3, <1>4, <1>6 DEF TimesInv

(* onScheduledFire returns: its handler is gone.                            *)
LEMMA TickDroppedTimes ==
  ASSUME Inv, TickDropped
  PROVE  TimesInv'
<1>. USE DEF Inv, TimesInv
<1>. USE DEF TickDropped, Working, Done, timer, ghost, driver
<1>1. NothingAhead'
  BY DEF NothingAhead, By
<1>2. TimerIsArmed'
  BY DEF TimerIsArmed
<1>3. HandlersInOrder'
  BY TailInOrder
<1>4. \A i \in DOMAIN chain' : \E j \in DOMAIN chain : chain'[i].at = chain[j].at
  <2>1. chain \in Seq(Handler)
    BY DEF TypeOK
  <2>. QED
    BY <2>1, TailOfSeq
<1>5. SessionLeads'
  BY <1>4, SameSession
<1>6. NoneForgotten'
  BY <1>1, <1>4, ForgottenKept DEF Checked, Reaches
<1>. QED
  BY <1>1, <1>2, <1>3, <1>5, <1>6

-----------------------------------------------------------------------------
(* A handler decides only where something is owed.                          *)

(* A fire that is not dropped has a time to settle: the last one that came, *)
(* which no checkpoint and no arming covers.  No edit has overtaken it.     *)
LEMMA TickOwes ==
  ASSUME Inv, chain # <<>>, chain[1].what = "tick", chain[1].step = "todo",
         ~Overtaken(chain[1]), job.enabled,
         Classify(job, checkpoint, armedAt, chain[1].at) # "settled"
  PROVE  \E s \in owed \cup excused : s \in Slots /\ s <= chain[1].at
<1>. USE DEF Inv, TimesInv
<1>. DEFINE at == chain[1].at
            slot == LatestSlot(at)
            points == {checkpoint, job.checked, armedAt} \ {None}
<1>1. 1 \in DOMAIN chain /\ at \in Nat /\ at <= now /\ now \in Nat
  BY Handlers, Numbers DEF HandlersInOrder
<1>2. slot # None /\ slot \in Slots /\ slot <= at
  <2>1. \E s \in Slots : s <= at
    BY <1>1 DEF HandlersInOrder
  <2>. QED
    BY <1>1, <2>1, LatestSlotIs
<1>3. points \subseteq Nat /\ \A t \in points : t <= at
  BY <1>1, Numbers DEF Overtaken, Later
<1>4. up # "down"
  BY DEF TimerIsArmed
<1>. SUFFICES ASSUME slot \notin owed \cup excused PROVE FALSE
  BY <1>2
<1>5. slot \in Unowed
  BY <1>1, <1>2, Numbers DEF Unowed
<1>6. Checked(slot) \/ Reaches(armedAt, slot)
  BY <1>4, <1>5 DEF NoneForgotten
<1>7. PICK t \in points : slot <= t
  BY <1>6 DEF Checked, Reaches
<1>8. Max(points) \in points /\ Max(points) >= t
  BY <1>1, <1>3, <1>7, MaxIsGreatest
<1>9. slot \in Nat /\ t \in Nat /\ Max(points) \in Nat /\ Max(points) <= at
  BY <1>2, <1>3, <1>8, Numbers
<1>10. slot <= Max(points) /\ ~ (Max(points) > at) /\ points # {}
  BY <1>1, <1>7, <1>8, <1>9
<1>. HIDE DEF points, slot, at
<1>11. Classify(job, checkpoint, armedAt, at) = "settled"
  BY <1>2, <1>10 DEF Classify, points, slot
<1>. QED
  BY <1>11 DEF at

(* A check that finds missed times has one to settle, if no edit overtook   *)
(* it: it is later than every checkpoint and every start of a pass.         *)
LEMMA CheckOwes ==
  ASSUME Inv, chain # <<>>, chain[1].step = "todo", ~Overtaken(chain[1]), job.enabled,
         CheckVerdict(job, checkpoint, chain[1].what, chain[1].at) # "settled"
  PROVE  \E s \in owed \cup excused : s \in Slots /\ s <= chain[1].at
<1>. USE DEF Inv, TimesInv
<1>. DEFINE at == chain[1].at
            base == Baseline(job, checkpoint, at)
<1>1. 1 \in DOMAIN chain /\ at \in Nat /\ at <= now /\ now \in Nat
  BY Handlers, Numbers DEF HandlersInOrder
<1>2. /\ base \in Nat
      /\ \A t \in {checkpoint, job.checked, job.lastRun} :
           t # None /\ t <= at => t <= base
  BY <1>1, Numbers, BaselineIs
<1>3. PICK s \in Slots : base < s /\ s <= at
  BY DEF CheckVerdict, SlotsBetween
<1>. SUFFICES ASSUME s \notin owed \cup excused PROVE FALSE
  BY <1>3
<1>4. s \in Nat
  BY Numbers
<1>5. s \in Unowed
  BY <1>1, <1>3, <1>4 DEF Unowed
<1>6. \/ Checked(s)
      \/ Reaches(job.lastRun, s) /\ job.lastRun <= at
  BY <1>1, <1>5 DEF NoneForgotten
<1>7. By(checkpoint, at) /\ By(job.checked, at)
  BY <1>1, Numbers DEF Overtaken, Later, By
<1>8. \E t \in {checkpoint, job.checked, job.lastRun} : t # None /\ t <= at /\ s <= t
  BY <1>6, <1>7 DEF Checked, Reaches, By
<1>9. PICK t \in {checkpoint, job.checked, job.lastRun} : t # None /\ t <= at /\ s <= t
  BY <1>8
<1>10. t \in Nat /\ t <= base
  BY <1>2, <1>9, Numbers
<1>. HIDE DEF base
<1>. QED
  BY <1>2, <1>3, <1>4, <1>9, <1>10

(* The moments of the handlers stay those they were put with.               *)
LEMMA MomentsStay ==
  ASSUME TypeOK, chain # <<>>,
         \/ chain' = Tail(chain)
         \/ \E g \in Handler : g.at = chain[1].at /\ chain' = [chain EXCEPT ![1] = g]
  PROVE  \A i \in DOMAIN chain' : \E j \in DOMAIN chain : chain'[i].at = chain[j].at
<1>1. chain \in Seq(Handler)
  BY DEF TypeOK
<1>2. CASE chain' = Tail(chain)
  BY <1>1, <1>2, TailOfSeq
<1>3. CASE \E g \in Handler : g.at = chain[1].at /\ chain' = [chain EXCEPT ![1] = g]
  <2>1. PICK g \in Handler : g.at = chain[1].at /\ chain' = [chain EXCEPT ![1] = g]
    BY <1>3
  <2>2. /\ DOMAIN chain' = DOMAIN chain /\ chain'[1] = g
        /\ \A i \in DOMAIN chain : i # 1 => chain'[i] = chain[i]
    BY <1>1, <2>1, FirstReplaced
  <2>. QED
    BY <2>1, <2>2
<1>. QED
  BY <1>2, <1>3

(* The checkpoint a handler moves is the latest there is: as late as its    *)
(* moment, and as late as all that the session and the record know.         *)
LEMMA CheckpointMoves ==
  ASSUME Inv, chain # <<>>
  PROVE  LET at == chain[1].at
             c  == MaxOf(checkpoint, at) IN
         /\ at \in Nat /\ at <= now
         /\ c \in Nat /\ at <= c /\ c <= now
         /\ By(job.checked, c) /\ By(checkpoint, c)
         /\ \A t \in stamps : t <= c
<1>. USE DEF Inv, TimesInv
<1>. DEFINE at == chain[1].at
<1>1. 1 \in DOMAIN chain /\ at \in Nat
  BY Handlers
<1>2. at <= now /\ By(checkpoint, now)
  BY <1>1 DEF HandlersInOrder, NothingAhead
<1>3. CASE checkpoint = None
  BY <1>1, <1>2, <1>3 DEF SessionLeads, MaxOf, By
<1>4. CASE checkpoint # None
  <2>1. /\ By(job.checked, checkpoint) /\ \A t \in stamps : t <= checkpoint
        /\ checkpoint \in Nat /\ stamps \subseteq Nat /\ job.checked \in Nat \cup {None}
    BY <1>4, Numbers DEF SessionLeads
  <2>2. CASE checkpoint < at
    <3>1. MaxOf(checkpoint, at) = at
      BY <2>2 DEF MaxOf
    <3>2. By(job.checked, at)
      BY <1>1, <2>1, <2>2, Numbers DEF By
    <3>3. \A t \in stamps : t <= at
      BY <1>1, <2>1, <2>2
    <3>. QED
      BY <1>1, <1>2, <2>1, <2>2, <3>1, <3>2, <3>3 DEF By
  <2>3. CASE ~ (checkpoint < at)
    <3>1. MaxOf(checkpoint, at) = checkpoint
      BY <1>4, <2>3 DEF MaxOf
    <3>2. at <= checkpoint
      BY <1>1, <2>1, <2>3
    <3>3. checkpoint <= now /\ checkpoint <= checkpoint
      BY <1>2, <1>4, <2>1 DEF By
    <3>. QED
      BY <1>1, <1>2, <2>1, <3>1, <3>2, <3>3 DEF By
  <2>. QED
    BY <2>2, <2>3
<1>. QED
  BY <1>3, <1>4

(* What a decision at the moment of the first handler does to the times: it *)
(* settles none that its checkpoint does not cover.                         *)
LEMMA SettleCovers ==
  ASSUME Inv, chain # <<>>, checkpoint' = MaxOf(checkpoint, chain[1].at),
         \/ UNCHANGED <<owed, excused>>
         \/ Settle(chain[1].at)
  PROVE  /\ \A s \in stamps \cup owed' \cup excused' : s <= now
         /\ \A s \in owed \cup excused :
              s \in Slots => s \in owed' \cup excused' \/ Checked(s)'
         /\ \A s \in excused : s \in Slots => s \in excused' \/ Checked(s)'
         /\ \A s \in Slots : Checked(s) => Checked(s)'
<1>. USE DEF Inv, TimesInv
<1>. DEFINE at == chain[1].at
<1>1. /\ at \in Nat /\ checkpoint' \in Nat /\ at <= checkpoint'
      /\ By(job.checked, checkpoint') /\ By(checkpoint, checkpoint')
  BY CheckpointMoves
<1>2. \A s \in Slots : s <= checkpoint' => Checked(s)'
  BY <1>1, SchedulerAssumption DEF Checked, Reaches
<1>3. \A s \in Slots : Checked(s) => s <= checkpoint'
  BY <1>1, Numbers DEF Checked, Reaches, By
<1>4. \A s \in owed \cup excused : s \in Nat /\ (~ (s > at) => s <= checkpoint')
  BY <1>1, Numbers
<1>. HIDE DEF at
<1>5. CASE UNCHANGED <<owed, excused>>
  BY <1>2, <1>3, <1>5 DEF NothingAhead
<1>6. CASE Settle(at)
  BY <1>2, <1>3, <1>4, <1>6 DEF NothingAhead, Settle
<1>. QED
  BY <1>5, <1>6 DEF at

(* A decision keeps the invariant, whatever becomes of its handler.         *)
LEMMA DecisionTimes ==
  ASSUME Inv, chain # <<>>, checkpoint' = MaxOf(checkpoint, chain[1].at),
         job'.checked \in {job.checked, chain[1].at},
         job'.lastRun = job.lastRun, job'.enabled = job.enabled,
         stamps' \subseteq stamps \cup {chain[1].at},
         \/ UNCHANGED <<owed, excused>>
         \/ Settle(chain[1].at),
         \/ chain' = Tail(chain)
         \/ \E g \in Handler : /\ g.at = chain[1].at /\ g.what = chain[1].what
                               /\ chain' = [chain EXCEPT ![1] = g],
         UNCHANGED <<now, up, disk, timer, edit, firing, resumed>>
  PROVE  TimesInv'
<1>. USE DEF Inv, TimesInv
<1>. DEFINE at == chain[1].at
<1>1. /\ at \in Nat /\ at <= now
      /\ checkpoint' \in Nat /\ at <= checkpoint' /\ checkpoint' <= now
      /\ By(job.checked, checkpoint') /\ \A t \in stamps : t <= checkpoint'
  BY CheckpointMoves
<1>2. NothingAhead'
  <2>1. \A s \in stamps' \cup owed' \cup excused' : s <= now
    <3>1. \A s \in stamps \cup owed' \cup excused' : s <= now
      BY SettleCovers
    <3>. QED
      BY <1>1, <3>1
  <2>2. \A t \in {checkpoint', armedAt, firing, job'.checked, job.lastRun,
                  disk.checked, disk.lastRun} : By(t, now)
    BY <1>1 DEF NothingAhead, By
  <2>3. /\ firing # None => By(job.lastRun, firing)
        /\ disk.lastRun # None => job.lastRun # None /\ disk.lastRun <= job.lastRun
    BY DEF NothingAhead
  <2>. QED
    BY <2>1, <2>2, <2>3 DEF NothingAhead, By, timer
<1>3. SessionLeads'
  <2>1. checkpoint' # None
    BY <1>1, SchedulerAssumption
  <2>. QED
    BY <1>1, <2>1 DEF SessionLeads, By
<1>4. up # "down"
  BY DEF TimerIsArmed
<1>5. TimerIsArmed'
  BY <1>4 DEF TimerIsArmed, timer
<1>6. HandlersInOrder'
  <2>1. CASE chain' = Tail(chain)
    BY <2>1, TailInOrder DEF timer
  <2>2. CASE \E g \in Handler : /\ g.at = chain[1].at /\ g.what = chain[1].what
                                /\ chain' = [chain EXCEPT ![1] = g]
    <3>1. PICK g \in Handler : /\ g.at = chain[1].at /\ g.what = chain[1].what
                               /\ chain' = [chain EXCEPT ![1] = g]
      BY <2>2
    <3>2. Reaches(checkpoint', chain[1].at)
      BY <1>1, SchedulerAssumption DEF Reaches
    <3>. QED
      BY <3>1, <3>2, MoveInOrder DEF timer
  <2>. QED
    BY <2>1, <2>2
<1>7. \A i \in DOMAIN chain' : \E j \in DOMAIN chain : chain'[i].at = chain[j].at
  BY MomentsStay
<1>8. NoneForgotten'
  BY <1>2, <1>7, SettleCovers, ForgottenKept DEF timer
<1>. QED
  BY <1>2, <1>3, <1>5, <1>6, <1>8

(* What the first handler becomes when it goes on.                          *)
LEMMA FirstMoves ==
  ASSUME TypeOK, chain # <<>>, NEW p \in {"todo", "noted", "acting"},
         NEW v \in Verdicts, Move(p, v)
  PROVE  \E g \in Handler : /\ g.at = chain[1].at /\ g.what = chain[1].what
                            /\ g.step = p /\ chain' = [chain EXCEPT ![1] = g]
<1>1. PICK h \in Handler : h = chain[1]
  BY Handlers
<1>. DEFINE g == [h EXCEPT !.step = p, !.verdict = v]
<1>2. g \in Handler /\ g.at = h.at /\ g.what = h.what /\ g.step = p
  BY DEF Handler
<1>3. chain' = [chain EXCEPT ![1] = g]
  BY <1>1 DEF Move
<1>. QED
  BY <1>1, <1>2, <1>3

(* onScheduledFire notes its decision before it acts on it.                 *)
LEMMA TickNotedTimes ==
  ASSUME Inv, TickNoted
  PROVE  TimesInv'
<1>. USE DEF Inv, TimesInv
<1>. DEFINE at == chain[1].at
            v  == Classify(job, checkpoint, armedAt, at)
<1>1. /\ chain # <<>> /\ chain[1].what = "tick" /\ job.enabled
      /\ checkpoint' = MaxOf(checkpoint, at) /\ Move("noted", v)
      /\ job' = job \/ job' = [job EXCEPT !.checked = at]
      /\ Settle(at)
      /\ UNCHANGED <<now, up, disk, timer, stamps, edit, driver, resumed>>
  BY Handlers DEF TickNoted, Working, TickVerdict
<1>2. at \in Nat
  BY <1>1, CheckpointMoves
<1>3. v \in Verdicts
  BY DEF Classify, Decide, Verdicts
<1>. HIDE DEF at, v
<1>4. /\ job'.checked \in {job.checked, at} /\ job'.lastRun = job.lastRun
      /\ job'.enabled = job.enabled
  <2>1. job \in Record
    BY DEF TypeOK
  <2>2. CASE job' = job
    BY <2>2
  <2>3. CASE job' = [job EXCEPT !.checked = at]
    BY <1>2, <2>1, <2>3, Rechecked
  <2>. QED
    BY <1>1, <2>2, <2>3
<1>5. \E g \in Handler : /\ g.at = chain[1].at /\ g.what = chain[1].what
                         /\ g.step = "noted" /\ chain' = [chain EXCEPT ![1] = g]
  BY <1>1, <1>3, FirstMoves
<1>. QED
  BY <1>1, <1>4, <1>5, DecisionTimes DEF at, timer, driver

(* What is done with a verdict: the handler is done, or writes what was     *)
(* missed into the record.                                                  *)
LEMMA Acts ==
  ASSUME TypeOK, chain # <<>>, NEW v \in Verdicts, NEW m \in Slots \cup {None},
         Act(v, job, m)
  PROVE  /\ \/ chain' = Tail(chain)
            \/ \E g \in Handler : /\ g.at = chain[1].at /\ g.what = chain[1].what
                                  /\ g.step = "acting"
                                  /\ chain' = [chain EXCEPT ![1] = g]
         /\ job' \in Record /\ job'.checked = job.checked
         /\ job'.lastRun = job.lastRun /\ job'.enabled = job.enabled
         /\ asks' \in Nat
<1>1. job \in Record /\ asks \in Nat
  BY DEF TypeOK
<1>2. CASE v = "skip"
  <2>1. job' = [job EXCEPT !.skipped = m] /\ Move("acting", v) /\ asks' = asks
    BY <1>2 DEF Act
  <2>2. \E g \in Handler : /\ g.at = chain[1].at /\ g.what = chain[1].what
                           /\ g.step = "acting" /\ chain' = [chain EXCEPT ![1] = g]
    BY <2>1, FirstMoves
  <2>. QED
    BY <1>1, <2>1, <2>2, Reskipped
<1>3. CASE v # "skip"
  <2>1. job' = job /\ chain' = Tail(chain) /\ asks' \in {asks, asks + 1}
    BY <1>3 DEF Act, Ask, Done
  <2>. QED
    BY <1>1, <2>1
<1>. QED
  BY <1>2, <1>3

(* The last time that came is a time of the schedule, if there is one.      *)
LEMMA LatestSlotType ==
  ASSUME NEW at \in Nat
  PROVE  LatestSlot(at) \in Slots \cup {None}
BY LatestSlotIs

(* catchUpScheduledJobs for one automation: it returns, or decides and      *)
(* notes the moment for its closing write.                                  *)
LEMMA CheckSettlesTimes ==
  ASSUME Inv, CheckSettles
  PROVE  TimesInv'
<1>. USE DEF Inv, TimesInv
<1>. DEFINE at == chain[1].at
            v  == CheckVerdict(job, checkpoint, chain[1].what, at)
            m  == LatestSlot(at)
<1>1. /\ chain # <<>> /\ Head(chain) = chain[1]
      /\ UNCHANGED <<now, up, disk, timer, edit, firing, resumed>>
  BY Handlers DEF CheckSettles, Working
<1>2. at \in Nat
  BY <1>1, CheckpointMoves
<1>3. v \in Verdicts /\ m \in Slots \cup {None}
  BY <1>2, LatestSlotType DEF CheckVerdict, Decide, Verdicts
<1>4. CASE ~job.enabled \/ armedAt = None
  <2>1. /\ chain' = Tail(chain)
        /\ UNCHANGED <<job, checkpoint, stamps, asks, owed, excused>>
    BY <1>4 DEF CheckSettles, Done, ghost
  <2>2. NothingAhead'
    BY <1>1, <2>1 DEF NothingAhead, By, timer
  <2>3. TimerIsArmed'
    BY <1>1, <2>1 DEF TimerIsArmed, timer
  <2>4. HandlersInOrder'
    BY <1>1, <2>1, TailInOrder DEF timer
  <2>5. \A i \in DOMAIN chain' : \E j \in DOMAIN chain : chain'[i].at = chain[j].at
    BY <1>1, <2>1, MomentsStay
  <2>6. SessionLeads'
    BY <2>1, <2>5, SameSession
  <2>7. NoneForgotten'
    BY <1>1, <2>1, <2>2, <2>5, ForgottenKept DEF Checked, Reaches, timer
  <2>. QED
    BY <2>2, <2>3, <2>4, <2>6, <2>7
<1>5. CASE ~ (~job.enabled \/ armedAt = None)
  <2>1. /\ checkpoint' = MaxOf(checkpoint, at) /\ stamps' = stamps \cup {at}
        /\ Act(v, job, m)
        /\ UNCHANGED <<owed, excused>> \/ Settle(at)
    BY <1>1, <1>5 DEF CheckSettles, ghost
  <2>. HIDE DEF at, v, m
  <2>2. /\ \/ chain' = Tail(chain)
           \/ \E g \in Handler : /\ g.at = chain[1].at /\ g.what = chain[1].what
                                 /\ g.step = "acting"
                                 /\ chain' = [chain EXCEPT ![1] = g]
        /\ job'.checked = job.checked
        /\ job'.lastRun = job.lastRun /\ job'.enabled = job.enabled
    BY <1>1, <1>3, <2>1, Acts
  <2>. QED
    BY <1>1, <2>1, <2>2, DecisionTimes DEF at
<1>. QED
  BY <1>4, <1>5

(* A handler is put on the chain.                                           *)
LEMMA PutTimes ==
  ASSUME Inv, NEW w \in {"tick", "start", "wake"}, Put(w),
         w = "tick" => \E s \in Slots : s <= now,
         UNCHANGED <<now, job, disk, checkpoint, armedAt, stamps, edit, firing,
                     owed, excused>>,
         up' # "down", up # "down",
         next' # None => next' \in Slots /\ (armedAt # None => next' > armedAt)
  PROVE  TimesInv'
<1>. USE DEF Inv, TimesInv
<1>. DEFINE h == [what |-> w, at |-> now, step |-> "todo", verdict |-> None]
<1>1. now \in Nat
  BY Numbers
<1>2. h \in Handler /\ h.what = w /\ h.at = now /\ h.step = "todo"
  BY <1>1, NewHandler
<1>3. chain' = Append(chain, h)
  BY DEF Put
<1>. HIDE DEF h
<1>4. NothingAhead'
  BY DEF NothingAhead, By
<1>5. TimerIsArmed'
  BY DEF TimerIsArmed
<1>6. HandlersInOrder'
  BY <1>2, <1>3, PutInOrder
<1>7. \A i \in DOMAIN chain' :
        chain'[i].at = now \/ \E j \in DOMAIN chain : chain'[i].at = chain[j].at
  <2>1. chain \in Seq(Handler)
    BY DEF TypeOK
  <2>. QED
    BY <1>2, <1>3, <2>1, AppendToSeq
<1>8. SessionLeads'
  BY <1>7, SameSession
<1>9. NoneForgotten'
  BY <1>4, <1>7, ForgottenKept DEF Checked, Reaches
<1>. QED
  BY <1>4, <1>5, <1>6, <1>8, <1>9

(* croner calls back and waits for a time after this one.                   *)
LEMMA TimerFiresTimes ==
  ASSUME Inv, TimerFires
  PROVE  TimesInv'
<1>. USE DEF Inv, TimesInv
<1>1. now \in Nat /\ next \in Slots /\ next <= now /\ up # "down"
  BY Numbers DEF TimerFires, Due, TimerIsArmed
<1>2. next' # None => next' \in Slots /\ next' > now
  BY <1>1, NextSlotIs DEF TimerFires
<1>3. armedAt # None => armedAt \in Nat /\ armedAt <= now
  BY Numbers DEF NothingAhead, By
<1>4. next' # None => next' \in Slots /\ (armedAt # None => next' > armedAt)
  BY <1>1, <1>2, <1>3, Numbers
<1>. QED
  BY <1>1, <1>4, PutTimes DEF TimerFires, driver, ghost

(* The resume event puts a check on the chain, if the automation is on.     *)
LEMMA ResumeTimes ==
  ASSUME Inv, Resume
  PROVE  TimesInv'
<1>. USE DEF Inv, TimesInv
<1>1. up # "down" /\ up' = up
  BY DEF Resume, TimerIsArmed
<1>2. CASE job.enabled
  BY <1>1, <1>2, PutTimes DEF Resume, TimerIsArmed, timer, driver, ghost
<1>3. CASE ~job.enabled
  <2>1. UNCHANGED <<now, up, job, disk, checkpoint, timer, chain, stamps, edit,
                    asks, firing, owed, excused>>
    BY <1>3 DEF Resume, driver, ghost
  <2>2. NothingAhead' /\ TimerIsArmed'
    BY <1>1, <2>1 DEF NothingAhead, By, TimerIsArmed, timer
  <2>3. HandlersInOrder' /\ SessionLeads'
    BY <2>1, SameOrder, SameSession DEF timer
  <2>4. NoneForgotten'
    BY <1>3, <2>1 DEF NoneForgotten
  <2>. QED
    BY <2>2, <2>3, <2>4
<1>. QED
  BY <1>2, <1>3

(* So does the start of the process.                                        *)
LEMMA StartCheckTimes ==
  ASSUME Inv, StartCheck
  PROVE  TimesInv'
<1>. USE DEF Inv, TimesInv
<1>1. up = "starting" /\ up' = "up"
  BY DEF StartCheck
<1>2. CASE job.enabled
  BY <1>1, <1>2, PutTimes DEF StartCheck, TimerIsArmed, timer, driver, ghost
<1>3. CASE ~job.enabled
  <2>1. UNCHANGED <<now, job, disk, checkpoint, timer, chain, stamps, edit,
                    asks, firing, owed, excused>>
    BY <1>3 DEF StartCheck, driver, ghost
  <2>2. NothingAhead' /\ TimerIsArmed'
    BY <1>1, <2>1 DEF NothingAhead, By, TimerIsArmed, timer
  <2>3. HandlersInOrder' /\ SessionLeads'
    BY <2>1, SameOrder, SameSession DEF timer
  <2>4. NoneForgotten'
    BY <1>3, <2>1 DEF NoneForgotten
  <2>. QED
    BY <2>2, <2>3, <2>4
<1>. QED
  BY <1>2, <1>3

-----------------------------------------------------------------------------

(* A handler goes on and no time is settled.                                *)
LEMMA GoesOnTimes ==
  ASSUME Inv, chain # <<>>,
         job'.checked = job.checked, job'.lastRun = job.lastRun,
         job'.enabled = job.enabled,
         UNCHANGED <<now, up, disk, checkpoint, timer, stamps, edit, firing,
                     resumed, owed, excused>>,
         \/ chain' = Tail(chain)
         \/ /\ chain[1].step # "todo"
            /\ \E g \in Handler : /\ g.at = chain[1].at /\ g.what = chain[1].what
                                  /\ chain' = [chain EXCEPT ![1] = g]
  PROVE  TimesInv'
<1>. USE DEF Inv, TimesInv
<1>1. NothingAhead'
  BY DEF NothingAhead, By, timer
<1>2. TimerIsArmed'
  BY DEF TimerIsArmed, timer
<1>3. HandlersInOrder'
  <2>1. CASE chain' = Tail(chain)
    BY <2>1, TailInOrder DEF timer
  <2>2. CASE chain' # Tail(chain)
    <3>1. PICK g \in Handler : /\ g.at = chain[1].at /\ g.what = chain[1].what
                               /\ chain' = [chain EXCEPT ![1] = g]
      BY <2>2
    <3>2. chain[1].step # "todo" /\ 1 \in DOMAIN chain
      BY <2>2, Handlers
    <3>3. Reaches(checkpoint', chain[1].at)
      BY <3>2 DEF HandlersInOrder
    <3>. QED
      BY <3>1, <3>3, MoveInOrder DEF timer
  <2>. QED
    BY <2>1, <2>2
<1>4. \A i \in DOMAIN chain' : \E j \in DOMAIN chain : chain'[i].at = chain[j].at
  BY MomentsStay
<1>5. SessionLeads'
  BY <1>4, SameSession
<1>6. NoneForgotten'
  BY <1>1, <1>4, ForgottenKept DEF Checked, Reaches, timer
<1>. QED
  BY <1>1, <1>2, <1>3, <1>5, <1>6

(* onScheduledFire acts on what it noted.                                   *)
LEMMA TickActsTimes ==
  ASSUME Inv, TickActs
  PROVE  TimesInv'
<1>. USE DEF Inv, TimesInv
<1>. DEFINE v == chain[1].verdict
            m == LatestSlot(chain[1].at)
<1>1. /\ chain # <<>> /\ Head(chain) = chain[1] /\ 1 \in DOMAIN chain
      /\ chain[1].step = "noted" /\ Act(v, job, m)
      /\ UNCHANGED <<now, up, disk, checkpoint, timer, stamps, edit, firing,
                     resumed, owed, excused>>
  BY Handlers DEF TickActs, Working, ghost
<1>2. m \in Slots \cup {None}
  BY <1>1, Handlers, LatestSlotType
<1>3. v = "skip" => v \in Verdicts
  BY DEF Verdicts
<1>. HIDE DEF v, m
<1>4. CASE v = "skip"
  BY <1>1, <1>2, <1>3, <1>4, Acts, GoesOnTimes
<1>5. CASE v # "skip"
  <2>1. job' = job /\ chain' = Tail(chain)
    BY <1>1, <1>5 DEF Act, Done
  <2>. QED
    BY <1>1, <2>1, GoesOnTimes
<1>. QED
  BY <1>4, <1>5

(* The row of missed times is written and the handler is done.              *)
LEMMA SkipWrittenTimes ==
  ASSUME Inv, SkipWritten
  PROVE  TimesInv'
BY GoesOnTimes DEF SkipWritten, Working, Done, driver, ghost

(* The closing write of a check moves the checkpoint of the record, never   *)
(* back and never past that of the session.                                 *)
LEMMA CheckStampsTimes ==
  ASSUME Inv, CheckStamps
  PROVE  TimesInv'
<1>. USE DEF Inv, TimesInv
<1>1. PICK t \in stamps :
        /\ stamps' = stamps \ {t}
        /\ job' = IF job.checked # None /\ job.checked >= t THEN job
                  ELSE [job EXCEPT !.checked = t]
  BY DEF CheckStamps
<1>2. UNCHANGED <<now, up, disk, checkpoint, timer, chain, edit, driver,
                  resumed, owed, excused>>
  BY DEF CheckStamps, ghost
<1>3. t \in Nat /\ t <= now
  BY Numbers DEF NothingAhead
<1>4. job \in Record
  BY DEF TypeOK
<1>5. /\ job'.checked \in {job.checked, t} /\ job'.lastRun = job.lastRun
      /\ job'.enabled = job.enabled
      /\ job.checked # None => job'.checked # None /\ job.checked <= job'.checked
  <2>1. CASE job.checked # None /\ job.checked >= t
    BY <1>1, <2>1, Numbers
  <2>2. CASE ~ (job.checked # None /\ job.checked >= t)
    BY <1>1, <1>3, <1>4, <2>2, Rechecked, Numbers
  <2>. QED
    BY <2>1, <2>2
<1>6. NothingAhead'
  BY <1>1, <1>2, <1>3, <1>5 DEF NothingAhead, By, timer, driver
<1>7. SessionLeads'
  <2>1. checkpoint # None /\ t <= checkpoint /\ By(job.checked, checkpoint)
    BY <1>1 DEF SessionLeads
  <2>. QED
    BY <1>1, <1>2, <1>5, <2>1 DEF SessionLeads, By
<1>8. TimerIsArmed'
  BY <1>1, <1>2, <1>5 DEF TimerIsArmed, timer, driver
<1>9. HandlersInOrder'
  BY <1>1, <1>2, SameOrder
<1>10. \A s \in Slots : Checked(s) => Checked(s)'
  BY <1>2, <1>3, <1>5, Numbers DEF Checked, Reaches
<1>11. NoneForgotten'
  BY <1>2, <1>5, <1>6, <1>10, ForgottenKept DEF timer
<1>. QED
  BY <1>6, <1>7, <1>8, <1>9, <1>11

(* The file catches up with the record.                                     *)
LEMMA LandTimes ==
  ASSUME Inv, Land
  PROVE  TimesInv'
BY Aside DEF Land, driver, ghost, timer, Inv, TimesInv, TimerIsArmed

(* A pass that is asked for is held.                                        *)
LEMMA DriverHoldsTimes ==
  ASSUME Inv, DriverHolds
  PROVE  TimesInv'
BY Aside DEF DriverHolds, ghost, timer, Inv, TimesInv, TimerIsArmed

-----------------------------------------------------------------------------

(* A pass is begun now.                                                     *)
LEMMA DriverStartsTimes ==
  ASSUME Inv, DriverStarts
  PROVE  TimesInv'
<1>. USE DEF Inv, TimesInv
<1>1. /\ firing' = now /\ up # "down" /\ now \in Nat
      /\ UNCHANGED <<now, up, job, disk, checkpoint, timer, chain, stamps, edit,
                     resumed, owed, excused>>
  BY Numbers DEF DriverStarts, TimerIsArmed, ghost
<1>2. NothingAhead'
  BY <1>1 DEF NothingAhead, By, timer
<1>3. TimerIsArmed'
  BY <1>1 DEF TimerIsArmed, timer
<1>4. HandlersInOrder' /\ SessionLeads'
  BY <1>1, SameOrder, SameSession DEF timer
<1>5. NoneForgotten'
  BY <1>1, <1>2, ForgottenKept DEF Checked, Reaches, timer
<1>. QED
  BY <1>2, <1>3, <1>4, <1>5

(* Excusing keeps every time among those that may be settled.               *)
LEMMA ExcuseKeeps ==
  ASSUME TypeOK, NEW at \in Nat, Excuse(at)
  PROVE  /\ owed' \cup excused' = owed \cup excused
         /\ excused \subseteq excused' /\ owed' \subseteq owed
         /\ \A s \in owed : s <= at => s \in excused'
<1>1. \A s \in owed : s \in Nat /\ (s > at \/ s <= at)
  BY Numbers
<1>. QED
  BY <1>1 DEF Excuse

(* The record says when the pass was begun, which may be after the moment   *)
(* of a handler at work: that handler has noted its own checkpoint by then. *)
LEMMA DriverLaunchedTimes ==
  ASSUME Inv, DriverLaunched
  PROVE  TimesInv'
<1>. USE DEF Inv, TimesInv
<1>1. /\ firing \in Nat /\ firing <= now /\ By(job.lastRun, firing) /\ up # "down"
      /\ firing' = None
      /\ UNCHANGED <<now, up, disk, checkpoint, timer, chain, stamps, edit, resumed>>
  BY Numbers DEF DriverLaunched, NothingAhead, By, TimerIsArmed
<1>2. /\ owed' \cup excused' = owed \cup excused /\ excused \subseteq excused'
      /\ \A s \in owed : s <= firing => s \in excused'
  BY <1>1, ExcuseKeeps DEF DriverLaunched
<1>3. /\ job'.checked = job.checked /\ job'.lastRun = firing
      /\ job'.enabled = job.enabled
  <2>1. job \in Record /\ job' = [job EXCEPT !.lastRun = firing, !.status = "running"]
    BY DEF TypeOK, DriverLaunched
  <2>. QED
    BY <1>1, <2>1, Restarted
<1>4. NothingAhead'
  <2>1. disk.lastRun # None => disk.lastRun <= firing
    BY <1>1, Numbers DEF NothingAhead, By
  <2>. QED
    BY <1>1, <1>2, <1>3, <2>1, SchedulerAssumption DEF NothingAhead, By, timer
<1>5. SessionLeads'
  BY <1>1, <1>3, SameSession
<1>6. TimerIsArmed'
  BY <1>1, <1>3 DEF TimerIsArmed, timer
<1>7. HandlersInOrder'
  BY <1>1, SameOrder DEF timer
<1>8. NoneForgotten'
  <2>. SUFFICES ASSUME job.enabled PROVE NoneForgotten'
    BY <1>3 DEF NoneForgotten
  <2>1. Unowed' = Unowed
    BY <1>1, <1>2 DEF Unowed
  <2>2. \A s \in Slots : /\ Checked(s)' <=> Checked(s)
                         /\ Reaches(armedAt, s)' <=> Reaches(armedAt, s)
    BY <1>1, <1>3 DEF Checked, Reaches, timer
  <2>3. Slots \subseteq Nat /\ None \notin Nat
    BY Numbers
  <2>4. ASSUME NEW s \in Unowed
        PROVE  \/ Checked(s)
               \/ s <= firing /\ \A i \in DOMAIN chain : firing <= chain[i].at
    <3>1. s \in Slots
      BY DEF Unowed
    <3>2. CASE chain = <<>>
      <4>1. DOMAIN chain = {}
        BY <3>2
      <4>2. Checked(s) \/ Reaches(job.lastRun, s)
        BY DEF NoneForgotten
      <4>3. Reaches(job.lastRun, s) => s <= firing
        BY <1>1, <2>3, <3>1, Numbers DEF Reaches, By
      <4>. QED
        BY <4>1, <4>2, <4>3
    <3>3. CASE chain # <<>>
      <4>1. 1 \in DOMAIN chain /\ chain[1].step # "todo"
        BY <3>3, Handlers DEF DriverLaunched, Calm
      <4>2. Reaches(checkpoint, chain[1].at)
        BY <4>1 DEF HandlersInOrder
      <4>3. \/ Checked(s)
            \/ Reaches(job.lastRun, s) /\ job.lastRun <= chain[1].at
        BY <4>1 DEF NoneForgotten
      <4>4. chain[1].at \in Nat
        BY <4>1, Handlers
      <4>5. Reaches(job.lastRun, s) /\ job.lastRun <= chain[1].at
              => s <= chain[1].at
        BY <2>3, <3>1, <4>4, Numbers DEF Reaches
      <4>6. s <= chain[1].at => Checked(s)
        BY <2>3, <3>1, <4>2, <4>4, Numbers DEF Checked, Reaches
      <4>. QED
        BY <4>3, <4>5, <4>6
    <3>. QED
      BY <3>2, <3>3
  <2>5. \A s \in Unowed : Checked(s) \/ Reaches(armedAt, s)
    BY <1>1 DEF NoneForgotten
  <2>6. ASSUME NEW s \in Slots \ excused', s <= firing
        PROVE  Checked(s) \/ Reaches(armedAt, s)
    <3>1. s <= now
      BY <1>1, <2>3, <2>6, Numbers
    <3>2. s \in Unowed
      BY <1>2, <2>6, <3>1 DEF Unowed
    <3>. QED
      BY <2>5, <3>2
  <2>7. \A s \in Slots : Reaches(job.lastRun, s)' <=> s <= firing
    BY <1>1, <1>3, <2>3 DEF Reaches
  <2>8. \A s \in Unowed' : s \in Slots
    BY DEF Unowed
  <2>. QED
    BY <1>1, <1>3, <2>1, <2>2, <2>4, <2>5, <2>6, <2>7, <2>8 DEF NoneForgotten
<1>. QED
  BY <1>4, <1>5, <1>6, <1>7, <1>8

(* A checkpoint of now covers all, and so does an arming of now once a      *)
(* check would find nothing that is settled.                                *)
LEMMA CoveredNow ==
  ASSUME TypeOK', NothingAhead',
         \/ checkpoint' = now'
         \/ /\ armedAt' = now'
            /\ \A s \in Unowed' :
                 \/ Checked(s)'
                 \/ /\ Reaches(job.lastRun, s)'
                    /\ \A i \in DOMAIN chain' : job'.lastRun <= chain'[i].at
  PROVE  NoneForgotten'
<1>1. /\ now' \in Nat /\ None \notin Nat /\ Slots \subseteq Nat
      /\ job'.lastRun \in Nat \cup {None}
  <2>1. job' \in Record
    BY DEF TypeOK
  <2>. QED
    BY <2>1, RecordFields, SchedulerAssumption DEF TypeOK
<1>2. \A s \in Slots : s <= now' => Checked(s)' \/ Reaches(armedAt, s)'
  BY <1>1 DEF Checked, Reaches
<1>3. \A s \in Unowed' : s \in Slots /\ s <= now'
  BY DEF Unowed
<1>4. \A s \in Slots : Reaches(job.lastRun, s)' => s <= now'
  <2>1. By(job.lastRun, now)'
    BY DEF NothingAhead
  <2>. QED
    BY <1>1, <2>1 DEF Reaches, By
<1>5. ASSUME NEW s \in Unowed'
      PROVE  \/ Checked(s)'
             \/ /\ Reaches(job.lastRun, s)'
                /\ \A i \in DOMAIN chain' : job'.lastRun <= chain'[i].at
  BY <1>1, <1>3, <1>5 DEF Checked, Reaches
<1>. QED
  BY <1>2, <1>3, <1>4, <1>5 DEF NoneForgotten

(* An edit arms the timer, behind whatever handlers wait.                   *)
LEMMA EditArmsTimes ==
  ASSUME Inv, TypeOK', EditArms
  PROVE  TimesInv'
<1>. USE DEF Inv, TimesInv
<1>1. /\ edit # None /\ edit' = None /\ up # "down" /\ now \in Nat
      /\ UNCHANGED <<now, up, job, disk, checkpoint, chain, stamps, firing, resumed,
                     owed, excused>>
  BY Numbers DEF EditArms, TimerIsArmed, driver, ghost
<1>2. HandlersInOrder' /\ SessionLeads'
  BY <1>1, SameOrder, SameSession
<1>3. CASE edit = "arm"
  <2>1. armedAt' = now /\ next' = NextSlot(now)
    BY <1>3 DEF EditArms
  <2>2. NothingAhead'
    BY <1>1, <2>1 DEF NothingAhead, By
  <2>3. TimerIsArmed'
    BY <1>1, <2>1, NextSlotIs, SchedulerAssumption DEF TimerIsArmed
  <2>4. CASE job.enabled
    <3>1. ASSUME NEW s \in Unowed'
          PROVE  \/ Checked(s)'
                 \/ /\ Reaches(job.lastRun, s)'
                    /\ \A i \in DOMAIN chain' : job'.lastRun <= chain'[i].at
      BY <1>1, <2>4, <3>1 DEF NoneForgotten, Checked, Reaches, Unowed
    <3>2. NoneForgotten'
      BY <1>1, <2>1, <2>2, <3>1, CoveredNow
    <3>. QED
      BY <1>2, <2>2, <2>3, <3>2
  <2>5. CASE ~job.enabled
    <3>1. NoneForgotten'
      BY <1>1, <2>5 DEF NoneForgotten
    <3>. QED
      BY <1>2, <2>2, <2>3, <3>1
  <2>. QED
    BY <2>4, <2>5
<1>4. CASE edit # "arm"
  <2>1. /\ armedAt' = None /\ next' = None /\ edit = "disarm" /\ ~job.enabled
    BY <1>1, <1>4, SchedulerAssumption DEF EditArms, TimerIsArmed, TypeOK
  <2>2. NothingAhead'
    BY <1>1, <2>1 DEF NothingAhead, By
  <2>3. TimerIsArmed'
    BY <1>1, <2>1, SchedulerAssumption DEF TimerIsArmed
  <2>4. NoneForgotten'
    BY <1>1, <2>1 DEF NoneForgotten
  <2>. QED
    BY <1>2, <2>2, <2>3, <2>4
<1>. QED
  BY <1>3, <1>4

(* A run by hand excuses what came before it.                               *)
LEMMA RunByHandTimes ==
  ASSUME Inv, RunByHand
  PROVE  TimesInv'
<1>. USE DEF Inv, TimesInv
<1>1. /\ firing' = now /\ up # "down" /\ now \in Nat /\ Excuse(now)
      /\ UNCHANGED <<now, up, job, disk, checkpoint, timer, chain, stamps, edit,
                     resumed>>
  BY Numbers DEF RunByHand, Hand
<1>2. /\ owed' \cup excused' = owed \cup excused /\ excused \subseteq excused'
  BY <1>1, ExcuseKeeps
<1>3. NothingAhead'
  BY <1>1, <1>2 DEF NothingAhead, By, timer
<1>4. TimerIsArmed'
  BY <1>1 DEF TimerIsArmed, timer
<1>5. HandlersInOrder' /\ SessionLeads'
  BY <1>1, SameOrder, SameSession DEF timer
<1>6. NoneForgotten'
  BY <1>1, <1>2, <1>3, ForgottenKept DEF Checked, Reaches, timer
<1>. QED
  BY <1>3, <1>4, <1>5, <1>6

(* Pausing, going on, the end of a pass: the status of the record.          *)
LEMMA StatusTimes ==
  ASSUME Inv, Pause \/ Unpause \/ PassEnds
  PROVE  TimesInv'
<1>1. job \in Record
  BY DEF Inv, TypeOK
<1>2. /\ job'.checked = job.checked /\ job'.lastRun = job.lastRun
      /\ job'.enabled = job.enabled
  <2>1. job' = job \/ \E v \in Statuses : job' = [job EXCEPT !.status = v]
    BY DEF Pause, Unpause, PassEnds, Statuses
  <2>. QED
    BY <1>1, <2>1, Restatused
<1>3. UNCHANGED <<now, up, disk, checkpoint, timer, chain, stamps, edit, asks,
                  firing, resumed, owed, excused>>
  BY DEF Pause, Unpause, PassEnds, driver, ghost
<1>4. up = "down" => asks = 0
  BY DEF Inv, TimesInv, TimerIsArmed
<1>. QED
  BY <1>2, <1>3, <1>4, Aside

(* An edit that leaves the trigger alone only asks for the timer to be      *)
(* armed.                                                                   *)
LEMMA EditOtherTimes ==
  ASSUME Inv, EditOther
  PROVE  TimesInv'
BY Aside DEF EditOther, Hand, driver, ghost

(* Switching on and editing the trigger: the schedule is settled up to now. *)
LEMMA StampedTimes ==
  ASSUME Inv, TypeOK', SwitchOn \/ EditTrigger
  PROVE  TimesInv'
<1>. USE DEF Inv, TimesInv
<1>1. /\ checkpoint' = now /\ edit' = "arm"
      /\ up # "down" /\ now \in Nat /\ Excuse(now)
      /\ UNCHANGED <<now, up, disk, timer, chain, stamps, firing, resumed>>
  BY Numbers DEF SwitchOn, EditTrigger, Hand, driver
<1>2. job'.checked = now /\ job'.lastRun = job.lastRun
  <2>. DEFINE r == Stamped(job)
  <2>1. r \in Record /\ r.checked = now /\ r.lastRun = job.lastRun
    BY <1>1, Rechecked DEF TypeOK, Stamped
  <2>2. CASE SwitchOn
    <3>1. job' = [r EXCEPT !.enabled = TRUE]
      BY <2>2 DEF SwitchOn
    <3>. HIDE DEF r
    <3>. QED
      BY <2>1, <3>1, Reenabled
  <2>3. CASE EditTrigger
    BY <2>1, <2>3 DEF EditTrigger
  <2>. QED
    BY <2>2, <2>3
<1>3. owed' \cup excused' = owed \cup excused
  BY <1>1, ExcuseKeeps
<1>4. NothingAhead'
  BY <1>1, <1>2, <1>3 DEF NothingAhead, By, timer
<1>5. TimerIsArmed'
  BY <1>1, SchedulerAssumption DEF TimerIsArmed, timer
<1>6. SessionLeads'
  <2>1. now # None /\ \A t \in stamps : t <= now
    BY <1>1, SchedulerAssumption DEF NothingAhead
  <2>. QED
    BY <1>1, <1>2, <2>1 DEF SessionLeads, By
<1>7. HandlersInOrder'
  BY <1>1, SchedulerAssumption DEF HandlersInOrder, Reaches
<1>8. NoneForgotten'
  BY <1>1, <1>4, CoveredNow
<1>. QED
  BY <1>4, <1>5, <1>6, <1>7, <1>8

(* Switching off: nothing is owed by an automation that is off.             *)
LEMMA SwitchOffTimes ==
  ASSUME Inv, SwitchOff
  PROVE  TimesInv'
<1>. USE DEF Inv, TimesInv
<1>1. /\ up # "down" /\ now \in Nat /\ Excuse(now)
      /\ UNCHANGED <<now, up, disk, checkpoint, timer, chain, stamps, firing, resumed>>
  BY Numbers DEF SwitchOff, Hand, driver
<1>2. job'.checked = job.checked /\ job'.lastRun = job.lastRun /\ ~job'.enabled
  BY Reenabled DEF SwitchOff, TypeOK
<1>3. owed' \cup excused' = owed \cup excused
  BY <1>1, ExcuseKeeps
<1>4. NothingAhead'
  BY <1>1, <1>2, <1>3 DEF NothingAhead, By, timer
<1>5. TimerIsArmed'
  BY <1>1, <1>2 DEF TimerIsArmed, timer
<1>6. HandlersInOrder' /\ SessionLeads'
  BY <1>1, <1>2, SameOrder, SameSession DEF timer
<1>7. NoneForgotten'
  BY <1>2 DEF NoneForgotten
<1>. QED
  BY <1>4, <1>5, <1>6, <1>7

-----------------------------------------------------------------------------

(* Time passes, awake or asleep.                                            *)
LEMMA PassingTimes ==
  ASSUME Inv, NEW to \in Nat, to >= now, TimePasses(to),
         UNCHANGED <<up, job, disk, checkpoint, timer, chain, stamps, edit,
                     asks, firing, excused>>,
         resumed' = resumed \/ up # "down"
  PROVE  TimesInv'
<1>. USE DEF Inv, TimesInv
<1>1. now' = to /\ now \in Nat /\ to >= now
  BY Numbers DEF TimePasses
<1>2. /\ \A s \in owed' : s <= to
      /\ job.enabled => Unowed' \subseteq Unowed
  <2>1. \A s \in owed : s \in Nat /\ s <= now
    BY Numbers DEF NothingAhead
  <2>2. Slots \subseteq Nat
    BY Numbers
  <2>3. /\ owed \subseteq owed'
        /\ \A s \in owed' : s \in owed \/ (now < s /\ s <= to)
        /\ job.enabled => \A s \in Slots : now < s /\ s <= to => s \in owed'
    BY DEF TimePasses
  <2>4. \A s \in owed' : s <= to
    BY <1>1, <2>1, <2>3
  <2>5. ASSUME job.enabled, NEW s \in Slots, s <= to,
               s \notin owed' \cup excused
        PROVE  s <= now /\ s \notin owed \cup excused
    BY <1>1, <2>2, <2>3, <2>5
  <2>6. job.enabled => Unowed' \subseteq Unowed
    BY <1>1, <2>5 DEF Unowed
  <2>. QED
    BY <2>4, <2>6
<1>3. NothingAhead'
  <2>1. \A t \in {checkpoint, armedAt, firing, job.checked, job.lastRun,
                  disk.checked, disk.lastRun} : By(t, to)
    BY <1>1, Numbers DEF NothingAhead, By
  <2>2. \A s \in stamps \cup excused : s <= to
    BY <1>1, Numbers DEF NothingAhead
  <2>. QED
    BY <1>1, <1>2, <2>1, <2>2 DEF NothingAhead, By, timer
<1>4. TimerIsArmed' /\ SessionLeads'
  BY SameSession DEF TimerIsArmed, timer
<1>5. HandlersInOrder'
  <2>1. \A i \in DOMAIN chain : chain[i].at \in Nat /\ chain[i].at <= to
    BY <1>1, Handlers DEF HandlersInOrder
  <2>. QED
    BY <1>1, <2>1 DEF HandlersInOrder, Reaches, timer
<1>6. NoneForgotten'
  <2>1. \A s : /\ Checked(s)' <=> Checked(s)
               /\ Reaches(armedAt, s)' <=> Reaches(armedAt, s)
               /\ Reaches(job.lastRun, s)' <=> Reaches(job.lastRun, s)
    BY DEF Checked, Reaches, timer
  <2>. QED
    BY <1>2, <2>1 DEF NoneForgotten
<1>. QED
  BY <1>3, <1>4, <1>5, <1>6

(* The clock goes on by one.                                                *)
LEMMA AdvanceTimes ==
  ASSUME Inv, Advance
  PROVE  TimesInv'
<1>1. now \in Nat /\ now + 1 \in Nat /\ now + 1 >= now
  BY Numbers DEF Inv
<1>. QED
  BY <1>1, PassingTimes DEF Advance, driver

(* The machine sleeps through any number of times.                          *)
LEMMA SleepTimes ==
  ASSUME Inv, Sleep
  PROVE  TimesInv'
<1>1. now \in Nat /\ MaxTime \in Nat
  BY Numbers, SchedulerAssumption DEF Inv
<1>2. PICK to \in now + 1..MaxTime : TimePasses(to)
  BY DEF Sleep
<1>3. to \in Nat /\ to >= now
  BY <1>1
<1>. QED
  BY <1>2, <1>3, PassingTimes DEF Sleep, driver

(* The process dies, and the record is what the file holds; what the file   *)
(* does not know is owed again.                                             *)
LEMMA CrashTimes ==
  ASSUME Inv, Crash
  PROVE  TimesInv'
<1>. USE DEF Inv, TimesInv
<1>1. /\ up' = "down" /\ job' = disk /\ checkpoint' = None /\ armedAt' = None
      /\ next' = None /\ chain' = <<>> /\ stamps' = {} /\ edit' = None
      /\ asks' = 0 /\ firing' = None /\ ~resumed' /\ excused' = {}
      /\ now' = now /\ disk' = disk
      /\ owed' = {s \in Slots : disk.enabled /\ s <= now /\ ~Known(s)}
  BY DEF Crash
<1>2. By(disk.checked, now) /\ By(disk.lastRun, now)
  BY DEF NothingAhead
<1>3. NothingAhead'
  BY <1>1, <1>2, Numbers DEF NothingAhead, By
<1>4. SessionLeads'
  <2>1. DOMAIN chain' = {}
    BY <1>1
  <2>. QED
    BY <1>1, <2>1 DEF SessionLeads
<1>5. TimerIsArmed'
  BY <1>1, SchedulerAssumption DEF TimerIsArmed
<1>6. DOMAIN chain' = {}
  BY <1>1
<1>7. HandlersInOrder'
  BY <1>6 DEF HandlersInOrder
<1>8. NoneForgotten'
  <2>. SUFFICES ASSUME disk.enabled,
                       NEW s \in Slots, s <= now, Known(s)
                PROVE  Checked(s)' \/ Reaches(job.lastRun, s)'
    BY <1>1, <1>6 DEF NoneForgotten, Unowed
  <2>. DEFINE b == Baseline(disk, None, now)
  <2>1. b \in {disk.checked, disk.lastRun, 0} \ {None}
    BY Numbers, BaselineIs
  <2>2. s <= b /\ s \in Nat \ {0}
    BY SchedulerAssumption DEF Known
  <2>3. b \in {disk.checked, disk.lastRun} /\ b # None
    <3>. HIDE DEF b
    <3>. QED
      BY <2>1, <2>2
  <2>. HIDE DEF b
  <2>. QED
    BY <1>1, <2>2, <2>3 DEF Checked, Reaches
<1>. QED
  BY <1>3, <1>4, <1>5, <1>7, <1>8

(* The process starts and arms the timer.                                   *)
LEMMA StartTimes ==
  ASSUME Inv, TypeOK', Start
  PROVE  TimesInv'
<1>. USE DEF Inv, TimesInv
<1>1. /\ up = "down" /\ up' = "starting" /\ chain = <<>> /\ chain' = <<>>
      /\ next = None /\ firing' = None /\ now \in Nat
      /\ UNCHANGED <<now, disk, checkpoint, stamps, edit, resumed, owed, excused>>
  BY Numbers DEF Start, TimerIsArmed, driver, ghost
<1>2. /\ job'.checked = job.checked /\ job'.lastRun = job.lastRun
      /\ job'.enabled = job.enabled
  <2>1. job' = job \/ \E v \in Statuses : job' = [job EXCEPT !.status = v]
    BY DEF Start, Statuses
  <2>2. job \in Record
    BY DEF TypeOK
  <2>. QED
    BY <2>1, <2>2, Restatused
<1>3. HandlersInOrder' /\ SessionLeads'
  BY <1>1, <1>2, SameOrder, SameSession
<1>4. CASE job.enabled
  <2>1. armedAt' = now /\ next' = NextSlot(now)
    BY <1>4 DEF Start
  <2>2. NothingAhead'
    BY <1>1, <1>2, <2>1 DEF NothingAhead, By
  <2>3. TimerIsArmed'
    BY <1>1, <2>1, NextSlotIs, SchedulerAssumption DEF TimerIsArmed
  <2>4. ASSUME NEW s \in Unowed'
        PROVE  \/ Checked(s)'
               \/ /\ Reaches(job.lastRun, s)'
                  /\ \A i \in DOMAIN chain' : job'.lastRun <= chain'[i].at
    BY <1>1, <1>2, <1>4, <2>4 DEF NoneForgotten, Checked, Reaches, Unowed
  <2>5. NoneForgotten'
    BY <1>1, <2>1, <2>2, <2>4, CoveredNow
  <2>. QED
    BY <1>3, <2>2, <2>3, <2>5
<1>5. CASE ~job.enabled
  <2>1. UNCHANGED timer
    BY <1>5 DEF Start
  <2>2. NothingAhead'
    BY <1>1, <1>2, <2>1 DEF NothingAhead, By, timer
  <2>3. TimerIsArmed'
    BY <1>1, <2>1, SchedulerAssumption DEF TimerIsArmed, timer
  <2>4. NoneForgotten'
    BY <1>2, <1>5 DEF NoneForgotten
  <2>. QED
    BY <1>3, <2>2, <2>3, <2>4
<1>. QED
  BY <1>4, <1>5

-----------------------------------------------------------------------------
(* Types.                                                                   *)

(* The initial state has its types.                                         *)
LEMMA InitType ==
  ASSUME Init
  PROVE  TypeOK
<1>. USE SchedulerAssumption
<1>1. NextSlot(0) \in Nat \cup {None}
  BY NextSlotIs
<1>2. Fresh \in Record
  BY DEF Fresh, Record, Statuses
<1>3. chain \in Seq(Handler)
  BY EmptySeq DEF Init
<1>4. job \in Record /\ disk \in Record
  BY <1>2 DEF Init
<1>5. /\ now \in 0..MaxTime /\ made \in Nat /\ asks \in Nat
      /\ {checkpoint, armedAt, next, firing} \subseteq Nat \cup {None}
  BY <1>1 DEF Init
<1>. HIDE SchedulerAssumption
<1>. QED
  BY <1>3, <1>4, <1>5 DEF Init, TypeOK

(* The steps of the handlers keep the types.                                *)
LEMMA TurnsType ==
  ASSUME TypeOK, TickDropped \/ TickNoted \/ CheckSettles \/ TickActs \/ SkipWritten
  PROVE  TypeOK'
<1>. DEFINE at == chain[1].at
<1>1. /\ chain # <<>> /\ Head(chain) = chain[1] /\ at \in Nat
      /\ UNCHANGED <<now, policy, up, disk, armedAt, next, edit, firing, live, resumed>>
  BY Handlers DEF TickDropped, TickNoted, CheckSettles, TickActs, SkipWritten,
                  Working, timer, driver
<1>2. Tail(chain) \in Seq(Handler)
  BY <1>1, TailOfSeq DEF TypeOK
<1>3. \A g \in Handler : [chain EXCEPT ![1] = g] \in Seq(Handler)
  BY <1>1, FirstReplaced DEF TypeOK
<1>4. ASSUME NEW v \in Verdicts, NEW p \in {"todo", "noted", "acting"}, Move(p, v)
      PROVE  chain' \in Seq(Handler)
  BY <1>1, <1>3, <1>4, FirstMoves
<1>5. Settle(at) => /\ owed' \subseteq owed /\ excused' \subseteq excused
                    /\ made' = made + 1
  BY DEF Settle
<1>6. job \in Record /\ MaxOf(checkpoint, at) \in Nat \cup {None}
  BY <1>1 DEF TypeOK, MaxOf
<1>7. CASE TickDropped \/ SkipWritten
  BY <1>1, <1>2, <1>7
     DEF TickDropped, SkipWritten, Done, TypeOK, timer, driver, ghost
<1>8. CASE TickNoted
  <2>. DEFINE v == Classify(job, checkpoint, armedAt, at)
  <2>1. /\ checkpoint' = MaxOf(checkpoint, at) /\ Move("noted", v) /\ Settle(at)
        /\ job' = job \/ job' = [job EXCEPT !.checked = at]
        /\ UNCHANGED <<stamps, asks>>
    BY <1>1, <1>8 DEF TickNoted, TickVerdict, driver
  <2>2. v \in Verdicts
    BY DEF Classify, Decide, Verdicts
  <2>. HIDE DEF v, at
  <2>3. chain' \in Seq(Handler)
    BY <1>4, <2>1, <2>2
  <2>4. job' \in Record
    BY <1>1, <1>6, <2>1, Rechecked
  <2>. QED
    BY <1>1, <1>5, <1>6, <2>1, <2>3, <2>4 DEF TypeOK
<1>9. CASE TickActs
  <2>. DEFINE v == chain[1].verdict
              m == LatestSlot(at)
  <2>1. Act(v, job, m) /\ UNCHANGED <<checkpoint, stamps, ghost>>
    BY <1>1, <1>9 DEF TickActs
  <2>2. m \in Slots \cup {None} /\ (v = "skip" => v \in Verdicts)
    BY <1>1, LatestSlotType DEF Verdicts
  <2>. HIDE DEF v, m
  <2>3. chain' \in Seq(Handler) /\ job' \in Record /\ asks' \in Nat
    <3>1. CASE v = "skip"
      BY <1>1, <1>2, <1>3, <2>1, <2>2, <3>1, Acts
    <3>2. CASE v # "skip"
      BY <1>2, <1>6, <2>1, <3>2 DEF Act, Ask, Done, TypeOK
    <3>. QED
      BY <3>1, <3>2
  <2>. QED
    BY <1>1, <2>1, <2>3 DEF TypeOK, ghost
<1>10. CASE CheckSettles
  <2>. DEFINE v == CheckVerdict(job, checkpoint, chain[1].what, at)
              m == LatestSlot(at)
  <2>1. CASE ~job.enabled \/ armedAt = None
    BY <1>1, <1>2, <1>10, <2>1 DEF CheckSettles, Done, TypeOK, ghost
  <2>2. CASE ~ (~job.enabled \/ armedAt = None)
    <3>1. /\ checkpoint' = MaxOf(checkpoint, at) /\ stamps' = stamps \cup {at}
          /\ Act(v, job, m)
          /\ UNCHANGED ghost \/ Settle(at)
      BY <1>1, <1>10, <2>2 DEF CheckSettles
    <3>2. v \in Verdicts /\ m \in Slots \cup {None}
      <4>1. v \in Verdicts
        BY DEF CheckVerdict, Decide, Verdicts
      <4>. QED
        BY <1>1, <4>1, LatestSlotType
    <3>. HIDE DEF at, v, m
    <3>3. /\ \/ chain' = Tail(chain)
             \/ \E g \in Handler : chain' = [chain EXCEPT ![1] = g]
          /\ job' \in Record /\ asks' \in Nat
      <4>1. Act(v, job, m)
        BY <3>1
      <4>. QED
        BY <1>1, <3>2, <4>1, Acts
    <3>5. chain' \in Seq(Handler)
      BY <1>2, <1>3, <3>3
    <3>4. owed' \subseteq Slots /\ excused' \subseteq Slots /\ made' \in Nat
      BY <1>5, <3>1 DEF ghost, TypeOK
    <3>. QED
      BY <1>1, <1>6, <3>1, <3>3, <3>4, <3>5 DEF TypeOK
  <2>. QED
    BY <2>1, <2>2
<1>. QED
  BY <1>7, <1>8, <1>9, <1>10

(* Putting a handler on the chain keeps its type.                           *)
LEMMA PutType ==
  ASSUME TypeOK, NEW w \in {"tick", "start", "wake"}, Put(w)
  PROVE  chain' \in Seq(Handler)
<1>. DEFINE h == [what |-> w, at |-> now, step |-> "todo", verdict |-> None]
<1>1. h \in Handler
  BY Numbers, NewHandler
<1>2. chain' = Append(chain, h) /\ chain \in Seq(Handler)
  BY DEF Put, TypeOK
<1>. HIDE DEF h
<1>. QED
  BY <1>1, <1>2, AppendToSeq

(* The other events keep the types.                                         *)
LEMMA EventsType ==
  ASSUME TypeOK, Events
  PROVE  TypeOK'
<1>. USE SchedulerAssumption
<1>1. now \in Nat /\ job \in Record /\ NextSlot(now) \in Nat \cup {None}
  BY Numbers, NextSlotIs DEF TypeOK
<1>2. CASE TimerFires
  BY <1>1, <1>2, PutType DEF TimerFires, TypeOK, driver, ghost
<1>3. CASE Resume
  <2>1. chain' \in Seq(Handler)
    BY <1>3, PutType DEF Resume, TypeOK
  <2>. QED
    BY <1>3, <2>1 DEF Resume, TypeOK, timer, driver, ghost
<1>4. CASE StartCheck
  <2>1. chain' \in Seq(Handler)
    BY <1>4, PutType DEF StartCheck, TypeOK
  <2>. QED
    BY <1>4, <2>1 DEF StartCheck, TypeOK, timer, driver, ghost
<1>5. CASE TickActs \/ SkipWritten
  BY <1>5, TurnsType
<1>6. CASE CheckStamps
  <2>1. PICK t \in stamps :
          /\ stamps' = stamps \ {t}
          /\ job' = job \/ job' = [job EXCEPT !.checked = t]
    BY <1>6 DEF CheckStamps
  <2>2. job' \in Record
    BY <1>1, <2>1, Numbers, Rechecked
  <2>. QED
    BY <1>6, <2>1, <2>2 DEF CheckStamps, TypeOK, timer, driver, ghost
<1>7. CASE Land
  BY <1>7 DEF Land, TypeOK, timer, driver, ghost
<1>8. CASE DriverStarts \/ DriverHolds
  <2>1. asks' \in Nat
    BY <1>8 DEF DriverStarts, DriverHolds, TypeOK
  <2>2. firing' \in Nat \cup {None}
    BY <1>8, <1>1 DEF DriverStarts, DriverHolds, TypeOK
  <2>. QED
    BY <1>8, <2>1, <2>2 DEF DriverStarts, DriverHolds, TypeOK, timer, ghost
<1>9. CASE DriverLaunched
  <2>1. firing \in Nat /\ job' = [job EXCEPT !.lastRun = firing, !.status = "running"]
    BY <1>9, Numbers DEF DriverLaunched
  <2>2. job' \in Record
    BY <1>1, <2>1, Restarted
  <2>3. owed' \subseteq Slots /\ excused' \subseteq Slots /\ made' = made
    BY <1>9 DEF DriverLaunched, Excuse, TypeOK
  <2>. QED
    BY <1>9, <2>2, <2>3 DEF DriverLaunched, TypeOK, timer
<1>10. CASE EditArms
  <2>1. {armedAt', next'} \subseteq Nat \cup {None}
    BY <1>1, <1>10 DEF EditArms
  <2>. QED
    BY <1>10, <2>1 DEF EditArms, TypeOK, driver, ghost
<1>. QED
  BY <1>2, <1>3, <1>4, <1>5, <1>6, <1>7, <1>8, <1>9, <1>10 DEF Events

(* What people do keeps the types.                                          *)
LEMMA PeopleType ==
  ASSUME TypeOK, People
  PROVE  TypeOK'
<1>1. now \in Nat /\ job \in Record
  BY Numbers DEF TypeOK
<1>2. Excuse(now) => owed' \subseteq Slots /\ excused' \subseteq Slots /\ made' = made
  BY DEF Excuse, TypeOK
<1>3. CASE RunByHand
  BY <1>1, <1>2, <1>3 DEF RunByHand, TypeOK, timer
<1>4. CASE Pause \/ Unpause
  <2>1. \E v \in Statuses : job' = [job EXCEPT !.status = v]
    BY <1>4 DEF Pause, Unpause, Statuses
  <2>2. job' \in Record
    BY <1>1, <2>1, Restatused
  <2>. QED
    BY <1>4, <2>2 DEF Pause, Unpause, TypeOK, timer, driver, ghost
<1>5. CASE SwitchOn
  <2>. DEFINE r == Stamped(job)
  <2>1. r \in Record
    BY <1>1, Rechecked DEF Stamped
  <2>2. job' = [r EXCEPT !.enabled = TRUE]
    BY <1>5 DEF SwitchOn
  <2>. HIDE DEF r
  <2>3. job' \in Record
    BY <2>1, <2>2, Reenabled
  <2>. QED
    BY <1>1, <1>2, <1>5, <2>3 DEF SwitchOn, TypeOK, timer, driver
<1>6. CASE SwitchOff
  <2>1. job' \in Record
    BY <1>1, <1>6, Reenabled DEF SwitchOff
  <2>. QED
    BY <1>2, <1>6, <2>1 DEF SwitchOff, TypeOK, timer, driver
<1>7. CASE EditTrigger
  <2>1. job' \in Record
    BY <1>1, <1>7, Rechecked DEF EditTrigger, Stamped
  <2>. QED
    BY <1>1, <1>2, <1>7, <2>1 DEF EditTrigger, TypeOK, timer, driver
<1>8. CASE EditOther
  BY <1>8 DEF EditOther, TypeOK, timer, driver, ghost
<1>. QED
  BY <1>3, <1>4, <1>5, <1>6, <1>7, <1>8 DEF People

(* The clock and the process keep the types.                                *)
LEMMA WorldType ==
  ASSUME TypeOK, World
  PROVE  TypeOK'
<1>. USE SchedulerAssumption
<1>1. /\ now \in Nat /\ MaxTime \in Nat /\ job \in Record
      /\ NextSlot(now) \in Nat \cup {None}
  BY Numbers, NextSlotIs DEF TypeOK
<1>2. CASE Advance \/ Sleep
  <2>1. PICK to \in now + 1..MaxTime : TimePasses(to)
    <3>1. CASE Advance
      BY <1>1, <3>1 DEF Advance
    <3>2. CASE Sleep
      BY <3>2 DEF Sleep
    <3>. QED
      BY <1>2, <3>1, <3>2
  <2>2. now' \in 0..MaxTime
    BY <1>1, <2>1 DEF TimePasses
  <2>3. owed' \subseteq Slots
    BY <2>1 DEF TimePasses, TypeOK
  <2>. QED
    BY <1>2, <2>2, <2>3 DEF Advance, Sleep, TypeOK, timer, driver
<1>3. CASE PassEnds
  <2>1. job' = job \/ \E v \in Statuses : job' = [job EXCEPT !.status = v]
    BY <1>3 DEF PassEnds, Statuses
  <2>2. job' \in Record
    BY <1>1, <2>1, Restatused
  <2>. QED
    BY <1>3, <2>2 DEF PassEnds, TypeOK, timer, ghost
<1>4. CASE Crash
  <2>1. chain' \in Seq(Handler)
    BY <1>4, EmptySeq DEF Crash
  <2>. QED
    BY <1>4, <2>1 DEF Crash, TypeOK
<1>5. CASE Start
  <2>1. job' = job \/ \E v \in Statuses : job' = [job EXCEPT !.status = v]
    BY <1>5 DEF Start, Statuses
  <2>2. job' \in Record
    BY <1>1, <2>1, Restatused
  <2>3. {armedAt', next'} \subseteq Nat \cup {None}
    BY <1>1, <1>5 DEF Start, TypeOK, timer
  <2>. QED
    BY <1>5, <2>2, <2>3 DEF Start, TypeOK, driver, ghost
<1>. QED
  BY <1>2, <1>3, <1>4, <1>5 DEF World

(* Every step keeps the types, with edits of any kind.                      *)
LEMMA TypeStep ==
  ASSUME TypeOK, [Next]_vars
  PROVE  TypeOK'
<1>1. CASE UNCHANGED vars
  BY <1>1 DEF vars, TypeOK, timer, driver, ghost
<1>. QED
  BY <1>1, TurnsType, EventsType, PeopleType, WorldType DEF Next, Turns

-----------------------------------------------------------------------------
(* The invariant.                                                           *)

(* Every step keeps the invariant.                                          *)
LEMMA TimesStep ==
  ASSUME Inv, [Next]_vars
  PROVE  TimesInv'
<1>1. TypeOK'
  BY TypeStep DEF Inv
<1>2. CASE UNCHANGED vars
  <2>1. UNCHANGED <<now, up, job, disk, checkpoint, armedAt, next, chain, stamps,
                    edit, asks, firing, resumed, owed, excused>>
    BY <1>2 DEF vars, timer, driver, ghost
  <2>2. NothingAhead' /\ TimerIsArmed'
    BY <2>1 DEF Inv, TimesInv, NothingAhead, TimerIsArmed, By
  <2>3. HandlersInOrder' /\ SessionLeads'
    BY <2>1, SameOrder, SameSession
  <2>4. NoneForgotten'
    BY <2>1, <2>2, ForgottenKept DEF Checked, Reaches
  <2>. QED
    BY <2>2, <2>3, <2>4 DEF TimesInv
<1>3. CASE Turns
  BY <1>3, TickDroppedTimes, TickNotedTimes, CheckSettlesTimes DEF Turns
<1>4. CASE Events
  BY <1>1, <1>4, TimerFiresTimes, ResumeTimes, StartCheckTimes, TickActsTimes,
     SkipWrittenTimes, CheckStampsTimes, LandTimes, DriverStartsTimes,
     DriverHoldsTimes, DriverLaunchedTimes, EditArmsTimes DEF Events
<1>5. CASE People
  BY <1>1, <1>5, RunByHandTimes, StatusTimes, EditOtherTimes, StampedTimes,
     SwitchOffTimes DEF People
<1>6. CASE World
  BY <1>1, <1>6, AdvanceTimes, SleepTimes, StatusTimes, CrashTimes, StartTimes
     DEF World
<1>. QED
  BY <1>2, <1>3, <1>4, <1>5, <1>6 DEF Next

-----------------------------------------------------------------------------
(* One verdict for the late fire and the wake check.                        *)

(* With the invariant, both functions look for the same last time: it is    *)
(* settled for both, or missed for both and by the same amount.             *)
LEMMA SameVerdict ==
  ASSUME Inv
  PROVE  VerdictIsOrderFree
<1>. USE DEF Inv, TimesInv
<1>. SUFFICES ASSUME Due, job.enabled, excused = {}
              PROVE  Classify(job, checkpoint, armedAt, now)
                       = CheckVerdict(job, checkpoint, "wake", now)
  BY DEF VerdictIsOrderFree
<1>. DEFINE slot   == LatestSlot(now)
            points == {checkpoint, job.checked, armedAt} \ {None}
            base   == Baseline(job, checkpoint, now)
            missed == SlotsBetween(base, now)
<1>1. /\ now \in Nat /\ None \notin Nat /\ Slots \subseteq Nat \ {0}
      /\ next \in Slots /\ next <= now /\ up # "down"
      /\ armedAt # None => next > armedAt
  BY Numbers, SchedulerAssumption DEF Due, TimerIsArmed
<1>2. /\ slot \in Slots /\ slot # None /\ slot <= now
      /\ \A s \in Slots : s <= now => s <= slot
  BY <1>1, LatestSlotIs
<1>3. /\ base \in {checkpoint, job.checked, job.lastRun, 0} \ {None}
      /\ base \in Nat /\ base <= now
      /\ \A t \in {checkpoint, job.checked, job.lastRun, 0} \ {None} :
           t <= now => t <= base
  BY <1>1, Numbers, BaselineIs
<1>4. points \subseteq Nat /\ \A t \in points : t <= now
  BY Numbers DEF NothingAhead, By
<1>5. points # {} => Max(points) \in points /\ \A t \in points : t <= Max(points)
  BY <1>1, <1>4, MaxIsGreatest
<1>6. \A s : s \in missed <=> s \in Slots /\ base < s /\ s <= now
  BY DEF SlotsBetween
<1>7. \A t \in {checkpoint, job.checked, armedAt} : t # None => t \in points
  OBVIOUS
<1>8. \A t \in points : t \in {checkpoint, job.checked, armedAt} /\ t # None
  OBVIOUS
<1>9. /\ Classify(job, checkpoint, armedAt, now) =
           IF points # {} /\ slot <= Max(points) THEN "settled"
           ELSE IF now <= slot + Late THEN "fire"
           ELSE Decide(job, SlotsBetween(Min({base, slot - 1}), now), now)
      /\ CheckVerdict(job, checkpoint, "wake", now) =
           IF missed = {} THEN "settled"
           ELSE IF now <= Max(missed) + Late THEN "fire"
           ELSE Decide(job, missed, now)
  <2>1. points # {} => ~ (Max(points) > now)
    BY <1>1, <1>4, <1>5
  <2>2. Classify(job, checkpoint, armedAt, now) =
          LET done == IF points = {} THEN FALSE
                      ELSE IF Max(points) > now THEN slot + Late <= now
                      ELSE slot <= Max(points)
          IN IF slot = None THEN "fire"
             ELSE IF done THEN "settled"
             ELSE IF now <= slot + Late THEN "fire"
             ELSE Decide(job, SlotsBetween(Min({base, slot - 1}), now), now)
    BY DEF Classify
  <2>3. CheckVerdict(job, checkpoint, "wake", now) =
           IF missed = {} THEN "settled"
           ELSE IF now <= Max(missed) + Late THEN "fire"
           ELSE Decide(job, missed, now)
    BY DEF CheckVerdict
  <2>. HIDE DEF slot, points, base, missed
  <2>. QED
    BY <1>2, <2>1, <2>2, <2>3
<1>. HIDE DEF slot, points, base, missed
<1>10. CASE points # {} /\ slot <= Max(points)
  <2>1. Max(points) \in Nat /\ Max(points) <= now /\ slot \in Nat
    BY <1>1, <1>2, <1>4, <1>5, <1>10
  <2>2. Max(points) # armedAt
    <3>1. next <= slot
      BY <1>1, <1>2
    <3>. QED
      BY <1>1, <1>8, <1>5, <1>10, <2>1, <3>1
  <2>3. Max(points) \in {checkpoint, job.checked} /\ Max(points) # None
    BY <1>5, <1>8, <1>10, <2>2
  <2>4. slot <= base
    <3>1. Max(points) \in {checkpoint, job.checked, job.lastRun, 0} \ {None}
      BY <2>3
    <3>2. Max(points) <= base
      BY <1>3, <2>1, <3>1
    <3>. QED
      BY <1>3, <1>10, <2>1, <3>2
  <2>5. missed = {}
    <3>1. ASSUME NEW s \in missed PROVE FALSE
      <4>1. s \in Nat /\ base < s /\ s <= slot
        BY <1>1, <1>2, <1>6, <3>1
      <4>. QED
        BY <1>3, <2>1, <2>4, <4>1
    <3>. QED
      BY <3>1
  <2>. QED
    BY <1>9, <1>10, <2>5
<1>11. CASE ~ (points # {} /\ slot <= Max(points))
  <2>1. slot \in Nat \ {0}
    BY <1>1, <1>2
  <2>2. ASSUME NEW t \in points PROVE t < slot
    <3>1. Max(points) \in Nat /\ t \in Nat /\ t <= Max(points) /\ ~ (slot <= Max(points))
      BY <1>4, <1>5, <1>11
    <3>. QED
      BY <2>1, <3>1
  <2>3. ~ Checked(slot) /\ ~ Reaches(armedAt, slot)
    <3>1. \A t \in {checkpoint, job.checked, armedAt} : ~ (t # None /\ slot <= t)
      <4>1. \A t \in points : ~ (slot <= t)
        BY <1>4, <2>1, <2>2
      <4>. QED
        BY <1>7, <4>1
    <3>. QED
      BY <3>1 DEF Checked, Reaches
  <2>4. ~ Reaches(job.lastRun, slot)
    BY <1>1, <1>2, <2>3 DEF NoneForgotten
  <2>5. base < slot
    <3>1. CASE base = job.lastRun
      BY <1>3, <2>1, <2>4, <3>1 DEF Reaches
    <3>2. CASE base # job.lastRun
      <4>1. base = 0 \/ base \in points
        BY <1>3, <1>7, <3>2
      <4>. QED
        BY <2>1, <2>2, <4>1
    <3>. QED
      BY <3>1, <3>2
  <2>6. slot \in missed
    BY <1>2, <1>6, <2>5
  <2>7. Max(missed) = slot
    <3>1. missed \subseteq Nat /\ \A s \in missed : s <= slot
      BY <1>1, <1>2, <1>6
    <3>2. Max(missed) \in missed /\ \A s \in missed : s <= Max(missed)
      BY <2>1, <2>6, <3>1, MaxIsGreatest
    <3>3. Max(missed) \in Nat /\ slot <= Max(missed) /\ Max(missed) <= slot
      BY <2>6, <3>1, <3>2
    <3>. QED
      BY <2>1, <3>3
  <2>8. Min({base, slot - 1}) = base
    <3>. DEFINE pair == {base, slot - 1}
    <3>1. pair \subseteq Nat /\ base <= slot - 1
      BY <1>3, <2>1, <2>5
    <3>2. Min(pair) \in pair /\ \A y \in pair : Min(pair) <= y
      BY <3>1, MinIsLeast
    <3>. QED
      BY <1>3, <2>1, <3>1, <3>2
  <2>9. SlotsBetween(Min({base, slot - 1}), now) = missed
    BY <2>8 DEF missed
  <2>10. missed # {}
    BY <2>6
  <2>. QED
    BY <1>9, <1>11, <2>7, <2>9, <2>10
<1>. QED
  BY <1>10, <1>11

-----------------------------------------------------------------------------
(* Every step is a step of OwedTimes.                                       *)

(* What the file knows does not shrink as long as it is not ahead.          *)
LEMMA KnownGrows ==
  ASSUME Inv, Inv', disk' = disk \/ (disk' = job /\ ~FileIsAhead), now' >= now,
         NEW s \in Slots, Known(s)
  PROVE  Known(s)'
<1>. USE DEF Inv, TimesInv
<1>. DEFINE b == Baseline(disk, None, now)
            c == Baseline(disk', None, now')
<1>1. /\ b \in {disk.checked, disk.lastRun, 0} \ {None} /\ b \in Nat
  BY Numbers, BaselineIs
<1>2. now' \in Nat /\ None \notin Nat /\ disk' \in Record
  BY SchedulerAssumption DEF TypeOK
<1>3. disk'.checked \in Nat \cup {None} /\ disk'.lastRun \in Nat \cup {None}
  BY <1>2, RecordFields
<1>4. /\ c \in Nat
      /\ \A t \in {disk'.checked, disk'.lastRun, 0} \ {None} : t <= now' => t <= c
  BY <1>2, <1>3, BaselineIs
<1>5. /\ disk'.checked # None => disk'.checked <= now'
      /\ disk'.lastRun # None => disk'.lastRun <= now'
  BY DEF NothingAhead, By
<1>6. /\ disk.checked # None => disk'.checked # None /\ disk.checked <= disk'.checked
      /\ disk.lastRun # None => disk'.lastRun # None /\ disk.lastRun <= disk'.lastRun
  BY Numbers DEF FileIsAhead, NothingAhead
<1>7. s <= b /\ s \in Nat
  BY Numbers DEF Known
<1>. SUFFICES s <= c
  BY DEF Known
<1>. HIDE DEF b, c
<1>8. b <= c
  BY <1>1, <1>3, <1>4, <1>5, <1>6, Numbers
<1>. QED
  BY <1>1, <1>4, <1>7, <1>8

(* As time goes on the file learns nothing.                                 *)
LEMMA KnownStays ==
  ASSUME Inv, TypeOK', disk' = disk, now' >= now, NEW s \in Slots, Known(s)'
  PROVE  Known(s)
<1>. USE DEF Inv, TimesInv
<1>. DEFINE b == Baseline(disk, None, now)
            c == Baseline(disk, None, now')
<1>1. now' \in Nat
  BY DEF TypeOK
<1>2. c \in {disk.checked, disk.lastRun, 0} \ {None} /\ c \in Nat
  BY <1>1, Numbers, BaselineIs
<1>3. /\ b \in Nat
      /\ \A t \in {disk.checked, disk.lastRun, 0} \ {None} : t <= now => t <= b
  BY Numbers, BaselineIs
<1>4. /\ disk.checked # None => disk.checked <= now
      /\ disk.lastRun # None => disk.lastRun <= now
  BY Numbers DEF NothingAhead, By
<1>5. s <= c /\ s \in Nat
  BY Numbers DEF Known
<1>. SUFFICES s <= b
  BY DEF Known
<1>. HIDE DEF b, c
<1>6. c <= b
  BY <1>2, <1>3, <1>4, Numbers
<1>. QED
  BY <1>2, <1>3, <1>5, <1>6

(* What the file knows came before now.                                     *)
LEMMA KnownCame ==
  ASSUME TypeOK, NEW s \in Slots, Known(s)
  PROVE  s <= now
<1>. DEFINE b == Baseline(disk, None, now)
<1>1. b \in Nat /\ b <= now
  BY Numbers, BaselineIs
<1>2. s <= b /\ s \in Nat
  BY Numbers DEF Known
<1>. HIDE DEF b
<1>. QED
  BY <1>1, <1>2, Numbers

(* What is known depends on the file and the clock only.                    *)
LEMMA KnownSame ==
  ASSUME UNCHANGED <<disk, now>>
  PROVE  {s \in Slots : Known(s)}' = {s \in Slots : Known(s)}
BY DEF Known, Baseline

(* Handlers that an edit has not overtaken stay so, as long as checkpoints   *)
(* do not move past the moments of those that wait.                         *)
LEMMA NotPassed ==
  ASSUME TypeOK, NEW at \in Nat,
         checkpoint' = checkpoint \/ checkpoint' = MaxOf(checkpoint, at),
         job'.checked = job.checked \/ job'.checked = at,
         armedAt' = armedAt,
         \A i \in DOMAIN chain' :
           chain'[i].step = "todo" =>
             \E j \in DOMAIN chain : chain'[i] = chain[j] /\ at <= chain[j].at
  PROVE  Overtaking' => Overtaking
<1>. SUFFICES ASSUME NEW i \in DOMAIN chain',
                     chain'[i].step = "todo",
                     \/ Later(checkpoint', chain'[i].at)
                     \/ Later(job'.checked, chain'[i].at)
                     \/ chain'[i].what = "tick" /\ Later(armedAt', chain'[i].at)
              PROVE  Overtaking
  BY DEF Overtaking, Overtaken, Later
<1>1. PICK j \in DOMAIN chain : chain'[i] = chain[j] /\ at <= chain[j].at
  OBVIOUS
<1>2. chain[j].at \in Nat
  BY Handlers
<1>3. Later(checkpoint', chain[j].at) => Later(checkpoint, chain[j].at)
  BY <1>1, <1>2, Numbers DEF Later, MaxOf
<1>4. Later(job'.checked, chain[j].at) => Later(job.checked, chain[j].at)
  BY <1>1, <1>2, Numbers DEF Later
<1>5. Overtaken(chain[j])
  BY <1>1, <1>3, <1>4 DEF Overtaken
<1>. QED
  BY <1>5 DEF Overtaking

(* Nor does a step overtake one that leaves the handlers, or all but the    *)
(* first of them, and what they are measured by alone.                      *)
LEMMA SamePassed ==
  ASSUME TypeOK, UNCHANGED <<checkpoint, armedAt>>, job'.checked = job.checked,
         \/ chain' = chain
         \/ chain # <<>> /\ chain' = Tail(chain)
         \/ /\ chain # <<>>
            /\ \E g \in Handler : g.step # "todo" /\ chain' = [chain EXCEPT ![1] = g]
  PROVE  Overtaking' => Overtaking
<1>1. chain \in Seq(Handler)
  BY DEF TypeOK
<1>2. ASSUME NEW i \in DOMAIN chain', chain'[i].step = "todo"
      PROVE  \E j \in DOMAIN chain : chain'[i] = chain[j] /\ 0 <= chain[j].at
  <2>1. \E j \in DOMAIN chain : chain'[i] = chain[j]
    <3>1. CASE chain' = chain
      BY <1>2, <3>1
    <3>2. CASE chain # <<>> /\ chain' = Tail(chain)
      BY <1>1, <1>2, <3>2, TailOfSeq
    <3>3. CASE /\ chain # <<>>
               /\ \E g \in Handler : g.step # "todo" /\ chain' = [chain EXCEPT ![1] = g]
      BY <1>1, <1>2, <3>3, FirstReplaced
    <3>. QED
      BY <3>1, <3>2, <3>3
  <2>2. \A j \in DOMAIN chain : 0 <= chain[j].at
    BY Handlers
  <2>. QED
    BY <2>1, <2>2
<1>. QED
  BY <1>2, NotPassed

(* A handler that is put on the chain now is not overtaken yet.             *)
LEMMA PutPasses ==
  ASSUME Inv, NEW w \in {"tick", "start", "wake"}, Put(w),
         UNCHANGED <<job, checkpoint, armedAt>>
  PROVE  Overtaking' => Overtaking
<1>. DEFINE h == [what |-> w, at |-> now, step |-> "todo", verdict |-> None]
<1>1. chain \in Seq(Handler) /\ now \in Nat
  BY Numbers DEF Inv, TypeOK
<1>2. h \in Handler /\ h.at = now
  BY <1>1, NewHandler
<1>3. chain' = Append(chain, h)
  BY DEF Put
<1>4. /\ DOMAIN chain' = DOMAIN chain \cup {Len(chain) + 1}
      /\ \A i \in DOMAIN chain : chain'[i] = chain[i]
      /\ chain'[Len(chain) + 1] = h
  <2>. HIDE DEF h
  <2>. QED
    BY <1>1, <1>2, <1>3, AppendToSeq
<1>5. \A t \in {checkpoint, job.checked, armedAt} : ~Later(t, h.at)
  BY <1>1, <1>2, Numbers DEF Inv, TimesInv, NothingAhead, By, Later
<1>. HIDE DEF h
<1>. QED
  BY <1>4, <1>5 DEF Overtaking, Overtaken, Later

(* A handler that goes on moves checkpoints up to its moment, which is past *)
(* for those behind it.                                                     *)
LEMMA DecisionPasses ==
  ASSUME Inv, chain # <<>>,
         checkpoint' = checkpoint \/ checkpoint' = MaxOf(checkpoint, chain[1].at),
         job'.checked = job.checked \/ job'.checked = chain[1].at,
         armedAt' = armedAt,
         \/ chain' = Tail(chain)
         \/ \E g \in Handler : g.step # "todo" /\ chain' = [chain EXCEPT ![1] = g]
  PROVE  Overtaking' => Overtaking
<1>. USE DEF Inv, TimesInv
<1>1. chain \in Seq(Handler) /\ chain[1].at \in Nat /\ 1 \in DOMAIN chain
  BY Handlers DEF TypeOK
<1>2. ASSUME NEW i \in DOMAIN chain', chain'[i].step = "todo"
      PROVE  \E j \in DOMAIN chain : chain'[i] = chain[j] /\ chain[1].at <= chain[j].at
  <2>1. \E j \in DOMAIN chain : chain'[i] = chain[j]
    <3>1. CASE chain' = Tail(chain)
      BY <1>1, <1>2, <3>1, TailOfSeq
    <3>2. CASE \E g \in Handler : g.step # "todo" /\ chain' = [chain EXCEPT ![1] = g]
      BY <1>1, <1>2, <3>2, FirstReplaced
    <3>. QED
      BY <3>1, <3>2
  <2>2. \A j \in DOMAIN chain : 1 <= j
    BY Handlers
  <2>3. \A j \in DOMAIN chain : chain[1].at <= chain[j].at
    BY <1>1, <2>2 DEF HandlersInOrder
  <2>. QED
    BY <2>1, <2>3
<1>. QED
  BY <1>1, <1>2, NotPassed

(* A decision settles something that is owed or excused, or an edit has     *)
(* overtaken it.                                                            *)
LEMMA SettleRefines ==
  ASSUME Inv, chain # <<>>, Settle(chain[1].at), UNCHANGED <<disk, now>>,
         Overtaking \/ \E s \in owed \cup excused : s \in Slots /\ s <= chain[1].at,
         Overtaking' => Overtaking, FileIsAhead' => FileIsAhead \/ Overtaking
  PROVE  Promise!Settle
<1>. USE DEF Inv
<1>. DEFINE at   == chain[1].at
            open == {s \in owed \cup excused : s <= at}
            last == IF open = {} THEN 0 ELSE Max(open)
<1>1. at \in Nat /\ owed \subseteq Nat \ {0} /\ excused \subseteq Nat \ {0}
  BY Handlers, SchedulerAssumption DEF TypeOK
<1>2. /\ open # {} => last \in open /\ \A s \in open : s <= last
      /\ open = {} => last = 0
  <2>1. open \subseteq Nat /\ \A s \in open : s <= at
    BY <1>1
  <2>. HIDE DEF open
  <2>. QED
    BY <1>1, <2>1, MaxIsGreatest
<1>3. /\ last \in Nat /\ last <= at
      /\ last \in owed \cup excused \cup (IF Overtaking THEN {0} ELSE {})
  <2>1. CASE open # {}
    <3>1. last \in open
      BY <1>2, <2>1
    <3>. HIDE DEF last
    <3>. QED
      BY <1>1, <3>1
  <2>2. CASE open = {}
    <3>1. Overtaking /\ last = 0
      BY <1>1, <1>2, <2>2, SchedulerAssumption DEF TypeOK
    <3>. HIDE DEF last, open
    <3>. QED
      BY <1>1, <3>1
  <2>. QED
    BY <2>1, <2>2
<1>4. ASSUME NEW s \in owed \cup excused PROVE s > at <=> s > last
  <2>1. s \in Nat \ {0}
    BY <1>1
  <2>2. s <= at => s <= last
    BY <1>2
  <2>. HIDE DEF open, last, at
  <2>. QED
    BY <1>1, <1>3, <2>1, <2>2
<1>. HIDE DEF open, last
<1>5. /\ owed' = {s \in owed : s > last} /\ excused' = {s \in excused : s > last}
      /\ made' = made + 1
  BY <1>4 DEF Settle
<1>6. {s \in Slots : Known(s)}' = {s \in Slots : Known(s)}
  BY KnownSame
<1>7. Overtaking' \in BOOLEAN /\ FileIsAhead' \in BOOLEAN
  BY DEF Overtaking, FileIsAhead
<1>. QED
  BY <1>3, <1>5, <1>6, <1>7 DEF Promise!Settle, Promise!NoneOvertaken

(* A step that only excuses times.                                          *)
LEMMA Excused ==
  ASSUME TypeOK, NEW at \in Nat, Excuse(at), UNCHANGED <<disk, now>>,
         FileIsAhead' => FileIsAhead
  PROVE  Promise!Excuses
<1>1. owed' \subseteq owed /\ made' = made
  BY DEF Excuse
<1>2. excused' = excused \cup (owed \ owed')
  <2>1. \A s \in owed : s \in Nat /\ (s <= at <=> ~ (s > at))
    BY Numbers
  <2>. QED
    BY <2>1 DEF Excuse
<1>3. {s \in Slots : Known(s)}' = {s \in Slots : Known(s)}
  BY KnownSame
<1>4. FileIsAhead' \in BOOLEAN
  BY DEF FileIsAhead
<1>. QED
  BY <1>1, <1>2, <1>3, <1>4 DEF Promise!Excuses, Promise!NotAhead

(* A run by hand and the start of a pass overtake nothing.                  *)
LEMMA ExcuseRefines ==
  ASSUME Promise!Excuses, Overtaking' => Overtaking
  PROVE  Promise!Excuse
<1>1. Overtaking' \in BOOLEAN
  BY DEF Overtaking
<1>. QED
  BY <1>1 DEF Promise!Excuse, Promise!NoneOvertaken

(* An edit may.                                                             *)
LEMMA EditRefines ==
  ASSUME Promise!Excuses
  PROVE  Promise!Edit
<1>1. Overtaking' \in BOOLEAN
  BY DEF Overtaking
<1>. QED
  BY <1>1 DEF Promise!Edit

(* A step that decides and excuses nothing.                                 *)
LEMMA QuietExcuses ==
  ASSUME UNCHANGED <<disk, now, owed, excused, made>>, FileIsAhead' => FileIsAhead
  PROVE  Promise!Excuses
<1>1. {s \in Slots : Known(s)}' = {s \in Slots : Known(s)}
  BY KnownSame
<1>2. FileIsAhead' \in BOOLEAN
  BY DEF FileIsAhead
<1>. QED
  BY <1>1, <1>2 DEF Promise!Excuses, Promise!NotAhead

(* Passing time only adds times that are later than all others.             *)
LEMMA ComeRefines ==
  ASSUME Inv, TypeOK', NEW to \in Nat, to >= now, TimePasses(to),
         UNCHANGED <<disk, job, chain, checkpoint, armedAt, excused, made>>, Inv'
  PROVE  Promise!Come
<1>. USE DEF Inv, TimesInv
<1>1. now' = to /\ now \in Nat /\ Slots \subseteq Nat
  BY Numbers DEF TimePasses
<1>2. /\ owed \subseteq owed' /\ owed' \subseteq Slots
      /\ \A s \in owed' \ owed : now < s
  BY DEF TimePasses, TypeOK
<1>3. {s \in Slots : Known(s)}' = {s \in Slots : Known(s)}
  <2>1. \A s \in Slots : Known(s) => Known(s)'
    <3>1. disk' = disk /\ now' >= now
      BY <1>1
    <3>. QED
      BY <3>1, KnownGrows
  <2>2. \A s \in Slots : Known(s)' => Known(s)
    BY <1>1, KnownStays
  <2>. QED
    BY <2>1, <2>2
<1>4. \A u \in owed \cup excused \cup {s \in Slots : Known(s)} : u \in Nat /\ u <= now
  <2>1. \A u \in owed \cup excused : u \in Nat /\ u <= now
    BY Numbers DEF NothingAhead
  <2>2. \A u \in {s \in Slots : Known(s)} : u \in Nat /\ u <= now
    BY <1>1, KnownCame
  <2>. QED
    BY <2>1, <2>2
<1>5. ASSUME NEW t \in owed' \ owed,
             NEW u \in owed \cup excused \cup {s \in Slots : Known(s)}
      PROVE  t > u
  <2>1. t \in Nat /\ now < t
    BY <1>1, <1>2
  <2>2. u \in Nat /\ u <= now
    BY <1>4
  <2>. QED
    BY <1>1, <2>1, <2>2
<1>6. owed' \subseteq Nat
  BY <1>1, <1>2
<1>7. Overtaking' = Overtaking /\ FileIsAhead' = FileIsAhead
  BY DEF Overtaking, Overtaken, FileIsAhead, Later
<1>. QED
  BY <1>2, <1>3, <1>5, <1>6, <1>7 DEF Promise!Come

(* The initial state is one of the promise.                                 *)
LEMMA InitRefines ==
  ASSUME Init
  PROVE  Promise!Init
<1>1. TypeOK
  BY InitType
<1>2. \A s \in Slots : ~ Known(s)
  <2>1. now = 0 /\ \A s \in Slots : s \in Nat \ {0}
    BY SchedulerAssumption DEF Init
  <2>. QED
    BY <1>1, <2>1, KnownCame
<1>3. ~Overtaking
  BY DEF Init, Overtaking
<1>4. ~FileIsAhead
  BY DEF Init, FileIsAhead, Fresh
<1>. QED
  BY <1>2, <1>3, <1>4 DEF Init, Promise!Init

(* Turns of handlers that decide nothing, and what is put on the chain.     *)
LEMMA QuietRefines ==
  ASSUME Inv, \/ TickDropped \/ TimerFires \/ Resume \/ StartCheck \/ TickActs
              \/ SkipWritten \/ CheckStamps \/ DriverStarts \/ DriverHolds
  PROVE  Promise!Excuse
<1>. USE DEF Inv
<1>1. UNCHANGED <<disk, now, owed, excused, made>>
  BY DEF TickDropped, TimerFires, Resume, StartCheck, TickActs, SkipWritten,
     CheckStamps, DriverStarts, DriverHolds, ghost
<1>2. CASE TickDropped \/ SkipWritten \/ DriverStarts \/ DriverHolds
  <2>1. /\ UNCHANGED <<job, checkpoint, armedAt>>
        /\ chain' = chain \/ (chain # <<>> /\ chain' = Tail(chain))
    BY <1>2 DEF TickDropped, SkipWritten, DriverStarts, DriverHolds, Working,
       Done, timer
  <2>2. Overtaking' => Overtaking
    BY <2>1, SamePassed
  <2>3. FileIsAhead' => FileIsAhead
    BY <1>1, <2>1 DEF FileIsAhead
  <2>. QED
    BY <1>1, <2>2, <2>3, QuietExcuses, ExcuseRefines
<1>3. CASE TimerFires \/ Resume \/ StartCheck
  <2>1. /\ UNCHANGED <<job, checkpoint, armedAt>>
        /\ \/ chain' = chain
           \/ \E w \in {"tick", "start", "wake"} : Put(w)
    BY <1>3 DEF TimerFires, Resume, StartCheck, timer
  <2>2. Overtaking' => Overtaking
    BY <2>1, SamePassed, PutPasses
  <2>3. FileIsAhead' => FileIsAhead
    BY <1>1, <2>1 DEF FileIsAhead
  <2>. QED
    BY <1>1, <2>2, <2>3, QuietExcuses, ExcuseRefines
<1>4. CASE TickActs
  <2>. DEFINE v == chain[1].verdict
              m == LatestSlot(chain[1].at)
  <2>1. /\ chain # <<>> /\ chain[1].step = "noted" /\ Act(v, job, m)
        /\ UNCHANGED <<checkpoint, armedAt>>
    BY <1>4, Handlers DEF TickActs, Working, timer
  <2>2. m \in Slots \cup {None} /\ (v \in Verdicts \/ v \notin Verdicts)
    BY <2>1, Handlers, LatestSlotType
  <2>3. /\ job'.checked = job.checked
        /\ \/ chain' = Tail(chain)
           \/ \E g \in Handler : g.step # "todo" /\ chain' = [chain EXCEPT ![1] = g]
    <3>1. CASE v \in Verdicts
      <4>. HIDE DEF v, m
      <4>1. \/ chain' = Tail(chain)
            \/ \E g \in Handler : /\ g.at = chain[1].at /\ g.what = chain[1].what
                                  /\ g.step = "acting"
                                  /\ chain' = [chain EXCEPT ![1] = g]
        BY <2>1, <2>2, <3>1, Acts
      <4>2. job'.checked = job.checked
        BY <2>1, <2>2, <3>1, Acts
      <4>. QED
        BY <4>1, <4>2
    <3>2. CASE v \notin Verdicts
      BY <2>1, <3>2 DEF Act, Done, Verdicts
    <3>. QED
      BY <3>1, <3>2
  <2>4. Overtaking' => Overtaking
    BY <2>1, <2>3, SamePassed
  <2>5. FileIsAhead' => FileIsAhead
    BY <1>1, <2>3 DEF FileIsAhead
  <2>. QED
    BY <1>1, <2>4, <2>5, QuietExcuses, ExcuseRefines
<1>5. CASE CheckStamps
  <2>1. PICK at \in stamps :
          job' = IF job.checked # None /\ job.checked >= at THEN job
                 ELSE [job EXCEPT !.checked = at]
    BY <1>5 DEF CheckStamps
  <2>2. UNCHANGED <<chain, checkpoint, armedAt>>
    BY <1>5 DEF CheckStamps, timer
  <2>3. at \in Nat /\ job \in Record
    BY Numbers DEF TypeOK
  <2>4. \/ job'.checked = job.checked
        \/ job'.checked = at /\ (job.checked = None \/ job.checked < at)
    BY <2>1, <2>3, Rechecked, Numbers
  <2>5. Overtaking' => Overtaking
    <3>1. \A i \in DOMAIN chain : at <= chain[i].at
      BY DEF TimesInv, HandlersInOrder
    <3>. QED
      BY <2>2, <2>3, <2>4, <3>1, NotPassed
  <2>6. FileIsAhead' => FileIsAhead
    BY <1>1, <2>3, <2>4, Numbers DEF FileIsAhead
  <2>. QED
    BY <1>1, <2>5, <2>6, QuietExcuses, ExcuseRefines
<1>. QED
  BY <1>2, <1>3, <1>4, <1>5

(* A fire that is not dropped settles what is owed.                         *)
LEMMA TickRefines ==
  ASSUME Inv, TickNoted
  PROVE  Promise!Settle
<1>. USE DEF Inv
<1>. DEFINE at == chain[1].at
            v  == Classify(job, checkpoint, armedAt, at)
<1>1. /\ chain # <<>> /\ chain[1].what = "tick" /\ chain[1].step = "todo"
      /\ job.enabled /\ UNCHANGED <<disk, now, armedAt>>
      /\ v # "settled" /\ Settle(at) /\ Move("noted", v)
      /\ checkpoint' = MaxOf(checkpoint, at)
      /\ job' = IF Recent(at) THEN job ELSE [job EXCEPT !.checked = at]
  BY Handlers DEF TickNoted, Working, TickVerdict, timer
<1>2. at \in Nat /\ job \in Record /\ 1 \in DOMAIN chain
  BY <1>1, Handlers DEF TypeOK
<1>3. v \in Verdicts
  BY DEF Classify, Decide, Verdicts
<1>. HIDE DEF v
<1>4. \E g \in Handler : g.step # "todo" /\ chain' = [chain EXCEPT ![1] = g]
  <2>1. \E g \in Handler : /\ g.at = chain[1].at /\ g.what = chain[1].what
                           /\ g.step = "noted" /\ chain' = [chain EXCEPT ![1] = g]
    BY <1>1, <1>3, FirstMoves
  <2>. QED
    BY <2>1
<1>5. job'.checked = job.checked \/ job'.checked = at
  BY <1>1, <1>2, Rechecked
<1>6. Overtaking' => Overtaking
  BY <1>1, <1>4, <1>5, DecisionPasses
<1>7. Overtaken(chain[1]) => Overtaking
  BY <1>2 DEF Overtaking
<1>8. FileIsAhead' => FileIsAhead \/ Overtaking
  <2>1. CASE job.checked = None \/ job.checked <= at
    BY <1>1, <1>2, <1>5, <2>1, Numbers DEF FileIsAhead
  <2>2. CASE job.checked # None /\ job.checked > at
    BY <1>1, <1>7, <2>2 DEF Overtaken, Later
  <2>. QED
    BY <1>2, <2>1, <2>2, Numbers
<1>9. Overtaking \/ \E s \in owed \cup excused : s \in Slots /\ s <= at
  BY <1>1, <1>7, TickOwes DEF v
<1>. QED
  BY <1>1, <1>6, <1>8, <1>9, SettleRefines

(* A check that finds missed times settles what is owed, too.               *)
LEMMA CheckRefines ==
  ASSUME Inv, CheckSettles
  PROVE  Promise!Settle \/ Promise!Excuse
<1>. USE DEF Inv
<1>. DEFINE at == chain[1].at
            v  == CheckVerdict(job, checkpoint, chain[1].what, at)
            m  == LatestSlot(at)
<1>1. /\ chain # <<>> /\ Head(chain) = chain[1] /\ 1 \in DOMAIN chain /\ at \in Nat
      /\ chain[1].step = "todo" /\ UNCHANGED <<disk, now, armedAt>>
  BY Handlers DEF CheckSettles, Working, timer
<1>2. \/ Done /\ UNCHANGED <<job, checkpoint, ghost>>
      \/ /\ job.enabled /\ checkpoint' = MaxOf(checkpoint, at)
         /\ Act(v, job, m)
         /\ IF v = "settled" THEN UNCHANGED ghost ELSE Settle(at)
  BY <1>1 DEF CheckSettles
<1>3. v \in Verdicts /\ m \in Slots \cup {None}
  BY <1>1, LatestSlotType DEF CheckVerdict, Decide, Verdicts
<1>. HIDE DEF v, m
<1>4. /\ job'.checked = job.checked
      /\ \/ chain' = Tail(chain)
         \/ \E g \in Handler : g.step # "todo" /\ chain' = [chain EXCEPT ![1] = g]
  <2>1. CASE Done /\ UNCHANGED <<job, checkpoint, ghost>>
    BY <2>1 DEF Done
  <2>2. CASE Act(v, job, m)
    <3>1. \/ chain' = Tail(chain)
          \/ \E g \in Handler : /\ g.at = chain[1].at /\ g.what = chain[1].what
                                /\ g.step = "acting"
                                /\ chain' = [chain EXCEPT ![1] = g]
      BY <1>1, <1>3, <2>2, Acts
    <3>2. job'.checked = job.checked
      BY <1>1, <1>3, <2>2, Acts
    <3>. QED
      BY <3>1, <3>2
  <2>. QED
    BY <1>2, <2>1, <2>2
<1>5. checkpoint' = checkpoint \/ checkpoint' = MaxOf(checkpoint, at)
  BY <1>2
<1>6. Overtaking' => Overtaking
  BY <1>1, <1>4, <1>5, DecisionPasses
<1>7. FileIsAhead' => FileIsAhead
  BY <1>1, <1>4 DEF FileIsAhead
<1>8. CASE UNCHANGED ghost
  BY <1>1, <1>6, <1>7, <1>8, QuietExcuses, ExcuseRefines DEF ghost
<1>9. CASE job.enabled /\ v # "settled" /\ Settle(at)
  <2>1. Overtaken(chain[1]) => Overtaking
    BY <1>1 DEF Overtaking
  <2>2. Overtaking \/ \E s \in owed \cup excused : s \in Slots /\ s <= at
    BY <1>1, <1>9, <2>1, CheckOwes DEF v
  <2>. QED
    BY <1>1, <1>6, <1>7, <1>9, <2>2, SettleRefines
<1>. QED
  BY <1>2, <1>8, <1>9

(* Launches, runs by hand, pauses and the end of a pass.                    *)
LEMMA DriverRefines ==
  ASSUME Inv, DriverLaunched \/ RunByHand \/ Pause \/ Unpause \/ PassEnds
  PROVE  Promise!Excuse
<1>. USE DEF Inv
<1>1. job \in Record /\ firing \in Nat \cup {None} /\ now \in Nat
  BY Numbers DEF TypeOK
<1>2. UNCHANGED <<disk, now, chain, checkpoint, armedAt>>
  BY DEF DriverLaunched, RunByHand, Pause, Unpause, PassEnds, timer
<1>3. job'.checked = job.checked
  <2>1. \A s \in Statuses : [job EXCEPT !.status = s].checked = job.checked
    BY <1>1, Restatused
  <2>2. CASE DriverLaunched
    BY <1>1, <2>2, Restarted DEF DriverLaunched
  <2>3. CASE RunByHand
    BY <2>3 DEF RunByHand
  <2>4. CASE Pause \/ Unpause \/ PassEnds
    <3>1. job' = job \/ \E s \in Statuses : job' = [job EXCEPT !.status = s]
      BY <2>4 DEF Pause, Unpause, PassEnds, Statuses
    <3>2. ASSUME NEW s \in Statuses, job' = [job EXCEPT !.status = s]
          PROVE  job'.checked = job.checked
      BY <1>1, <3>2, Restatused
    <3>. QED
      BY <3>1, <3>2
  <2>. QED
    BY <2>2, <2>3, <2>4
<1>4. (Overtaking' => Overtaking) /\ (FileIsAhead' => FileIsAhead)
  BY <1>2, <1>3, SamePassed DEF FileIsAhead
<1>5. CASE DriverLaunched \/ RunByHand
  <2>1. \E at \in Nat : Excuse(at)
    BY <1>1, <1>5 DEF DriverLaunched, RunByHand
  <2>. QED
    BY <1>2, <1>4, <2>1, Excused, ExcuseRefines
<1>6. CASE Pause \/ Unpause \/ PassEnds
  <2>1. UNCHANGED <<owed, excused, made>>
    BY <1>6 DEF Pause, Unpause, PassEnds, ghost
  <2>. QED
    BY <1>2, <1>4, <2>1, QuietExcuses, ExcuseRefines
<1>. QED
  BY <1>5, <1>6

(* Edits, switches and what they arm: checkpoints move to the moment of the *)
(* clock, past handlers that wait.                                          *)
LEMMA EditsRefine ==
  ASSUME Inv, SwitchOn \/ SwitchOff \/ EditTrigger \/ EditOther \/ EditArms
  PROVE  Promise!Edit
<1>. USE DEF Inv
<1>1. job \in Record /\ now \in Nat
  BY Numbers DEF TypeOK
<1>2. UNCHANGED <<disk, now>>
  BY DEF SwitchOn, SwitchOff, EditTrigger, EditOther, EditArms
<1>3. job'.checked = job.checked \/ job'.checked = now
  <2>1. CASE SwitchOn \/ EditTrigger
    <3>1. Stamped(job) \in Record /\ Stamped(job).checked = now
      BY <1>1, Rechecked DEF Stamped
    <3>2. [Stamped(job) EXCEPT !.enabled = TRUE].checked = now
      BY <3>1, Reenabled
    <3>. QED
      BY <2>1, <3>1, <3>2 DEF SwitchOn, EditTrigger
  <2>2. CASE SwitchOff
    BY <1>1, <2>2, Reenabled DEF SwitchOff
  <2>3. CASE EditOther \/ EditArms
    BY <2>3 DEF EditOther, EditArms
  <2>. QED
    BY <2>1, <2>2, <2>3
<1>4. FileIsAhead' => FileIsAhead
  <2>1. By(disk.checked, now)
    BY DEF TimesInv, NothingAhead
  <2>. QED
    BY <1>1, <1>2, <1>3, <2>1, Numbers DEF FileIsAhead, By
<1>5. CASE SwitchOn \/ SwitchOff \/ EditTrigger
  <2>1. Excuse(now)
    BY <1>5 DEF SwitchOn, SwitchOff, EditTrigger
  <2>. QED
    BY <1>1, <1>2, <1>4, <2>1, Excused, EditRefines
<1>6. CASE EditOther \/ EditArms
  <2>1. UNCHANGED <<owed, excused, made>>
    BY <1>6 DEF EditOther, EditArms, ghost
  <2>. QED
    BY <1>2, <1>4, <2>1, QuietExcuses, EditRefines
<1>. QED
  BY <1>5, <1>6

(* The file is written: it knows more, unless it was ahead.                 *)
LEMMA LandRefines ==
  ASSUME Inv, Inv', Land
  PROVE  Promise!Write
<1>. USE DEF Inv
<1>1. /\ disk' = job /\ now' = now /\ now \in Nat
      /\ UNCHANGED <<job, chain, checkpoint, armedAt, owed, excused, made>>
  BY Numbers DEF Land, ghost, timer
<1>2. ~FileIsAhead => \A s \in Slots : Known(s) => Known(s)'
  BY <1>1, KnownGrows
<1>3. (Overtaking' => Overtaking) /\ Overtaking' \in BOOLEAN
  BY <1>1, SamePassed DEF Overtaking
<1>4. ~FileIsAhead' /\ FileIsAhead' \in BOOLEAN
  BY <1>1, Numbers DEF FileIsAhead
<1>. QED
  BY <1>1, <1>2, <1>3, <1>4 DEF Promise!Write, Promise!NoneOvertaken, Promise!NotAhead

(* The process dies, and with it the handlers.                              *)
LEMMA CrashRefines ==
  ASSUME Inv, Crash
  PROVE  Promise!Crash
<1>. USE DEF Inv
<1>1. /\ owed' = {s \in Slots : disk.enabled /\ s <= now /\ ~Known(s)}
      /\ excused' = {} /\ UNCHANGED <<disk, now, made>>
      /\ job' = disk /\ chain' = <<>>
  BY DEF Crash
<1>2. {s \in Slots : Known(s)}' = {s \in Slots : Known(s)}
  BY <1>1, KnownSame
<1>3. ~Overtaking'
  BY <1>1 DEF Overtaking
<1>4. ~FileIsAhead'
  BY <1>1, Numbers DEF FileIsAhead
<1>. QED
  BY <1>1, <1>2, <1>3, <1>4 DEF Promise!Crash

(* startScheduler finds no handler.                                         *)
LEMMA StartRefines ==
  ASSUME Inv, Start
  PROVE  Promise!Excuse
<1>. USE DEF Inv
<1>1. /\ UNCHANGED <<disk, now, chain, owed, excused, made>> /\ chain = <<>>
      /\ job \in Record
  BY DEF Start, TimesInv, TimerIsArmed, ghost, TypeOK
<1>2. job'.checked = job.checked
  BY <1>1, Restatused DEF Start, Statuses
<1>3. ~Overtaking'
  BY <1>1 DEF Overtaking
<1>4. FileIsAhead' => FileIsAhead
  BY <1>1, <1>2 DEF FileIsAhead
<1>. QED
  BY <1>1, <1>3, <1>4, QuietExcuses, ExcuseRefines

(* From a state of the invariant to another, every step is a step of the    *)
(* promise or leaves it alone.                                              *)
LEMMA StepRefines ==
  ASSUME Inv, Inv', [Next]_vars
  PROVE  [Promise!Next]_(Promise!vars)
<1>1. now \in Nat /\ MaxTime \in Nat
  BY Numbers, SchedulerAssumption DEF Inv
<1>2. CASE UNCHANGED vars
  <2>1. UNCHANGED <<disk, now, owed, excused, made, chain, checkpoint, armedAt, job>>
    BY <1>2 DEF vars, ghost, timer
  <2>2. Overtaking' = Overtaking /\ FileIsAhead' = FileIsAhead
    BY <2>1 DEF Overtaking, Overtaken, Later, FileIsAhead
  <2>. QED
    BY <2>1, <2>2, KnownSame DEF Promise!vars
<1>3. CASE Turns
  <2>1. CASE TickDropped
    BY <2>1, QuietRefines DEF Promise!Next
  <2>2. CASE TickNoted
    BY <2>2, TickRefines DEF Promise!Next
  <2>3. CASE CheckSettles
    BY <2>3, CheckRefines DEF Promise!Next
  <2>. QED
    BY <1>3, <2>1, <2>2, <2>3 DEF Turns
<1>4. CASE Events
  <2>1. CASE \/ TimerFires \/ Resume \/ StartCheck \/ TickActs \/ SkipWritten
             \/ CheckStamps \/ DriverStarts \/ DriverHolds
    BY <2>1, QuietRefines DEF Promise!Next
  <2>2. CASE Land
    BY <2>2, LandRefines DEF Promise!Next
  <2>3. CASE DriverLaunched
    BY <2>3, DriverRefines DEF Promise!Next
  <2>4. CASE EditArms
    BY <2>4, EditsRefine DEF Promise!Next
  <2>. QED
    BY <1>4, <2>1, <2>2, <2>3, <2>4 DEF Events
<1>5. CASE People
  <2>1. CASE RunByHand \/ Pause \/ Unpause
    BY <2>1, DriverRefines DEF Promise!Next
  <2>2. CASE SwitchOn \/ SwitchOff \/ EditTrigger \/ EditOther
    BY <2>2, EditsRefine DEF Promise!Next
  <2>. QED
    BY <1>5, <2>1, <2>2 DEF People
<1>6. CASE World
  <2>1. CASE Advance \/ Sleep
    <3>1. UNCHANGED <<disk, job, chain, checkpoint, armedAt, excused, made>>
      BY <2>1 DEF Advance, Sleep, timer
    <3>2. \E to \in Nat : to >= now /\ TimePasses(to)
      <4>1. CASE Advance
        BY <1>1, <4>1 DEF Advance
      <4>2. CASE Sleep
        <5>1. \A to \in now + 1..MaxTime : to \in Nat /\ to >= now
          BY <1>1
        <5>. QED
          BY <4>2, <5>1 DEF Sleep
      <4>. QED
        BY <2>1, <4>1, <4>2
    <3>3. Promise!Come
      BY <3>1, <3>2, ComeRefines DEF Inv
    <3>. QED
      BY <3>3 DEF Promise!Next
  <2>2. CASE PassEnds
    BY <2>2, DriverRefines DEF Promise!Next
  <2>3. CASE Crash
    BY <2>3, CrashRefines DEF Promise!Next
  <2>4. CASE Start
    BY <2>4, StartRefines DEF Promise!Next
  <2>. QED
    BY <1>6, <2>1, <2>2, <2>3, <2>4 DEF World
<1>. QED
  BY <1>2, <1>3, <1>4, <1>5, <1>6 DEF Next

-----------------------------------------------------------------------------
(* The theorems.                                                            *)

(* Every variable of the scheduler has its type.                            *)
THEOREM TypeCorrect == Spec => []TypeOK
<1>1. Init => TypeOK
  BY InitType
<1>2. TypeOK /\ [Next]_vars => TypeOK'
  BY TypeStep
<1>. QED
  BY <1>1, <1>2, PTL DEF Spec

(* Checkpoints, the file and the moments of waiting handlers keep to the    *)
(* order of the clock, and every time that is not owed is covered by a      *)
(* checkpoint, the start of a pass or the arming of the timer, wherever an  *)
(* edit or a switch comes between the handlers.                             *)
THEOREM TimesInvariant == Spec => []Inv
<1>1. Init => Inv
  BY InitType, InitTimes DEF Inv
<1>2. Inv /\ [Next]_vars => Inv'
  <2>. SUFFICES ASSUME Inv, [Next]_vars PROVE Inv'
    OBVIOUS
  <2>1. TypeOK'
    BY TypeStep DEF Inv
  <2>2. TimesInv'
    BY TimesStep
  <2>. QED
    BY <2>1, <2>2 DEF Inv
<1>. QED
  BY <1>1, <1>2, PTL DEF Spec

(* While a fire is late and the wake check is still to come, classifyTick   *)
(* and the check of catchUpScheduledJobs would decide the same.             *)
THEOREM VerdictAlwaysOrderFree == Spec => []VerdictIsOrderFree
<1>1. Spec => []Inv
  BY TimesInvariant
<1>2. Inv => VerdictIsOrderFree
  BY SameVerdict
<1>. QED
  BY <1>1, <1>2, PTL

(* The scheduler implements OwedTimes: a time that came is settled by one   *)
(* decision, whichever of the late fire, the wake check and the start check *)
(* is first and wherever the process died.  Edits and switches come at any  *)
(* moment; a handler they overtook may decide where nothing is owed, and    *)
(* only such a one takes the checkpoint of the file back.                   *)
THEOREM OwedTimesImplemented == Spec => ImplementsOwedTimes
<1>1. Spec => []Inv
  BY TimesInvariant
<1>2. Init => Promise!Init
  BY InitRefines
<1>3. Inv /\ Inv' /\ [Next]_vars => [Promise!Next]_(Promise!vars)
  BY StepRefines
<1>. QED
  BY <1>1, <1>2, <1>3, PTL DEF Spec, ImplementsOwedTimes, Promise!Spec

=============================================================================
