-------------------------- MODULE ManagerTurnsProofs --------------------------
(***************************************************************************)
(* Proofs about ManagerTurns for every set of messages and every bound on  *)
(* presses, tries, retries, failures and cycles.  The invariant splits in  *)
(* two: the Desk, which is the lock, the turn and the cycles, and the Talk,*)
(* which is the messages and the calls.  A step of a cycle moves the       *)
(* cycles around and leaves the talk alone (Moves); a step of the turn     *)
(* works on the talk and hands the lock back at its end.                   *)
(***************************************************************************)
EXTENDS ManagerTurns, FiniteSetTheorems, SequenceTheorems, TLAPS

RunType ==
  /\ status \in Statuses /\ epoch \in Nat /\ clicks \in Nat
  /\ recovery \in Recoveries
  /\ request \in [by : {0} \cup Cycles, epoch : Nat, ids : SUBSET Messages]
  /\ stopping \subseteq [id : Nat, epoch : Nat]

\* Cycles of their type, of which only free slots have none.
Seats(cs) ==
  /\ cs \in [Cycles -> CycleRecords]
  /\ \A d \in Cycles : cs[d].kind = "none" => cs[d].pc = "free"

Desk ==
  /\ lock \in Seq(Cycles) /\ turn \in TurnRecords /\ plan \in {0} \cup Cycles
  /\ Seats(cycles) /\ TurnIsHolders /\ InterruptIsForTurn

Talk ==
  /\ msgs \in [Messages -> MessageRecords] /\ calls \in Seq(CallRecords)
  /\ LiveCallIsTurns /\ InputIsInEpoch /\ InputIsKept

Inv == RunType /\ Desk /\ Talk

-----------------------------------------------------------------------------
(* Cycles.                                                                  *)

\* From cs to new, no turn loses its cycle and no interrupt appears.
Moves(cs, new) ==
  /\ Seats(new)
  /\ \A d \in Cycles :
       /\ cs[d].pc = "turn" => new[d].pc = "turn"
       /\ new[d].pc = "interrupt" => cs[d].pc = "interrupt" /\ new[d].call = cs[d].call

(* Not moving is a move, and moves follow one another.                      *)
LEMMA StayingMoves ==
  ASSUME NEW cs, Seats(cs)
  PROVE  Moves(cs, cs)
BY DEF Moves

\* One step of the cycles after another is a step of the cycles.
LEMMA MovesFollow ==
  ASSUME NEW a, NEW b, NEW c, Moves(a, b), Moves(b, c)
  PROVE  Moves(a, c)
BY DEF Moves

(* A cycle that holds no turn may be replaced by one that does not          *)
(* interrupt.                                                               *)
LEMMA PuttingMoves ==
  ASSUME NEW cs, Seats(cs), NEW d \in Cycles, cs[d].pc # "turn",
         NEW r \in CycleRecords, r.kind = "none" => r.pc = "free",
         r.pc # "interrupt"
  PROVE  Moves(cs, [cs EXCEPT ![d] = r])
<1>. DEFINE new == [cs EXCEPT ![d] = r]
<1>1. new \in [Cycles -> CycleRecords]
  BY DEF Seats
<1>2. \A e \in Cycles : new[e] = IF e = d THEN r ELSE cs[e]
  BY DEF Seats
<1>. HIDE DEF new
<1>3. Seats(new)
  BY <1>1, <1>2 DEF Seats
<1>4. Moves(cs, new)
  BY <1>2, <1>3 DEF Moves
<1>. QED
  BY <1>4 DEF new

(* The record of no cycle is one.                                           *)
LEMMA NoCycleType == NoCycle \in CycleRecords /\ NoCycle.pc = "free" /\ NoCycle.kind = "none"
BY DEF NoCycle, CycleRecords, Kinds, Modes, Reports

(* With room, the slot a new cycle takes is free.                           *)
LEMMA SlotIsFree ==
  ASSUME NEW cs, Seats(cs), NEW n \in Nat \ {0}, Room(cs, n)
  PROVE  Slot(cs) \in Cycles /\ cs[Slot(cs)].kind = "none" /\ cs[Slot(cs)].pc = "free"
<1>1. Live(cs, "none") # {}
  BY FS_EmptySet DEF Room
<1>2. \E d \in Cycles : d \in Live(cs, "none")
  BY <1>1 DEF Live
<1>3. Slot(cs) \in Cycles /\ Slot(cs) \in Live(cs, "none")
  BY <1>2 DEF Slot
<1>. QED
  BY <1>3 DEF Live, Seats

(* A cycle that waits is one.                                               *)
LEMMA WaitingType ==
  ASSUME RunType, Desk, NEW k \in Kinds, NEW p \in {0} \cup Cycles
  PROVE  /\ Waiting(k, p) \in CycleRecords
         /\ Waiting(k, p).kind = k /\ Waiting(k, p).pc = "wait"
<1>1. InLock \subseteq Cycles
  BY DEF Desk, InLock
<1>2. Behind(p) \subseteq Cycles
  BY DEF Behind
<1>3. epoch \in Nat
  BY DEF RunType
<1>. QED
  BY <1>1, <1>2, <1>3 DEF Waiting, NoCycle, CycleRecords, Kinds, Modes, Reports

(* A cycle that ends holds nobody up.                                       *)
LEMMA FreeingMoves ==
  ASSUME NEW cs, Seats(cs), NEW d \in Cycles, cs[d].pc # "turn"
  PROVE  /\ Moves(cs, Freed(cs, d))
         /\ Room(Freed(cs, d), 1) /\ Freed(cs, d)[d] = NoCycle
<1>. DEFINE new == Freed(cs, d)
<1>1. ASSUME NEW e \in Cycles, e # d
      PROVE  /\ new[e] \in CycleRecords /\ new[e].pc = cs[e].pc
             /\ new[e].kind = cs[e].kind /\ new[e].call = cs[e].call
  <2>1. cs[e] \in CycleRecords
    BY DEF Seats
  <2>2. new[e] = [cs[e] EXCEPT !.behind = @ \ {d}]
    BY <1>1 DEF Freed
  <2>. QED
    BY <2>1, <2>2 DEF CycleRecords
<1>2. new[d] = NoCycle
  BY DEF Freed
<1>3. new = [e \in Cycles |-> new[e]]
  BY DEF Freed
<1>. HIDE DEF new
<1>4. Seats(new)
  BY <1>1, <1>2, <1>3, NoCycleType DEF Seats
<1>5. Moves(cs, new)
  BY <1>1, <1>2, <1>4, NoCycleType DEF Moves
<1>6. Room(new, 1)
  <2>1. d \in Live(new, "none")
    BY <1>2, NoCycleType DEF Live
  <2>2. IsFiniteSet(Cycles)
    BY ManagerTurnsAssumption, FS_Interval DEF Cycles
  <2>3. Live(new, "none") \subseteq Cycles
    BY DEF Live
  <2>4. IsFiniteSet(Live(new, "none"))
    BY <2>2, <2>3, FS_Subset
  <2>5. Cardinality(Live(new, "none")) \in Nat /\ Cardinality(Live(new, "none")) # 0
    BY <2>1, <2>4, FS_CardinalityType, FS_EmptySet
  <2>. QED
    BY <2>5 DEF Room
<1>. QED
  BY <1>2, <1>5, <1>6 DEF new

(* A new cycle of the given record takes a free slot.                       *)
LEMMA StartingMoves ==
  ASSUME NEW cs, Seats(cs), Room(cs, 1),
         NEW r \in CycleRecords, r.kind # "none", r.pc # "interrupt"
  PROVE  Slot(cs) \in Cycles /\ Moves(cs, [cs EXCEPT ![Slot(cs)] = r])
<1>1. Slot(cs) \in Cycles /\ cs[Slot(cs)].pc = "free"
  BY SlotIsFree
<1>. QED
  BY <1>1, PuttingMoves

(* A planning cycle is scheduled, or the one on record stands.              *)
LEMMA PlanningMoves ==
  ASSUME RunType, NEW cs, Seats(cs), NEW p \in {0} \cup Cycles,
         NEW mode \in Modes, NEW after \in BOOLEAN,
         p = 0 \/ after => Room(cs, 1)
  PROVE  /\ Moves(cs, Planned(cs, p, mode, after))
         /\ PlanAfter(cs, p, after) \in {0} \cup Cycles
         /\ \A d \in Cycles : cs[d].pc # "free" => Planned(cs, p, mode, after)[d] = cs[d]
<1>1. CASE p # 0 /\ ~after
  BY <1>1, StayingMoves DEF Planned, PlanAfter
<1>2. CASE ~(p # 0 /\ ~after)
  <2>. DEFINE r == [NoCycle EXCEPT !.kind = "plan", !.pc = "wait", !.epoch = epoch,
                                   !.mode = mode, !.behind = Behind(p)]
  <2>1. r \in CycleRecords /\ r.kind # "none" /\ r.pc # "interrupt"
    <3>1. epoch \in Nat /\ Behind(p) \subseteq Cycles
      BY DEF RunType, Behind
    <3>. QED
      BY <3>1 DEF NoCycle, CycleRecords, Kinds, Modes, Reports
  <2>2. Planned(cs, p, mode, after) = [cs EXCEPT ![Slot(cs)] = r]
    BY <1>2 DEF Planned
  <2>. HIDE DEF r
  <2>3. Room(cs, 1)
    BY <1>2
  <2>4. Slot(cs) \in Cycles /\ Moves(cs, Planned(cs, p, mode, after))
    BY <2>1, <2>2, <2>3, StartingMoves
  <2>5. cs[Slot(cs)].pc = "free"
    BY <2>3, SlotIsFree
  <2>6. \A d \in Cycles : cs[d].pc # "free" => Planned(cs, p, mode, after)[d] = cs[d]
    BY <2>2, <2>4, <2>5 DEF Seats
  <2>. QED
    BY <1>2, <2>4, <2>6 DEF PlanAfter
<1>. QED
  BY <1>1, <1>2

(* A follow-up is scheduled where one is due.                               *)
LEMMA FollowingMoves ==
  ASSUME RunType, Desk, NEW cs, Seats(cs), NEW p \in {0} \cup Cycles, NEW ms,
         NEW explicit \in BOOLEAN,
         FollowsUp(cs, ms, explicit) => Room(cs, 1)
  PROVE  Moves(cs, FollowedUp(cs, p, ms, explicit))
<1>1. CASE ~FollowsUp(cs, ms, explicit)
  BY <1>1, StayingMoves DEF FollowedUp
<1>2. CASE FollowsUp(cs, ms, explicit)
  <2>. DEFINE w == Waiting("followup", p)
              r == [w EXCEPT !.explicit = explicit]
  <2>1. w \in CycleRecords /\ w.kind = "followup" /\ w.pc = "wait"
    BY WaitingType DEF Kinds
  <2>2. FollowedUp(cs, p, ms, explicit) = [cs EXCEPT ![Slot(cs)] = r]
    BY <1>2 DEF FollowedUp
  <2>. HIDE DEF w
  <2>3. r \in CycleRecords /\ r.kind # "none" /\ r.pc # "interrupt"
    BY <2>1 DEF CycleRecords
  <2>. HIDE DEF r
  <2>. QED
    BY <1>2, <2>2, <2>3, StartingMoves
<1>. QED
  BY <1>1, <1>2

(* One step of a cycle that neither takes nor loses a turn.                 *)
LEMMA SteppingMoves ==
  ASSUME NEW cs, Seats(cs), NEW d \in Cycles, cs[d].pc \notin {"turn", "free"},
         NEW pc \in {"hop", "question", "mark", "finish", "repark", "resume"}
  PROVE  Moves(cs, [cs EXCEPT ![d].pc = pc])
<1>. DEFINE r == [cs[d] EXCEPT !.pc = pc]
<1>1. cs[d] \in CycleRecords /\ cs[d].kind # "none"
  BY DEF Seats
<1>2. r \in CycleRecords /\ r.kind # "none" /\ r.pc # "interrupt"
  BY <1>1 DEF CycleRecords
<1>3. [cs EXCEPT ![d].pc = pc] = [cs EXCEPT ![d] = r]
  OBVIOUS
<1>. HIDE DEF r
<1>. QED
  BY <1>2, <1>3, PuttingMoves

(* A cycle's end.                                                           *)
LEMMA EndingMoves ==
  ASSUME RunType, Desk, NEW d \in Cycles, cycles[d].pc # "turn", Done(d)
  PROVE  Moves(cycles, cycles') /\ plan' \in {0} \cup Cycles
<1>1. plan' \in {0} \cup Cycles
  BY DEF Done, Desk
<1>2. Seats(cycles) /\ plan \in {0} \cup Cycles
  BY DEF Desk
<1>3. /\ Moves(cycles, Freed(cycles, d))
      /\ Room(Freed(cycles, d), 1)
  BY <1>2, FreeingMoves
<1>4. Seats(Freed(cycles, d))
  BY <1>3 DEF Moves
<1>5. Moves(Freed(cycles, d), FollowedUp(Freed(cycles, d), plan, msgs, FALSE))
  BY <1>2, <1>3, <1>4, FollowingMoves
<1>6. Moves(cycles, FollowedUp(Freed(cycles, d), plan, msgs, FALSE))
  BY <1>3, <1>5, MovesFollow
<1>. QED
  BY <1>1, <1>3, <1>6 DEF Done

-----------------------------------------------------------------------------
(* Steps.                                                                   *)

\* The turn goes on where it was, the desk's lock is as it was, and so is what
\* was said.
SameTurn ==
  /\ turn' \in TurnRecords
  /\ turn'.pc = turn.pc /\ turn'.call = turn.call /\ turn'.epoch = turn.epoch
SameTalk == UNCHANGED <<epoch, msgs, calls>>

(* The talk depends on the turn's place, call and epoch only.               *)
LEMMA TalkStays ==
  ASSUME Talk, SameTurn, SameTalk
  PROVE  Talk'
<1>1. Current' <=> Current
  BY DEF SameTurn, SameTalk, Current
<1>2. Prompting' <=> Prompting
  BY <1>1 DEF SameTurn, Prompting
<1>3. LiveCallIsTurns'
  BY DEF Talk, SameTurn, SameTalk, LiveCallIsTurns
<1>4. InputIsInEpoch'
  BY DEF Talk, SameTurn, SameTalk, InputIsInEpoch, Held, Waits
<1>5. InputIsKept'
  BY <1>2 DEF Talk, SameTurn, SameTalk, InputIsKept
<1>. QED
  BY <1>3, <1>4, <1>5 DEF Talk, SameTalk

(* The desk keeps its order when cycles move.                               *)
LEMMA DeskMoves ==
  ASSUME Desk, SameTurn, UNCHANGED lock, Moves(cycles, cycles'),
         plan' \in {0} \cup Cycles
  PROVE  Desk'
<1>1. Seats(cycles')
  BY DEF Moves
<1>2. lock # <<>> => Holder \in Cycles /\ Holder' = Holder
  BY HeadTailProperties DEF Desk, Holder
<1>3. TurnIsHolders'
  BY <1>2 DEF Desk, TurnIsHolders, SameTurn, Moves
<1>4. InterruptIsForTurn'
  BY DEF Desk, InterruptIsForTurn, SameTurn, Moves
<1>5. Seats(cycles)'
  BY <1>1 DEF Seats
<1>. QED
  BY <1>3, <1>4, <1>5 DEF Desk, SameTurn

(* A turn that has no live call, or whose epoch is over: no call is live.   *)
LEMMA NoneIsLive ==
  ASSUME Talk, turn.pc \notin Calling \/ ~Current
  PROVE  \A c \in DOMAIN calls : calls[c].state # "started"
<1>. SUFFICES ASSUME NEW c \in DOMAIN calls, calls[c].state = "started"
     PROVE  FALSE
  OBVIOUS
<1>1. c = turn.call /\ turn.pc \in Calling /\ calls[c].epoch = epoch
  BY DEF Talk, LiveCallIsTurns
<1>2. calls[turn.call].epoch = turn.epoch
  BY <1>1 DEF Talk, LiveCallIsTurns
<1>. QED
  BY <1>1, <1>2 DEF Current

(* Where no call is live, the talk allows any turn that has none.           *)
LEMMA TalkRests ==
  ASSUME RunType, Talk, SameTalk, \A c \in DOMAIN calls : calls[c].state # "started",
         turn'.pc \notin Calling \cup {"release"}, turn'.epoch = 0
  PROVE  Talk'
<1>1. LiveCallIsTurns'
  BY DEF RunType, Talk, SameTalk, LiveCallIsTurns
<1>2. InputIsInEpoch'
  BY DEF Talk, SameTalk, InputIsInEpoch, Held, Waits
<1>3. ~Prompting'
  BY DEF Prompting, Calling
<1>4. InputIsKept'
  BY <1>3 DEF Talk, SameTalk, InputIsKept
<1>. QED
  BY <1>1, <1>2, <1>4 DEF Talk, SameTalk

(* A turn is one.                                                           *)
LEMMA TurnType ==
  /\ NoTurn \in TurnRecords /\ NoTurn.pc = "idle" /\ NoTurn.epoch = 0
  /\ \A mode \in Modes, retries \in Nat, claim \in {0} \cup Cycles :
       /\ Turn(mode, retries, claim) \in TurnRecords
       /\ Turn(mode, retries, claim).pc = "account"
       /\ Turn(mode, retries, claim).epoch = 0
  /\ \A d \in Cycles, mode \in Modes :
       /\ TurnOf(d, mode) \in TurnRecords /\ TurnOf(d, mode).pc = "account"
       /\ TurnOf(d, mode).epoch = 0
<1>1. NoTurn \in TurnRecords /\ NoTurn.pc = "idle" /\ NoTurn.epoch = 0
  BY DEF NoTurn, TurnRecords, Modes
<1>2. ASSUME NEW mode \in Modes, NEW retries \in Nat, NEW claim \in {0} \cup Cycles
      PROVE  /\ Turn(mode, retries, claim) \in TurnRecords
             /\ Turn(mode, retries, claim).pc = "account"
             /\ Turn(mode, retries, claim).epoch = 0
       /\ Turn(mode, retries, claim).epoch = 0
  BY DEF Turn, NoTurn, TurnRecords
<1>3. ASSUME NEW d \in Cycles, NEW mode \in Modes
      PROVE  /\ TurnOf(d, mode) \in TurnRecords /\ TurnOf(d, mode).pc = "account"
             /\ TurnOf(d, mode).epoch = 0
  <2>1. (IF cycles[d].kind = "recovery" THEN d ELSE 0) \in {0} \cup Cycles
    OBVIOUS
  <2>. QED
    BY <1>2, <2>1 DEF TurnOf
<1>. QED
  BY <1>1, <1>2, <1>3

(* A cycle queues on the lock, and begins its turn if nobody is before it.  *)
LEMMA AskingKeeps ==
  ASSUME RunType, Desk, Talk, NEW d \in Cycles, NEW mode \in Modes,
         cycles[d].pc \in {"wait", "claimed"}, Asks(d, mode), SameTalk,
         plan' \in {0} \cup Cycles
  PROVE  Desk' /\ Talk'
<1>. DEFINE now == lock = <<>> /\ stopping = {}
            r == [cycles[d] EXCEPT !.mode = mode, !.before = Len(calls),
                                   !.pc = IF now THEN "turn" ELSE "ask"]
<1>1. cycles[d] \in CycleRecords /\ cycles[d].kind # "none"
  BY DEF Desk, Seats
<1>2. Len(calls) \in Nat
  BY LenProperties DEF Talk
<1>3. /\ r \in CycleRecords /\ r.kind # "none"
      /\ r.pc = IF now THEN "turn" ELSE "ask"
  BY <1>1, <1>2 DEF CycleRecords
<1>4. cycles' = [cycles EXCEPT ![d] = r]
  BY DEF Asks
<1>. HIDE DEF r
<1>5. Seats(cycles) /\ cycles[d].pc # "turn"
  BY DEF Desk
<1>6. Moves(cycles, cycles')
  BY <1>3, <1>4, <1>5, PuttingMoves
<1>7. cycles'[d].pc = IF now THEN "turn" ELSE "ask"
  BY <1>3, <1>4, <1>5 DEF Seats
<1>8. lock' = Append(lock, d) /\ lock \in Seq(Cycles)
  BY DEF Asks, Desk
<1>9. lock' \in Seq(Cycles) /\ lock' # <<>> /\ Head(lock') = IF lock = <<>> THEN d ELSE Holder
  BY <1>8 DEF Holder
<1>10. CASE now
  <2>1. /\ turn' = TurnOf(d, mode) /\ turn' \in TurnRecords /\ turn'.pc = "account"
        /\ turn'.epoch = 0
    BY <1>10, TurnType DEF Asks
  <2>2. turn.pc = "idle"
    BY <1>10 DEF Desk, TurnIsHolders
  <2>3. \A c \in DOMAIN calls : calls[c].state # "started"
    BY <2>2, NoneIsLive DEF Calling
  <2>4. Talk'
    BY <2>1, <2>3, TalkRests DEF Calling
  <2>5. Seats(cycles)'
    BY <1>6 DEF Moves, Seats
  <2>6. TurnIsHolders'
    BY <1>7, <1>9, <1>10 DEF TurnIsHolders, Holder
  <2>7. InterruptIsForTurn'
    BY <2>1 DEF InterruptIsForTurn
  <2>. QED
    BY <1>9, <2>1, <2>4, <2>5, <2>6, <2>7 DEF Desk
<1>11. CASE ~now
  <2>1. turn' = turn /\ SameTurn
    BY <1>11 DEF Asks, SameTurn, Desk
  <2>2. Talk'
    BY <2>1, TalkStays
  <2>3. Seats(cycles)'
    BY <1>6 DEF Moves, Seats
  <2>4. TurnIsHolders'
    <3>1. Holder \in Cycles \/ lock = <<>>
      BY <1>8, HeadTailProperties DEF Holder
    <3>. QED
      BY <1>6, <1>9, <2>1, <3>1 DEF TurnIsHolders, Holder, Desk, Moves
  <2>5. InterruptIsForTurn'
    BY <1>6, <2>1 DEF InterruptIsForTurn, Moves, Desk
  <2>. QED
    BY <1>9, <2>1, <2>2, <2>3, <2>4, <2>5 DEF Desk
<1>. QED
  BY <1>10, <1>11

(* The lock is handed back.                                                 *)
LEMMA ReturningKeepsDesk ==
  ASSUME Desk, NEW cs, Seats(cs), NEW result \in {"run", "null", "throw"},
         lock # <<>>, cs[Holder].pc \in {"ask", "turn"}, Returned(cs, result),
         plan' \in {0} \cup Cycles
  PROVE  Desk' /\ turn'.pc = "idle" /\ turn'.epoch = 0
<1>1. turn' \in TurnRecords /\ turn'.pc = "idle" /\ turn'.epoch = 0
  BY TurnType DEF Returned
<1>2. lock \in Seq(Cycles) /\ Holder \in Cycles
  BY HeadTailProperties DEF Desk, Holder
<1>3. lock' \in Seq(Cycles)
  BY <1>2, HeadTailProperties DEF Returned
<1>4. Seats(cycles)'
  <2>1. ASSUME NEW e \in Cycles
        PROVE  /\ cycles'[e] \in CycleRecords
               /\ cycles'[e].kind = "none" => cycles'[e].pc = "free"
    <3>1. cs[e] \in CycleRecords /\ (cs[e].kind = "none" => cs[e].pc = "free")
      BY DEF Seats
    <3>2. CASE e = Holder
      <4>1. cycles'[e] = [cs[e] EXCEPT !.pc = "back", !.result = result]
        BY <3>2 DEF Returned
      <4>2. cs[e].kind # "none"
        BY <3>1, <3>2
      <4>. QED
        BY <3>1, <4>1, <4>2 DEF CycleRecords, Reports
    <3>3. CASE e # Holder
      <4>1. cycles'[e] = [cs[e] EXCEPT !.turns = @ \ {Holder}]
        BY <3>3 DEF Returned
      <4>. QED
        BY <3>1, <4>1 DEF CycleRecords
    <3>. QED
      BY <3>2, <3>3
  <2>2. cycles' = [e \in Cycles |-> cycles'[e]]
    BY DEF Returned
  <2>. QED
    BY <2>1, <2>2 DEF Seats
<1>. QED
  BY <1>1, <1>3, <1>4 DEF Desk, TurnIsHolders, InterruptIsForTurn

(* While a turn is under way, it is the holder's.                           *)
LEMMA TurnHasHolder ==
  ASSUME Desk, turn.pc # "idle"
  PROVE  /\ lock # <<>> /\ Holder \in Cycles /\ cycles[Holder].pc = "turn"
         /\ Seats(cycles)
BY HeadTailProperties DEF Desk, TurnIsHolders, Holder

(* A step of cycles that touches neither the lock nor the talk.             *)
LEMMA CyclesStep ==
  ASSUME Desk, Talk, UNCHANGED <<lock, turn>>, SameTalk, Moves(cycles, cycles'),
         plan' \in {0} \cup Cycles
  PROVE  Desk' /\ Talk'
<1>1. SameTurn
  BY DEF Desk, SameTurn
<1>. QED
  BY <1>1, DeskMoves, TalkStays

-----------------------------------------------------------------------------
(* The user's steps.                                                        *)

(* A new message waits in the run's epoch, and no call had it.              *)
LEMMA RecordKeeps ==
  ASSUME RunType, Desk, Talk, NEW m \in Messages, Record(m)
  PROVE  Desk' /\ Talk'
<1>1. SameTurn /\ Moves(cycles, cycles') /\ plan' \in {0} \cup Cycles
  BY StayingMoves DEF Record, work, Desk, SameTurn
<1>2. Desk'
  BY <1>1, DeskMoves DEF Record
<1>3. UNCHANGED <<epoch, calls, turn>> /\ msgs[m].state = "unsent"
  BY DEF Record
<1>4. PICK r \in MessageRecords :
        /\ msgs' = [msgs EXCEPT ![m] = r] /\ r.state = "queued" /\ r.owner = 0
        /\ r.epoch = epoch
  <2>. DEFINE q == [state |-> "queued", epoch |-> epoch, owner |-> 0,
                    steer |-> status \in Driving \/ ActiveCall # {}, tries |-> 0,
                    again |-> FALSE,
                    engage |-> IF status \in Terminal THEN "revived" ELSE "yes"]
  <2>1. msgs' = [msgs EXCEPT ![m] = q]
    BY DEF Record
  <2>2. q \in MessageRecords
    BY DEF MessageRecords, RunType
  <2>. QED
    BY <2>1, <2>2
<1>5. \A n \in Messages : msgs'[n] = IF n = m THEN r ELSE msgs[n]
  BY <1>4 DEF Talk
<1>6. msgs' \in [Messages -> MessageRecords]
  BY <1>4 DEF Talk
<1>7. LiveCallIsTurns'
  BY <1>3 DEF Talk, LiveCallIsTurns
<1>8. InputIsInEpoch'
  BY <1>3, <1>4, <1>5 DEF Talk, InputIsInEpoch, Held, Waits
<1>9. \A c \in DOMAIN calls : m \notin calls[c].input
  BY <1>3 DEF Talk, InputIsKept
<1>10. Prompting' <=> Prompting
  BY <1>3 DEF Prompting, Current
<1>11. InputIsKept'
  BY <1>3, <1>5, <1>9, <1>10 DEF Talk, InputIsKept
<1>. QED
  BY <1>2, <1>3, <1>6, <1>7, <1>8, <1>11 DEF Talk

(* A message leaves the queue only while nothing holds it.                  *)
LEMMA UnqueueKeeps ==
  ASSUME Desk, Talk, NEW m \in Messages, Unqueue(m)
  PROVE  Desk' /\ Talk'
<1>1. SameTurn /\ Moves(cycles, cycles') /\ plan' \in {0} \cup Cycles
  BY StayingMoves DEF Unqueue, work, Desk, SameTurn
<1>2. Desk'
  BY <1>1, DeskMoves DEF Unqueue
<1>3. /\ UNCHANGED <<epoch, calls, turn>> /\ msgs[m].state = "queued"
      /\ msgs[m].owner = 0
  BY DEF Unqueue, run
<1>4. /\ msgs' \in [Messages -> MessageRecords]
      /\ \A n \in Messages : n # m => msgs'[n] = msgs[n]
      /\ msgs'[m].state = "removed" /\ msgs'[m].owner = 0
  BY DEF Unqueue, Talk, MessageRecords
<1>5. LiveCallIsTurns'
  BY <1>3 DEF Talk, LiveCallIsTurns
<1>6. InputIsInEpoch'
  BY <1>3, <1>4 DEF Talk, InputIsInEpoch, Held, Waits
<1>7. Prompting' <=> Prompting
  BY <1>3 DEF Prompting, Current
<1>8. calls \in Seq(CallRecords) /\ \A c \in DOMAIN calls : c # 0
  BY DEF Talk
<1>9. InputIsKept'
  BY <1>3, <1>4, <1>7, <1>8 DEF Talk, InputIsKept
<1>. QED
  BY <1>2, <1>3, <1>4, <1>5, <1>6, <1>9 DEF Talk

(* The second half of sending takes free slots only.                        *)
LEMMA EngageKeeps ==
  ASSUME RunType, Desk, Talk, NEW m \in Messages, Engage(m)
  PROVE  Desk' /\ Talk'
<1>. DEFINE revived == msgs[m].engage = "revived"
            p  == IF revived THEN PlanAfter(cycles, plan, TRUE) ELSE plan
            c1 == IF revived THEN Planned(cycles, plan, "chat", TRUE) ELSE cycles
            steers == msgs[m].steer /\ (ActiveCall # {} \/ p # 0 \/ status = "running")
            c2 == IF steers THEN FollowedUp(c1, p, msgs, FALSE) ELSE c1
            resumes == status = "paused" /\ Live(c2, "autoresume") = {}
<1>1. Seats(cycles) /\ plan \in {0} \cup Cycles
  BY DEF Desk
<1>2. Moves(cycles, c1) /\ p \in {0} \cup Cycles /\ Seats(c1)
  <2>1. CASE revived
    <3>1. Room(cycles, 1) /\ "chat" \in Modes
      BY <2>1 DEF Engage, Modes
    <3>2. /\ Moves(cycles, Planned(cycles, plan, "chat", TRUE))
          /\ PlanAfter(cycles, plan, TRUE) \in {0} \cup Cycles
      BY <1>1, <3>1, PlanningMoves
    <3>. QED
      BY <2>1, <3>2 DEF Moves
  <2>2. CASE ~revived
    BY <1>1, <2>2, StayingMoves
  <2>. QED
    BY <2>1, <2>2
<1>3. steers /\ FollowsUp(c1, msgs, FALSE) => Room(c1, 1)
  BY DEF Engage
<1>4. resumes => Room(c2, 1)
  BY DEF Engage
<1>5. /\ msgs' = [msgs EXCEPT ![m].engage = "no"] /\ plan' = p
      /\ cycles' = IF resumes THEN [c2 EXCEPT ![Slot(c2)] = Waiting("autoresume", p)]
                   ELSE c2
  BY DEF Engage
<1>6. UNCHANGED <<epoch, calls, lock, turn>>
  BY DEF Engage, run
<1>. HIDE DEF p, c1, revived
<1>7. Moves(c1, c2) /\ Seats(c2)
  <2>1. CASE steers
    <3>1. Moves(c1, FollowedUp(c1, p, msgs, FALSE))
      BY <1>2, <1>3, <2>1, FollowingMoves
    <3>. QED
      BY <2>1, <3>1 DEF Moves
  <2>2. CASE ~steers
    BY <1>2, <2>2, StayingMoves
  <2>. QED
    BY <2>1, <2>2
<1>. HIDE DEF c2, steers
<1>8. Moves(c2, cycles')
  <2>1. CASE resumes
    <3>1. /\ Waiting("autoresume", p) \in CycleRecords
          /\ Waiting("autoresume", p).kind # "none"
          /\ Waiting("autoresume", p).pc # "interrupt"
      BY <1>2, WaitingType DEF Kinds
    <3>. QED
      BY <1>4, <1>5, <1>7, <2>1, <3>1, StartingMoves
  <2>2. CASE ~resumes
    BY <1>5, <1>7, <2>2, StayingMoves
  <2>. QED
    BY <2>1, <2>2
<1>9. Moves(cycles, cycles')
  BY <1>2, <1>7, <1>8, MovesFollow
<1>10. SameTurn
  BY <1>6 DEF Desk, SameTurn
<1>11. Desk'
  BY <1>2, <1>5, <1>6, <1>9, <1>10, DeskMoves
<1>12. msgs' \in [Messages -> MessageRecords]
  BY <1>5 DEF Talk, MessageRecords
<1>13. \A n \in Messages :
         /\ msgs'[n].state = msgs[n].state /\ msgs'[n].owner = msgs[n].owner
         /\ msgs'[n].epoch = msgs[n].epoch /\ msgs'[n].again = msgs[n].again
  BY <1>5 DEF Talk, MessageRecords
<1>14. LiveCallIsTurns'
  BY <1>6 DEF Talk, LiveCallIsTurns
<1>15. InputIsInEpoch'
  BY <1>6, <1>13 DEF Talk, InputIsInEpoch, Held, Waits
<1>16. Prompting' <=> Prompting
  BY <1>6 DEF Prompting, Current
<1>17. InputIsKept'
  BY <1>6, <1>13, <1>16 DEF Talk, InputIsKept
<1>. QED
  BY <1>6, <1>11, <1>12, <1>14, <1>15, <1>17 DEF Talk

(* A stop or an interrupt cuts the turn where it is.                        *)
LEMMA CuttingStays ==
  ASSUME Desk, turn' = Cut(turn)
  PROVE  SameTurn
<1>1. turn \in TurnRecords
  BY DEF Desk
<1>. QED
  BY <1>1 DEF Cut, SameTurn, TurnRecords

\* A Send now marks the turn it will interrupt, the prompted one.
LEMMA SendNowKeeps ==
  ASSUME RunType, Desk, Talk, SendNow
  PROVE  Desk' /\ Talk'
<1>. DEFINE d == Slot(cycles)
            r == [by |-> d, epoch |-> epoch, ids |-> Queued]
            i == [Waiting("flush", 0) EXCEPT !.pc = "interrupt", !.call = turn.call]
            w == Waiting("flush", plan)
<1>1. Room(cycles, 2) /\ Seats(cycles) /\ turn \in TurnRecords /\ plan \in {0} \cup Cycles
  BY DEF SendNow, Desk
<1>2. d \in Cycles /\ cycles[d].pc = "free"
  BY <1>1, SlotIsFree
<1>3. /\ w \in CycleRecords /\ w.kind = "flush" /\ w.pc = "wait"
      /\ i \in CycleRecords /\ i.kind = "flush" /\ i.pc = "interrupt"
      /\ i.call = turn.call
  <2>1. /\ Waiting("flush", 0) \in CycleRecords /\ Waiting("flush", 0).kind = "flush"
        /\ w \in CycleRecords /\ w.kind = "flush" /\ w.pc = "wait"
    BY <1>1, WaitingType DEF Kinds
  <2>2. turn.call \in Nat
    BY <1>1 DEF TurnRecords
  <2>. QED
    BY <2>1, <2>2 DEF CycleRecords
<1>4. /\ turn' = [turn EXCEPT !.marked = @ \/ ToStop(r)]
      /\ cycles' = [cycles EXCEPT ![d] = IF ToStop(r) THEN i ELSE w]
      /\ UNCHANGED <<epoch, msgs, calls, lock, plan>>
  BY DEF SendNow, run, chat
<1>5. SameTurn
  <2>1. (turn.marked \/ ToStop(r)) \in BOOLEAN
    BY <1>1 DEF TurnRecords
  <2>. QED
    BY <1>1, <1>4, <2>1 DEF SameTurn, TurnRecords
<1>. HIDE DEF d, i, w
<1>6. \A e \in Cycles : cycles'[e] = IF e # d THEN cycles[e]
                                     ELSE IF ToStop(r) THEN i ELSE w
  BY <1>1, <1>4 DEF Seats
<1>. HIDE DEF r
<1>7. Seats(cycles')
  BY <1>1, <1>2, <1>3, <1>4, <1>6 DEF Seats
<1>8. TurnIsHolders'
  <2>1. ASSUME turn.pc # "idle"
        PROVE  lock # <<>> /\ cycles'[Holder].pc = "turn"
    BY <1>2, <1>6, <2>1, TurnHasHolder
  <2>. QED
    BY <1>4, <1>5, <2>1 DEF TurnIsHolders, SameTurn, Holder
<1>9. InterruptIsForTurn'
  BY <1>2, <1>3, <1>5, <1>6 DEF InterruptIsForTurn, SameTurn, Desk
<1>10. Desk'
  BY <1>1, <1>4, <1>5, <1>7, <1>8, <1>9 DEF Desk, SameTurn, Seats
<1>. QED
  BY <1>4, <1>5, <1>10, TalkStays DEF SameTalk

(* A Stop cuts the turn and waits for its commit.                           *)
LEMMA StopKeeps ==
  ASSUME Desk, Talk, Stop
  PROVE  Desk' /\ Talk'
<1>1. SameTurn
  BY CuttingStays DEF Stop
<1>2. Moves(cycles, cycles') /\ plan' \in {0} \cup Cycles
  BY StayingMoves DEF Stop, work, Desk
<1>3. UNCHANGED lock /\ SameTalk
  BY DEF Stop, SameTalk, run, chat
<1>. QED
  BY <1>1, <1>2, <1>3, DeskMoves, TalkStays

(* A resume starts at most one cycle.                                       *)
LEMMA ResumingMoves ==
  ASSUME RunType, Desk, NEW cs, Seats(cs), Room(cs, 1), Resumes(cs, plan)
  PROVE  Moves(cs, cycles') /\ plan' \in {0} \cup Cycles
<1>1. plan \in {0} \cup Cycles
  BY DEF Desk
<1>2. CASE cycles' = cs /\ plan' = plan
  BY <1>1, <1>2, StayingMoves
<1>3. CASE /\ recovery.state = "parked" /\ plan' = plan
           /\ cycles' = [cs EXCEPT ![Slot(cs)] =
                [NoCycle EXCEPT !.kind = "recovery", !.pc = "claimed",
                                !.epoch = epoch, !.mode = recovery.mode]]
  <2>. DEFINE r == [NoCycle EXCEPT !.kind = "recovery", !.pc = "claimed",
                                   !.epoch = epoch, !.mode = recovery.mode]
  <2>1. epoch \in Nat /\ recovery.mode \in Modes
    BY DEF RunType, Recoveries
  <2>2. r \in CycleRecords /\ r.kind # "none" /\ r.pc # "interrupt"
    BY <2>1 DEF NoCycle, CycleRecords, Kinds, Modes, Reports
  <2>3. cycles' = [cs EXCEPT ![Slot(cs)] = r]
    BY <1>3
  <2>. HIDE DEF r
  <2>4. Moves(cs, cycles')
    BY <2>2, <2>3, StartingMoves
  <2>. QED
    BY <1>1, <1>3, <2>4
<1>4. CASE /\ cycles' = [cs EXCEPT ![Slot(cs)] = Waiting("resume", plan)]
           /\ plan' = Slot(cs)
  <2>1. /\ Waiting("resume", plan) \in CycleRecords
        /\ Waiting("resume", plan).kind = "resume"
        /\ Waiting("resume", plan).pc = "wait"
    BY <1>1, WaitingType DEF Kinds
  <2>. QED
    BY <1>4, <2>1, StartingMoves
<1>. QED
  BY <1>2, <1>3, <1>4 DEF Resumes

\* A press of Resume takes a free slot and leaves lock, turn and messages
\* alone.
LEMMA ResumeKeeps ==
  ASSUME RunType, Desk, Talk, Resume
  PROVE  Desk' /\ Talk'
<1>1. Seats(cycles) /\ Room(cycles, 2) /\ Resumes(cycles, plan)
  BY DEF Desk, Resume
<1>2. Room(cycles, 1)
  <2>1. Live(cycles, "none") \subseteq Cycles /\ IsFiniteSet(Cycles)
    BY ManagerTurnsAssumption, FS_Interval DEF Live, Cycles
  <2>2. Cardinality(Live(cycles, "none")) \in Nat
    BY <2>1, FS_Subset, FS_CardinalityType
  <2>. QED
    BY <1>1, <2>2 DEF Room
<1>3. Moves(cycles, cycles') /\ plan' \in {0} \cup Cycles
  BY <1>1, <1>2, ResumingMoves
<1>4. UNCHANGED <<lock, turn>> /\ SameTalk
  BY DEF Resume, SameTalk, chat
<1>. QED
  BY <1>3, <1>4, CyclesStep

\* What a Stop's sweep makes of a message: the state it is left in is one, and
\* what was with a live call, or waited, is of the new epoch.
LEMMA CarriedType ==
  ASSUME NEW m \in MessageRecords, NEW e \in Nat, NEW swept
  PROVE  /\ Carried(m, e, swept) \in MessageRecords
         /\ Carried(m, e, swept).state = "unsent" => m.state = "unsent"
<1>1. CASE m.owner \in swept /\ m.state \in {"queued", "submitted"}
  <2>. DEFINE b == m.again \/ m.state = "submitted"
  <2>1. b \in BOOLEAN
    BY DEF MessageRecords
  <2>2. Carried(m, e, swept) = [m EXCEPT !.state = "queued", !.epoch = e + 1,
                                         !.owner = 0, !.again = b]
    BY <1>1 DEF Carried
  <2>. HIDE DEF b
  <2>3. /\ Carried(m, e, swept).state = "queued"
        /\ Carried(m, e, swept).again = b
    BY <2>2 DEF MessageRecords
  <2>4. e + 1 \in Nat
    OBVIOUS
  <2>5. Carried(m, e, swept) \in MessageRecords
    <3>. DEFINE n == [m EXCEPT !.state = "queued", !.epoch = e + 1, !.owner = 0]
    <3>1. n \in MessageRecords
      BY <2>4 DEF MessageRecords
    <3>2. Carried(m, e, swept) = [n EXCEPT !.again = b]
      BY <2>2 DEF MessageRecords
    <3>. HIDE DEF n
    <3>. QED
      BY <2>1, <3>1, <3>2 DEF MessageRecords
  <2>. QED
    BY <2>3, <2>5
<1>2. CASE ~(m.owner \in swept /\ m.state \in {"queued", "submitted"})
  BY <1>2 DEF Carried, MessageRecords
<1>. QED
  BY <1>1, <1>2

(* A Stop's commit ends every live call and gives its input, and all that   *)
(* waits, to the new epoch, in which the turn under way is not current.     *)
LEMMA StopLandsKeeps ==
  ASSUME RunType, Desk, Talk, NEW s \in stopping, StopLands(s)
  PROVE  Desk' /\ Talk'
<1>1. SameTurn /\ Moves(cycles, cycles') /\ plan' \in {0} \cup Cycles /\ UNCHANGED lock
  BY StayingMoves DEF StopLands, Desk, SameTurn
<1>2. Desk'
  BY <1>1, DeskMoves
<1>3. CASE s.epoch # epoch
  <2>1. SameTalk
    BY <1>3 DEF StopLands, SameTalk, run, chat
  <2>. QED
    BY <1>1, <1>2, <2>1, TalkStays
<1>4. CASE s.epoch = epoch
  <2>. DEFINE swept == {c \in DOMAIN calls : calls[c].state = "started"}
  <2>1. /\ epoch' = epoch + 1 /\ epoch \in Nat /\ UNCHANGED turn
        /\ calls' = [c \in DOMAIN calls |->
             IF c \in swept THEN [calls[c] EXCEPT !.state = "failed"] ELSE calls[c]]
        /\ msgs' = [m \in Messages |-> Carried(msgs[m], epoch, swept)]
    BY <1>4 DEF StopLands, RunType
  <2>2. calls \in Seq(CallRecords) /\ msgs \in [Messages -> MessageRecords]
    BY DEF Talk
  <2>3. /\ calls' \in Seq(CallRecords) /\ DOMAIN calls' = DOMAIN calls
        /\ \A c \in DOMAIN calls :
             /\ calls'[c].state # "started" /\ calls'[c].epoch = calls[c].epoch
             /\ calls'[c].input = calls[c].input
             /\ calls'[c].accepted = calls[c].accepted
    <3>1. ASSUME NEW c \in DOMAIN calls
          PROVE  /\ calls'[c] \in CallRecords
                 /\ calls'[c].state # "started" /\ calls'[c].epoch = calls[c].epoch
                 /\ calls'[c].input = calls[c].input
                 /\ calls'[c].accepted = calls[c].accepted
      <4>1. calls[c] \in CallRecords
        BY <2>2
      <4>2. CASE c \in swept
        BY <2>1, <4>1, <4>2 DEF CallRecords
      <4>3. CASE c \notin swept
        BY <2>1, <4>1, <4>3
      <4>. QED
        BY <4>2, <4>3
    <3>2. DOMAIN calls = 1..Len(calls) /\ Len(calls) \in Nat
      BY <2>2, LenProperties
    <3>3. calls' = [c \in 1..Len(calls) |-> calls'[c]]
      BY <2>1, <3>2
    <3>4. \A c \in 1..Len(calls) : calls'[c] \in CallRecords
      BY <3>1, <3>2
    <3>5. calls' \in Seq(CallRecords)
      BY <3>2, <3>3, <3>4, IsASeq
    <3>. QED
      BY <2>1, <3>1, <3>5
  <2>4. 0 \notin swept
    BY <2>2
  <2>5. ASSUME NEW m \in Messages
        PROVE  /\ msgs'[m] \in MessageRecords
               /\ msgs'[m].state = "unsent" => msgs[m].state = "unsent"
               /\ \/ /\ msgs'[m].epoch = epoch + 1
                     /\ msgs'[m].owner = 0
                     /\ msgs'[m].state = "queued" 
                     /\ msgs'[m].again \/ (msgs[m].state = "queued" /\ ~msgs[m].again)
                  \/ ~Waits(m) /\ msgs'[m] = msgs[m]
    <3>1. msgs[m] \in MessageRecords /\ msgs'[m] = Carried(msgs[m], epoch, swept)
      BY <2>1, <2>2
    <3>2. /\ msgs'[m] \in MessageRecords
          /\ msgs'[m].state = "unsent" => msgs[m].state = "unsent"
      BY <2>1, <3>1, CarriedType
    <3>3. CASE msgs[m].owner \in swept /\ msgs[m].state \in {"queued", "submitted"}
      BY <3>1, <3>2, <3>3 DEF Carried, MessageRecords
    <3>4. CASE ~(msgs[m].owner \in swept /\ msgs[m].state \in {"queued", "submitted"})
      <4>1. CASE Waits(m)
        <5>1. msgs[m].epoch = epoch
          BY <4>1 DEF Talk, InputIsInEpoch
        <5>. QED
          BY <3>1, <3>2, <3>4, <4>1, <5>1 DEF Carried, MessageRecords, Waits
      <4>2. CASE ~Waits(m)
        BY <3>1, <3>2, <3>4, <4>2 DEF Carried, Waits
      <4>. QED
        BY <4>1, <4>2
    <3>. QED
      BY <3>3, <3>4
  <2>. HIDE DEF swept
  <2>6. msgs' \in [Messages -> MessageRecords]
    BY <2>1, <2>5
  <2>7. turn.epoch \in Nat /\ turn.epoch <= epoch
    BY DEF Desk, TurnRecords, Talk, LiveCallIsTurns
  <2>8. LiveCallIsTurns'
    BY <2>1, <2>3, <2>7 DEF Talk, LiveCallIsTurns
  <2>9. InputIsInEpoch'
    <3>. SUFFICES ASSUME NEW m \in Messages
         PROVE  /\ Held(m)' => /\ msgs'[m].owner \in DOMAIN calls'
                               /\ msgs'[m].epoch = calls'[msgs'[m].owner].epoch
                /\ Waits(m)' => msgs'[m].epoch = epoch'
      BY DEF InputIsInEpoch
    <3>. QED
      BY <2>1, <2>3, <2>5 DEF Talk, InputIsInEpoch, Held, Waits
  <2>10. ~Prompting'
    BY <2>1, <2>7 DEF Prompting, Current
  <2>11. InputIsKept'
    <3>. SUFFICES ASSUME NEW m \in Messages, NEW c \in DOMAIN calls, m \in calls[c].input
         PROVE  /\ msgs'[m].state # "unsent"
                /\ calls[c].accepted = "yes" =>
                     msgs'[m].again \/ msgs'[m].state \in {"submitted", "acknowledged", "removed"}
      BY <2>3, <2>10 DEF InputIsKept
    <3>1. /\ msgs[m].state # "unsent"
          /\ calls[c].accepted = "yes" =>
               msgs[m].again \/ msgs[m].state \in {"submitted", "acknowledged", "removed"}
      BY DEF Talk, InputIsKept
    <3>. QED
      BY <2>5, <3>1
  <2>. QED
    BY <1>2, <2>3, <2>6, <2>8, <2>9, <2>11 DEF Talk
<1>. QED
  BY <1>3, <1>4

-----------------------------------------------------------------------------
(* The cycles' steps.                                                       *)

(* A cycle that has nothing to do ends.                                     *)
LEMMA IdlingKeeps ==
  ASSUME Desk, Talk, SameTalk, NEW d \in Cycles, cycles[d].pc = "wait", Idles(d)
  PROVE  Desk' /\ Talk'
<1>1. Seats(cycles) /\ cycles[d].pc # "turn" /\ plan \in {0} \cup Cycles
  BY DEF Desk
<1>2. Moves(cycles, cycles') /\ plan' \in {0} \cup Cycles
  BY <1>1, FreeingMoves DEF Idles, Ends
<1>3. UNCHANGED <<lock, turn>>
  BY DEF Idles
<1>. QED
  BY <1>2, <1>3, CyclesStep

(* A cycle whose wait is over asks for its turn or ends.                    *)
LEMMA DecidingKeeps ==
  ASSUME RunType, Desk, Talk, SameTalk, NEW d \in Cycles,
         PlanDecides(d) \/ ResumeDecides(d) \/ FollowupDecides(d)
  PROVE  Desk' /\ Talk'
<1>1. cycles[d].pc = "wait" /\ cycles[d].mode \in Modes /\ "chat" \in Modes
  BY DEF PlanDecides, ResumeDecides, FollowupDecides, MayGo, Desk, Seats,
         CycleRecords, Modes
<1>2. CASE Idles(d)
  BY <1>1, <1>2, IdlingKeeps
<1>3. CASE (\E mode \in Modes : Asks(d, mode)) /\ UNCHANGED plan
  <2>1. PICK mode \in Modes : Asks(d, mode)
    BY <1>3
  <2>2. plan' \in {0} \cup Cycles
    BY <1>3 DEF Desk
  <2>. QED
    BY <1>1, <2>1, <2>2, AskingKeeps
<1>. QED
  BY <1>1, <1>2, <1>3 DEF PlanDecides, ResumeDecides, FollowupDecides

(* A claimed recovery asks for its turn or is parked again.                 *)
LEMMA RecoveryDecidesKeeps ==
  ASSUME RunType, Desk, Talk, SameTalk, NEW d \in Cycles, RecoveryDecides(d)
  PROVE  Desk' /\ Talk'
<1>1. cycles[d].pc = "claimed" /\ cycles[d].mode \in Modes /\ Seats(cycles)
  BY DEF RecoveryDecides, Desk, Seats, CycleRecords, Modes
<1>2. plan' \in {0} \cup Cycles
  BY DEF RecoveryDecides, Desk
<1>3. CASE Asks(d, cycles[d].mode)
  BY <1>1, <1>2, <1>3, AskingKeeps
<1>4. CASE cycles' = [cycles EXCEPT ![d].pc = "repark"] /\ UNCHANGED <<lock, turn>>
  <2>1. Moves(cycles, cycles')
    BY <1>1, <1>4, SteppingMoves
  <2>. QED
    BY <1>2, <1>4, <2>1, CyclesStep
<1>. QED
  BY <1>3, <1>4 DEF RecoveryDecides

(* A message's resume goes to resumeRun or ends.                            *)
LEMMA AutoresumeDecidesKeeps ==
  ASSUME RunType, Desk, Talk, SameTalk, NEW d \in Cycles, AutoresumeDecides(d)
  PROVE  Desk' /\ Talk'
<1>1. cycles[d].pc = "wait" /\ Seats(cycles)
  BY DEF AutoresumeDecides, MayGo, Desk
<1>2. CASE Idles(d)
  BY <1>1, <1>2, IdlingKeeps
<1>3. CASE Turns(d, "resume") /\ UNCHANGED <<lock, turn>>
  <2>1. Moves(cycles, cycles') /\ plan' \in {0} \cup Cycles
    BY <1>1, <1>3, SteppingMoves DEF Turns, Desk
  <2>. QED
    BY <1>3, <2>1, CyclesStep
<1>. QED
  BY <1>2, <1>3 DEF AutoresumeDecides

(* The interrupt is out, and its cycle waits like any other.                *)
LEMMA InterruptKeeps ==
  ASSUME RunType, Desk, Talk, SameTalk, NEW d \in Cycles, Interrupt(d)
  PROVE  Desk' /\ Talk'
<1>1. SameTurn
  BY CuttingStays DEF Interrupt
<1>2. Seats(cycles) /\ plan \in {0} \cup Cycles /\ cycles[d].pc # "turn"
  BY DEF Desk, Interrupt
<1>. DEFINE w == Waiting("flush", plan)
            r == [w EXCEPT !.epoch = cycles[d].epoch]
<1>3. w \in CycleRecords /\ w.kind = "flush" /\ w.pc = "wait"
  BY <1>2, WaitingType DEF Kinds
<1>4. cycles[d].epoch \in Nat
  BY <1>2 DEF Seats, CycleRecords
<1>5. cycles' = [cycles EXCEPT ![d] = r]
  BY DEF Interrupt
<1>. HIDE DEF w
<1>6. r \in CycleRecords /\ r.kind # "none" /\ r.pc # "interrupt"
  BY <1>3, <1>4 DEF CycleRecords
<1>. HIDE DEF r
<1>7. Moves(cycles, cycles')
  BY <1>2, <1>5, <1>6, PuttingMoves
<1>8. UNCHANGED <<lock, plan>>
  BY DEF Interrupt
<1>. QED
  BY <1>1, <1>2, <1>7, <1>8, DeskMoves, TalkStays

(* A Send now ends, resumes the run or leaves a follow-up.                  *)
LEMMA FlushDecidesKeeps ==
  ASSUME RunType, Desk, Talk, SameTalk, NEW d \in Cycles, FlushDecides(d)
  PROVE  Desk' /\ Talk'
<1>1. /\ cycles[d].pc = "wait" /\ Seats(cycles) /\ plan \in {0} \cup Cycles
      /\ UNCHANGED <<lock, turn, plan>>
  BY DEF FlushDecides, MayGo, Desk
<1>2. Moves(cycles, Freed(cycles, d)) /\ Room(Freed(cycles, d), 1)
  BY <1>1, FreeingMoves
<1>3. Seats(Freed(cycles, d))
  BY <1>2 DEF Moves
<1>4. Moves(Freed(cycles, d), FollowedUp(Freed(cycles, d), plan, msgs, TRUE))
  BY <1>1, <1>2, <1>3, FollowingMoves
<1>5. Moves(cycles, FollowedUp(Freed(cycles, d), plan, msgs, TRUE))
  BY <1>2, <1>4, MovesFollow
<1>6. Moves(cycles, [cycles EXCEPT ![d].pc = "resume"])
  BY <1>1, SteppingMoves
<1>7. Moves(cycles, cycles')
  BY <1>2, <1>5, <1>6 DEF FlushDecides
<1>. QED
  BY <1>1, <1>7, CyclesStep

(* The lock came free: a turn begins, or the cycle has it back at once.     *)
LEMMA LetInKeeps ==
  ASSUME RunType, Desk, Talk, SameTalk, NEW d \in Cycles, LetIn(d)
  PROVE  Desk' /\ Talk'
<1>1. /\ lock # <<>> /\ d = Holder /\ cycles[d].pc = "ask" /\ UNCHANGED plan
      /\ Seats(cycles)
  BY DEF LetIn, Desk
<1>2. turn.pc = "idle"
  BY <1>1 DEF Desk, TurnIsHolders
<1>3. \A c \in DOMAIN calls : calls[c].state # "started"
  BY <1>2, NoneIsLive DEF Calling
<1>4. CASE Returns("run")
  <2>1. Desk' /\ turn'.pc = "idle" /\ turn'.epoch = 0
    <3>1. plan' \in {0} \cup Cycles /\ Returned(cycles, "run")
      BY <1>1, <1>4 DEF Desk, Returns
    <3>. QED
      BY <1>1, <3>1, ReturningKeepsDesk
  <2>2. Talk'
    BY <1>3, <2>1, TalkRests DEF Calling
  <2>. QED
    BY <2>1, <2>2
<1>5. CASE /\ turn' = TurnOf(d, cycles[d].mode)
           /\ cycles' = [cycles EXCEPT ![d].pc = "turn"]
           /\ UNCHANGED lock
  <2>1. cycles[d] \in CycleRecords /\ cycles[d].kind # "none" /\ cycles[d].mode \in Modes
    BY <1>1 DEF Seats, CycleRecords
  <2>2. turn' \in TurnRecords /\ turn'.pc = "account" /\ turn'.epoch = 0
    BY <1>5, <2>1, TurnType
  <2>3. Talk'
    BY <1>3, <2>2, TalkRests DEF Calling
  <2>. DEFINE r == [cycles[d] EXCEPT !.pc = "turn"]
  <2>4. r \in CycleRecords /\ r.kind # "none" /\ r.pc = "turn"
    BY <2>1 DEF CycleRecords
  <2>5. cycles' = [cycles EXCEPT ![d] = r]
    BY <1>5
  <2>. HIDE DEF r
  <2>6. Moves(cycles, cycles') /\ cycles'[d].pc = "turn"
    BY <1>1, <2>4, <2>5, PuttingMoves DEF Seats
  <2>7. Seats(cycles)'
    BY <2>6 DEF Moves, Seats
  <2>8. Desk'
    BY <1>1, <1>5, <2>2, <2>6, <2>7
    DEF Desk, TurnIsHolders, InterruptIsForTurn, Holder
  <2>. QED
    BY <2>3, <2>8
<1>. QED
  BY <1>4, <1>5 DEF LetIn

\* A cycle whose turn came back goes on or ends; so does one whose commit lands.
LEMMA BackKeeps ==
  ASSUME RunType, Desk, Talk, SameTalk, UNCHANGED <<lock, turn>>, NEW d \in Cycles,
         \/ BackWithRun(d) \/ BackWithout(d) \/ ResumeBack(d)
         \/ Question(d) \/ Mark(d) \/ Repark(d)
  PROVE  Desk' /\ Talk'
<1>1. cycles[d].pc \notin {"turn", "free"} /\ Seats(cycles)
  BY DEF BackWithRun, BackWithout, ResumeBack, Question, Mark, Repark, Desk
<1>2. CASE Done(d)
  BY <1>1, <1>2, EndingMoves, CyclesStep
<1>3. CASE \E pc \in {"hop", "repark", "finish", "question", "mark"} : Turns(d, pc)
  <2>1. PICK pc \in {"hop", "repark", "finish", "question", "mark"} : Turns(d, pc)
    BY <1>3
  <2>2. Moves(cycles, cycles') /\ plan' \in {0} \cup Cycles
    BY <1>1, <2>1, SteppingMoves DEF Turns, Desk
  <2>. QED
    BY <2>2, CyclesStep
<1>. QED
  BY <1>2, <1>3 DEF BackWithRun, BackWithout, ResumeBack, Question, Mark, Repark

(* startAutopilot leaves a planning cycle and ends, or goes on to repark.   *)
LEMMA HopKeeps ==
  ASSUME RunType, Desk, Talk, SameTalk, UNCHANGED <<lock, turn>>, NEW d \in Cycles,
         Hop(d)
  PROVE  Desk' /\ Talk'
<1>. DEFINE cs == Planned(cycles, plan, "plan_analysis", FALSE)
            p  == PlanAfter(cycles, plan, FALSE)
<1>1. /\ cycles[d].pc = "hop" /\ (plan = 0 => Room(cycles, 1))
      /\ Seats(cycles) /\ plan \in {0} \cup Cycles
  BY DEF Hop, Desk
<1>2. Moves(cycles, cs) /\ p \in {0} \cup Cycles /\ cs[d] = cycles[d]
  BY <1>1, PlanningMoves DEF Modes
<1>3. IF cycles[d].kind = "recovery"
      THEN cycles' = [cs EXCEPT ![d].pc = "repark"] /\ plan' = p
      ELSE Ends(cs, p, d)
  BY DEF Hop
<1>. HIDE DEF cs, p
<1>4. Seats(cs) /\ cs[d].pc \notin {"turn", "free"}
  BY <1>1, <1>2 DEF Moves
<1>5. Moves(cs, cycles') /\ plan' \in {0} \cup Cycles
  <2>1. CASE cycles[d].kind = "recovery"
    <3>1. cycles' = [cs EXCEPT ![d].pc = "repark"] /\ plan' = p
      BY <1>3, <2>1
    <3>2. Moves(cs, [cs EXCEPT ![d].pc = "repark"])
      BY <1>4, SteppingMoves
    <3>. QED
      BY <1>2, <3>1, <3>2
  <2>2. CASE cycles[d].kind # "recovery"
    BY <1>2, <1>3, <1>4, <2>2, FreeingMoves DEF Ends
  <2>. QED
    BY <2>1, <2>2
<1>6. Moves(cycles, cycles')
  BY <1>2, <1>5, MovesFollow
<1>. QED
  BY <1>5, <1>6, CyclesStep

(* A resume whose turn settled nothing leaves a planning cycle.             *)
LEMMA FinishResumeKeeps ==
  ASSUME RunType, Desk, Talk, SameTalk, UNCHANGED <<lock, turn>>, NEW d \in Cycles,
         FinishResume(d)
  PROVE  Desk' /\ Talk'
<1>. DEFINE cs == Planned(cycles, plan, "plan_analysis", TRUE)
            p  == PlanAfter(cycles, plan, TRUE)
<1>1. /\ cycles[d].pc = "finish" /\ Room(cycles, 1)
      /\ Seats(cycles) /\ plan \in {0} \cup Cycles
  BY DEF FinishResume, Desk
<1>2. Moves(cycles, cs) /\ p \in {0} \cup Cycles /\ cs[d] = cycles[d]
  BY <1>1, PlanningMoves DEF Modes
<1>3. Ends(cs, p, d)
  BY DEF FinishResume
<1>. HIDE DEF cs, p
<1>4. Seats(cs) /\ cs[d].pc # "turn"
  BY <1>1, <1>2 DEF Moves
<1>5. Moves(cs, cycles') /\ plan' \in {0} \cup Cycles
  BY <1>2, <1>3, <1>4, FreeingMoves DEF Ends
<1>6. Moves(cycles, cycles')
  BY <1>2, <1>5, MovesFollow
<1>. QED
  BY <1>5, <1>6, CyclesStep

(* A cycle that ends in resumeRun frees its slot first.                     *)
LEMMA ResumedKeeps ==
  ASSUME RunType, Desk, Talk, SameTalk, UNCHANGED <<lock, turn>>, NEW d \in Cycles,
         Resumed(d)
  PROVE  Desk' /\ Talk'
<1>1. cycles[d].pc # "turn" /\ Seats(cycles)
  BY DEF Resumed, Desk
<1>2. Moves(cycles, Freed(cycles, d)) /\ Room(Freed(cycles, d), 1)
  BY <1>1, FreeingMoves
<1>3. Seats(Freed(cycles, d))
  BY <1>2 DEF Moves
<1>4. Moves(Freed(cycles, d), cycles') /\ plan' \in {0} \cup Cycles
  BY <1>2, <1>3, ResumingMoves DEF Resumed
<1>5. Moves(cycles, cycles')
  BY <1>2, <1>4, MovesFollow
<1>. QED
  BY <1>4, <1>5, CyclesStep

-----------------------------------------------------------------------------
(* The turn's steps.                                                        *)

\* The desk while the turn goes on under its lock.
LEMMA GoingKeepsDesk ==
  ASSUME Desk, turn.pc # "idle", turn' \in TurnRecords, UNCHANGED <<lock, cycles, plan>>,
         turn'.pc \in {"compose", "startup", "live"} =>
           turn'.call = turn.call /\
           (turn.pc \in {"compose", "startup", "live"} \/
            \A d \in Cycles : cycles[d].pc # "interrupt")
  PROVE  Desk'
<1>1. TurnIsHolders'
  BY TurnHasHolder DEF TurnIsHolders, Holder
<1>2. InterruptIsForTurn'
  BY DEF Desk, InterruptIsForTurn
<1>. QED
  BY <1>1, <1>2 DEF Desk, Seats

\* The desk when the turn returns: its holder is there.
LEMMA EndingKeepsDesk ==
  ASSUME Desk, turn.pc # "idle", UNCHANGED plan,
         NEW result \in {"run", "null", "throw"}, Returns(result)
  PROVE  Desk' /\ turn'.pc = "idle" /\ turn'.epoch = 0
<1>1. lock # <<>> /\ Seats(cycles) /\ cycles[Holder].pc = "turn"
  BY TurnHasHolder
<1>2. plan' \in {0} \cup Cycles /\ Returned(cycles, result)
  BY DEF Desk, Returns
<1>. QED
  BY <1>1, <1>2, ReturningKeepsDesk

(* The turn reads the epoch it belongs to.                                  *)
LEMMA AccountKeeps ==
  ASSUME RunType, Desk, Talk, Account
  PROVE  Desk' /\ Talk'
<1>1. PICK ok \in BOOLEAN :
        turn' = [turn EXCEPT !.pc = "prepare", !.account = ok, !.epoch = epoch]
  BY DEF Account
<1>2. turn.pc = "account" /\ SameTalk /\ UNCHANGED <<lock, cycles, plan>>
  BY DEF Account, At, run, chat, work, SameTalk
<1>3. /\ turn' \in TurnRecords /\ turn'.pc = "prepare" /\ turn'.epoch = epoch
      /\ epoch \in Nat
  BY <1>1 DEF Desk, RunType, TurnRecords
<1>4. Desk'
  BY <1>2, <1>3, GoingKeepsDesk
<1>5. LiveCallIsTurns'
  <2>1. \A c \in DOMAIN calls : calls[c].state # "started"
    BY <1>2, NoneIsLive DEF Calling
  <2>. QED
    BY <1>2, <1>3, <2>1 DEF SameTalk, LiveCallIsTurns, Calling
<1>6. InputIsInEpoch'
  BY <1>2 DEF Talk, SameTalk, InputIsInEpoch, Held, Waits
<1>7. ~Prompting'
  BY <1>3 DEF Prompting
<1>8. InputIsKept'
  BY <1>2, <1>7 DEF Talk, SameTalk, InputIsKept
<1>. QED
  BY <1>2, <1>4, <1>5, <1>6, <1>8 DEF Talk, SameTalk

(* A call is registered: it is the only live one, and owns what waited.     *)
LEMMA PrepareKeeps ==
  ASSUME RunType, Desk, Talk, Prepare
  PROVE  Desk' /\ Talk'
<1>1. turn.pc = "prepare" /\ UNCHANGED <<epoch, plan>>
  BY DEF Prepare, At, run
<1>2. \A c \in DOMAIN calls : calls[c].state # "started"
  BY <1>1, NoneIsLive DEF Calling
<1>3. CASE Returns("throw") /\ UNCHANGED chat
  <2>1. Desk' /\ turn'.pc = "idle" /\ turn'.epoch = 0
    BY <1>1, <1>3, EndingKeepsDesk
  <2>2. SameTalk
    BY <1>1, <1>3 DEF SameTalk, chat
  <2>. QED
    BY <1>2, <2>1, <2>2, TalkRests DEF Calling
<1>4. CASE Current /\ ~(Returns("throw") /\ UNCHANGED chat)
  <2>. DEFINE c == Len(calls) + 1
              r == [epoch |-> epoch, state |-> "started", input |-> Queued,
                    accepted |-> "no"]
  <2>1. /\ calls' = Append(calls, r)
        /\ msgs' = [m \in Messages |->
             IF m \in Queued THEN [msgs[m] EXCEPT !.owner = c] ELSE msgs[m]]
        /\ turn' = [turn EXCEPT !.pc = "launch", !.call = c]
        /\ UNCHANGED <<lock, cycles>>
    BY <1>4 DEF Prepare
  <2>2. calls \in Seq(CallRecords) /\ msgs \in [Messages -> MessageRecords]
    BY DEF Talk
  <2>3. c \in Nat \ {0} /\ c \notin DOMAIN calls
    BY <2>2, LenProperties
  <2>4. /\ r \in CallRecords /\ r.epoch = epoch /\ r.input = Queued
        /\ r.accepted = "no"
    BY DEF RunType, CallRecords, Queued, QueuedIn
  <2>. HIDE DEF r
  <2>5. /\ calls' \in Seq(CallRecords) /\ DOMAIN calls' = DOMAIN calls \cup {c}
        /\ calls'[c] = r /\ \A b \in DOMAIN calls : calls'[b] = calls[b]
    BY <2>1, <2>2, <2>4, AppendProperties
  <2>. HIDE DEF c
  <2>6. /\ turn' \in TurnRecords /\ turn'.pc = "launch" /\ turn'.call = c
        /\ turn'.epoch = epoch
    BY <1>4, <2>1, <2>3 DEF Desk, TurnRecords, Current
  <2>7. Desk'
    BY <1>1, <2>1, <2>6, GoingKeepsDesk
  <2>8. LiveCallIsTurns'
    BY <1>1, <1>2, <2>4, <2>5, <2>6 DEF RunType, LiveCallIsTurns, Calling
  <2>9. ASSUME NEW m \in Messages
        PROVE  /\ msgs'[m] \in MessageRecords
               /\ msgs'[m].state = msgs[m].state /\ msgs'[m].epoch = msgs[m].epoch
               /\ msgs'[m].again = msgs[m].again
               /\ msgs'[m].owner = IF m \in Queued THEN c ELSE msgs[m].owner
    <3>1. msgs[m] \in MessageRecords
      BY <2>2
    <3>2. CASE m \in Queued
      <4>1. msgs'[m] = [msgs[m] EXCEPT !.owner = c]
        BY <2>1, <3>2
      <4>. QED
        BY <2>3, <3>1, <3>2, <4>1 DEF MessageRecords
    <3>3. CASE m \notin Queued
      BY <2>1, <3>1, <3>3
    <3>. QED
      BY <3>2, <3>3
  <2>10. msgs' \in [Messages -> MessageRecords]
    BY <2>1, <2>9
  <2>11. \A m \in Queued : msgs[m].state = "queued" /\ msgs[m].owner = 0
                           /\ msgs[m].epoch = epoch
    BY DEF Queued, QueuedIn
  <2>12. InputIsInEpoch'
    <3>. SUFFICES ASSUME NEW m \in Messages
         PROVE  /\ Held(m)' => /\ msgs'[m].owner \in DOMAIN calls'
                               /\ msgs'[m].epoch = calls'[msgs'[m].owner].epoch
                /\ Waits(m)' => msgs'[m].epoch = epoch'
      BY DEF InputIsInEpoch
    <3>1. CASE m \in Queued
      BY <1>1, <2>3, <2>4, <2>5, <2>9, <2>11, <3>1 DEF Held, Waits
    <3>2. CASE m \notin Queued
      BY <1>1, <2>5, <2>9, <3>2 DEF Talk, InputIsInEpoch, Held, Waits
    <3>. QED
      BY <3>1, <3>2
  <2>13. InputIsKept'
    <3>. SUFFICES ASSUME NEW m \in Messages, NEW b \in DOMAIN calls', m \in calls'[b].input
         PROVE  /\ msgs'[m].state # "unsent"
                /\ b = turn'.call => msgs'[m].owner = b /\ msgs'[m].state = "queued"
                /\ calls'[b].accepted = "yes" =>
                     msgs'[m].again \/ msgs'[m].state \in {"submitted", "acknowledged", "removed"}
      BY DEF InputIsKept
    <3>1. CASE b = c
      BY <2>4, <2>5, <2>6, <2>9, <2>11, <3>1
    <3>2. CASE b # c
      BY <2>5, <2>6, <2>9, <3>2 DEF Talk, InputIsKept
    <3>. QED
      BY <3>1, <3>2
  <2>. QED
    BY <2>5, <2>7, <2>8, <2>10, <2>12, <2>13 DEF Talk
<1>. QED
  BY <1>3, <1>4 DEF Prepare

(* The prompt is composed when no interrupt is pending any more.            *)
LEMMA LaunchKeeps ==
  ASSUME RunType, Desk, Talk, Launch
  PROVE  Desk' /\ Talk'
<1>1. /\ turn.pc = "launch" /\ UNCHANGED <<epoch, plan>> /\ SameTalk
      /\ \A d \in Cycles : cycles[d].pc # "interrupt"
  BY DEF Launch, At, run, chat, SameTalk
<1>2. CASE Current
  <2>1. turn' = [turn EXCEPT !.pc = "compose"] /\ UNCHANGED <<lock, cycles>>
    BY <1>2 DEF Launch, Goes
  <2>2. /\ turn' \in TurnRecords /\ turn'.pc = "compose" /\ turn'.call = turn.call
        /\ turn'.epoch = turn.epoch
    BY <2>1 DEF Desk, TurnRecords
  <2>3. Desk'
    BY <1>1, <2>1, <2>2, GoingKeepsDesk
  <2>4. LiveCallIsTurns'
    BY <1>1, <2>2 DEF Talk, SameTalk, LiveCallIsTurns, Calling
  <2>5. InputIsInEpoch'
    BY <1>1 DEF Talk, SameTalk, InputIsInEpoch, Held, Waits
  <2>6. Prompting' => Prompting
    BY <1>1, <1>2 DEF Prompting
  <2>7. InputIsKept'
    BY <1>1, <2>2, <2>6 DEF Talk, SameTalk, InputIsKept
  <2>. QED
    BY <1>1, <2>3, <2>4, <2>5, <2>7 DEF Talk, SameTalk
<1>3. CASE ~Current
  <2>1. Desk' /\ turn'.pc = "idle" /\ turn'.epoch = 0
    BY <1>1, <1>3, EndingKeepsDesk DEF Launch
  <2>2. \A c \in DOMAIN calls : calls[c].state # "started"
    BY <1>3, NoneIsLive
  <2>. QED
    BY <1>1, <2>1, <2>2, TalkRests DEF Calling
<1>. QED
  BY <1>2, <1>3

(* Writing a field of the turn's call.                                      *)
LEMMA CallWritten ==
  ASSUME Talk, NEW c \in DOMAIN calls, NEW r \in CallRecords,
         calls' = [calls EXCEPT ![c] = r]
  PROVE  /\ calls' \in Seq(CallRecords) /\ DOMAIN calls' = DOMAIN calls
         /\ calls'[c] = r /\ \A b \in DOMAIN calls : b # c => calls'[b] = calls[b]
<1>1. calls \in Seq(CallRecords)
  BY DEF Talk
<1>. QED
  BY <1>1, ExceptSeq

\* The talk when the turn goes on past its prompt and no message changes.
LEMMA GoingKeepsTalk ==
  ASSUME Talk, UNCHANGED <<epoch, msgs, calls>>,
         turn.pc \in Calling, turn'.pc \in {"startup", "live", "apply", "settle"},
         turn'.call = turn.call, turn'.epoch = turn.epoch,
         turn'.pc = "startup" => turn.pc = "compose"
  PROVE  Talk'
<1>1. LiveCallIsTurns'
  BY DEF Talk, LiveCallIsTurns, Calling
<1>2. InputIsInEpoch'
  BY DEF Talk, InputIsInEpoch, Held, Waits
<1>3. Prompting' => Prompting
  BY DEF Prompting, Current
<1>4. InputIsKept'
  BY <1>3 DEF Talk, InputIsKept
<1>. QED
  BY <1>1, <1>2, <1>4 DEF Talk

(* The turn is over for the provider: it goes back to its cycle, its call   *)
(* settles, or its answer is applied.                                       *)
LEMMA ResultsKeep ==
  ASSUME RunType, Desk, Talk, turn.pc \in {"compose", "startup", "live"},
         UNCHANGED <<epoch, msgs, plan>>,
         NEW result \in {"startup", "failed", "aborted", "answered"}, Results(result)
  PROVE  Desk' /\ Talk'
<1>1. turn \in TurnRecords /\ turn.pc \in Calling /\ turn.call \in DOMAIN calls
  BY DEF Desk, Talk, LiveCallIsTurns, Calling
<1>2. CASE ~Current
  <2>1. Desk' /\ turn'.pc = "idle" /\ turn'.epoch = 0 /\ SameTalk
    <3>1. Returns("run") /\ UNCHANGED calls
      BY <1>2 DEF Results
    <3>. QED
      BY <3>1, EndingKeepsDesk DEF SameTalk
  <2>2. \A c \in DOMAIN calls : calls[c].state # "started"
    BY <1>2, NoneIsLive
  <2>. QED
    BY <2>1, <2>2, TalkRests DEF Calling
<1>3. CASE Current /\ result = "answered"
  <2>1. turn' = [turn EXCEPT !.pc = "apply"] /\ UNCHANGED <<calls, lock, cycles>>
    BY <1>3 DEF Results, Goes
  <2>2. /\ turn' \in TurnRecords /\ turn'.pc = "apply" /\ turn'.call = turn.call
        /\ turn'.epoch = turn.epoch
    BY <1>1, <2>1 DEF TurnRecords
  <2>3. Desk'
    BY <2>1, <2>2, GoingKeepsDesk
  <2>. QED
    BY <1>1, <2>1, <2>2, <2>3, GoingKeepsTalk
<1>4. CASE Current /\ result # "answered"
  <2>. DEFINE k == result = "aborted" /\ turn.marked
              s == IF result = "aborted" THEN "completed" ELSE "failed"
              r == [calls[turn.call] EXCEPT !.state = s]
  <2>1. /\ turn' = [turn EXCEPT !.pc = "release", !.result = result, !.kept = k]
        /\ calls' = [calls EXCEPT ![turn.call].state = s]
        /\ UNCHANGED <<lock, cycles>>
    BY <1>4 DEF Results
  <2>2. k \in BOOLEAN
    BY <1>1 DEF TurnRecords
  <2>. HIDE DEF k
  <2>3. /\ turn' \in TurnRecords /\ turn'.pc = "release" /\ turn'.call = turn.call
        /\ turn'.epoch = turn.epoch
    <3>. DEFINE t == [turn EXCEPT !.pc = "release", !.result = result]
    <3>1. /\ t \in TurnRecords /\ t.pc = "release" /\ t.call = turn.call
          /\ t.epoch = turn.epoch
      BY <1>1, <1>4 DEF TurnRecords
    <3>2. turn' = [t EXCEPT !.kept = k]
      BY <1>1, <2>1 DEF TurnRecords
    <3>. HIDE DEF t
    <3>. QED
      BY <2>2, <3>1, <3>2 DEF TurnRecords
  <2>4. Desk'
    BY <2>1, <2>3, GoingKeepsDesk
  <2>5. calls[turn.call] \in CallRecords
    BY <1>1 DEF Talk
  <2>6. /\ r \in CallRecords /\ r.state # "started" /\ r.input = calls[turn.call].input
        /\ r.epoch = calls[turn.call].epoch /\ r.accepted = calls[turn.call].accepted
    BY <2>5 DEF CallRecords
  <2>7. calls' = [calls EXCEPT ![turn.call] = r]
    BY <2>1
  <2>. HIDE DEF r
  <2>8. /\ calls' \in Seq(CallRecords) /\ DOMAIN calls' = DOMAIN calls
        /\ \A b \in DOMAIN calls :
             /\ calls'[b].input = calls[b].input /\ calls'[b].epoch = calls[b].epoch
             /\ calls'[b].accepted = calls[b].accepted
             /\ calls'[b].state = "started" => calls[b].state = "started" /\ b # turn.call
    BY <1>1, <2>6, <2>7, CallWritten
  <2>9. LiveCallIsTurns'
    BY <1>1, <2>3, <2>8 DEF Talk, LiveCallIsTurns
  <2>10. InputIsInEpoch'
    BY <2>8 DEF Talk, InputIsInEpoch, Held, Waits
  <2>11. ~Prompting'
    BY <2>3 DEF Prompting
  <2>12. InputIsKept'
    BY <2>8, <2>11 DEF Talk, InputIsKept
  <2>. QED
    BY <2>4, <2>8, <2>9, <2>10, <2>12 DEF Talk
<1>. QED
  BY <1>2, <1>3, <1>4

(* The session starts, unless there was no account.                         *)
LEMMA ComposeKeeps ==
  ASSUME RunType, Desk, Talk, Compose
  PROVE  Desk' /\ Talk'
<1>1. turn.pc = "compose" /\ UNCHANGED <<epoch, msgs, plan>>
  BY DEF Compose, At, run
<1>2. CASE turn.account
  <2>1. turn' = [turn EXCEPT !.pc = "startup"] /\ UNCHANGED <<calls, lock, cycles>>
    BY <1>2 DEF Compose, Goes
  <2>2. /\ turn' \in TurnRecords /\ turn'.pc = "startup" /\ turn'.call = turn.call
        /\ turn'.epoch = turn.epoch
    BY <2>1 DEF Desk, TurnRecords
  <2>3. Desk'
    BY <1>1, <2>1, <2>2, GoingKeepsDesk
  <2>. QED
    BY <1>1, <2>1, <2>2, <2>3, GoingKeepsTalk DEF Calling
<1>3. CASE ~turn.account
  BY <1>1, <1>3, ResultsKeep DEF Compose
<1>. QED
  BY <1>2, <1>3

\* What becomes of a message when the input of the turn's call is delivered:
\* only its state changes, and only while the turn is current.
LEMMA DeliveredInput ==
  ASSUME Talk, NEW states \in SUBSET {"queued", "submitted"},
         NEW state \in {"submitted", "acknowledged"}, Delivered(states, state)
  PROVE  /\ msgs' \in [Messages -> MessageRecords]
         /\ \A m \in Messages :
              /\ msgs'[m].epoch = msgs[m].epoch /\ msgs'[m].owner = msgs[m].owner
              /\ msgs'[m].again = msgs[m].again
              /\ msgs'[m].state = IF Current /\ m \in OwnedIn(states) THEN state
                                  ELSE msgs[m].state
<1>1. ASSUME NEW m \in Messages
      PROVE  /\ msgs'[m] \in MessageRecords
             /\ msgs'[m].epoch = msgs[m].epoch /\ msgs'[m].owner = msgs[m].owner
             /\ msgs'[m].again = msgs[m].again
             /\ msgs'[m].state = IF Current /\ m \in OwnedIn(states) THEN state
                                 ELSE msgs[m].state
  <2>1. msgs[m] \in MessageRecords
    BY DEF Talk
  <2>2. CASE Current /\ m \in OwnedIn(states)
    <3>1. msgs'[m] = [msgs[m] EXCEPT !.state = state]
      BY <2>2 DEF Delivered
    <3>. QED
      BY <2>1, <2>2, <3>1 DEF MessageRecords
  <2>3. CASE ~(Current /\ m \in OwnedIn(states))
    <3>1. msgs'[m] = msgs[m]
      BY <2>3 DEF Delivered
    <3>. QED
      BY <2>1, <2>3, <3>1
  <2>. QED
    BY <2>2, <2>3
<1>2. msgs' = [m \in Messages |-> msgs'[m]]
  BY DEF Delivered
<1>. QED
  BY <1>1, <1>2

(* The prompt is accepted: what the call carried is submitted with it.      *)
LEMMA AcceptsKeep ==
  ASSUME RunType, Desk, Talk, turn.pc = "startup", UNCHANGED <<epoch, plan>>, Accepts
  PROVE  Desk' /\ Talk'
<1>. DEFINE stop == Wants(request) /\ Current
            a == IF Current THEN "yes" ELSE "late"
            r == [calls[turn.call] EXCEPT !.accepted = a]
<1>1. turn \in TurnRecords /\ turn.call \in DOMAIN calls /\ turn.pc \in Calling
  BY DEF Desk, Talk, LiveCallIsTurns, Calling
<1>2. /\ turn' = [turn EXCEPT !.pc = "live", !.marked = stop, !.cut = stop]
      /\ calls' = [calls EXCEPT ![turn.call].accepted = a]
      /\ Delivered({"queued"}, "submitted") /\ UNCHANGED <<lock, cycles>>
  BY DEF Accepts
<1>3. stop \in BOOLEAN
  BY DEF Wants, Current
<1>. HIDE DEF stop
<1>4. /\ turn' \in TurnRecords /\ turn'.pc = "live" /\ turn'.call = turn.call
      /\ turn'.epoch = turn.epoch
  BY <1>1, <1>2, <1>3 DEF TurnRecords
<1>5. Desk'
  BY <1>2, <1>4, GoingKeepsDesk
<1>6. /\ r \in CallRecords /\ r.state = calls[turn.call].state
      /\ r.epoch = calls[turn.call].epoch /\ r.input = calls[turn.call].input
      /\ r.accepted = a
  <2>1. calls[turn.call] \in CallRecords
    BY <1>1 DEF Talk
  <2>. QED
    BY <2>1 DEF CallRecords
<1>7. calls' = [calls EXCEPT ![turn.call] = r]
  BY <1>2
<1>. HIDE DEF r
<1>8. /\ calls' \in Seq(CallRecords) /\ DOMAIN calls' = DOMAIN calls
      /\ \A b \in DOMAIN calls :
           /\ calls'[b].state = calls[b].state /\ calls'[b].epoch = calls[b].epoch
           /\ calls'[b].input = calls[b].input
           /\ calls'[b].accepted = IF b = turn.call THEN a ELSE calls[b].accepted
  BY <1>1, <1>6, <1>7, CallWritten
<1>9. /\ msgs' \in [Messages -> MessageRecords]
      /\ \A m \in Messages :
           /\ msgs'[m].epoch = msgs[m].epoch /\ msgs'[m].owner = msgs[m].owner
           /\ msgs'[m].again = msgs[m].again
           /\ msgs'[m].state = IF Current /\ m \in OwnedIn({"queued"}) THEN "submitted"
                               ELSE msgs[m].state
  BY <1>2, DeliveredInput
<1>10. LiveCallIsTurns'
  BY <1>1, <1>4, <1>8 DEF Talk, LiveCallIsTurns, Calling
<1>11. \A m \in OwnedIn({"queued"}) : msgs[m].owner = turn.call /\ msgs[m].state = "queued"
  BY DEF OwnedIn
<1>12. turn.call # 0
  BY <1>1 DEF Talk
<1>13. InputIsInEpoch'
  BY <1>8, <1>9, <1>11 DEF Talk, InputIsInEpoch, Held, Waits
<1>14. ~Prompting'
  BY <1>4 DEF Prompting
<1>15. InputIsKept'
  <2>. SUFFICES ASSUME NEW m \in Messages, NEW c \in DOMAIN calls, m \in calls[c].input
       PROVE  /\ msgs'[m].state # "unsent"
              /\ calls'[c].accepted = "yes" =>
                   msgs'[m].again \/ msgs'[m].state \in {"submitted", "acknowledged", "removed"}
    BY <1>8, <1>14 DEF InputIsKept
  <2>1. /\ msgs[m].state # "unsent"
        /\ Prompting /\ c = turn.call => msgs[m].owner = c /\ msgs[m].state = "queued"
        /\ calls[c].accepted = "yes" =>
             msgs[m].again \/ msgs[m].state \in {"submitted", "acknowledged", "removed"}
    BY DEF Talk, InputIsKept
  <2>2. CASE c = turn.call /\ Current
    <3>1. Prompting
      BY <2>2 DEF Prompting
    <3>2. m \in OwnedIn({"queued"})
      BY <2>1, <2>2, <3>1 DEF OwnedIn
    <3>. QED
      BY <1>9, <2>2, <3>2
  <2>3. CASE c = turn.call /\ ~Current
    BY <1>8, <1>9, <2>1, <2>3
  <2>4. CASE c # turn.call
    BY <1>8, <1>9, <2>1, <2>4
  <2>. QED
    BY <2>2, <2>3, <2>4
<1>. QED
  BY <1>5, <1>8, <1>9, <1>10, <1>13, <1>15 DEF Talk

(* Startup fails, is aborted, or succeeds.                                  *)
LEMMA StartupKeeps ==
  ASSUME RunType, Desk, Talk, Startup
  PROVE  Desk' /\ Talk'
<1>1. turn.pc = "startup" /\ UNCHANGED <<epoch, plan>>
  BY DEF Startup, At, run
<1>2. CASE Accepts
  BY <1>1, <1>2, AcceptsKeep
<1>3. CASE Results("startup") /\ UNCHANGED msgs
  BY <1>1, <1>3, ResultsKeep
<1>4. CASE Results("aborted") /\ UNCHANGED msgs
  BY <1>1, <1>4, ResultsKeep
<1>. QED
  BY <1>2, <1>3, <1>4 DEF Startup

(* The provider answers, fails or is cut.                                   *)
LEMMA AnswerKeeps ==
  ASSUME RunType, Desk, Talk, Answer
  PROVE  Desk' /\ Talk'
<1>1. turn.pc = "live" /\ UNCHANGED <<epoch, msgs, plan>>
  BY DEF Answer, At, run
<1>2. PICK result \in {"aborted", "answered", "failed"} : Results(result)
  BY DEF Answer
<1>. QED
  BY <1>1, <1>2, ResultsKeep

\* What a turn that was not answered gives back: the message waits again, and
\* says so if the provider had it.
LEMMA ReleasedType ==
  ASSUME NEW m \in MessageRecords
  PROVE  /\ Released(m) \in MessageRecords /\ Released(m).state = "queued"
         /\ Released(m).owner = 0 /\ Released(m).epoch = m.epoch
         /\ Released(m).again <=> m.again \/ m.state = "submitted"
<1>. DEFINE b == m.again \/ m.state = "submitted"
            k == m.tries + 1
            n == [m EXCEPT !.state = "queued", !.owner = 0, !.tries = k]
<1>1. b \in BOOLEAN /\ k \in Nat
  BY DEF MessageRecords
<1>. HIDE DEF k
<1>2. n \in MessageRecords /\ n.state = "queued" /\ n.owner = 0 /\ n.epoch = m.epoch
  BY <1>1 DEF MessageRecords
<1>3. Released(m) = [n EXCEPT !.again = b]
  BY DEF Released, MessageRecords, k
<1>. HIDE DEF n, b
<1>4. /\ Released(m) \in MessageRecords /\ Released(m).state = "queued"
      /\ Released(m).owner = 0 /\ Released(m).epoch = m.epoch
      /\ Released(m).again = b
  BY <1>1, <1>2, <1>3 DEF MessageRecords
<1>. QED
  BY <1>4 DEF b

(* The input of a turn that was not answered is kept or given back.         *)
LEMMA ReleaseKeeps ==
  ASSUME RunType, Desk, Talk, Release
  PROVE  Desk' /\ Talk'
<1>1. turn.pc = "release" /\ UNCHANGED <<epoch, calls, plan>> /\ turn \in TurnRecords
  BY DEF Release, At, run, Desk
<1>2. turn.call \in DOMAIN calls /\ calls[turn.call].epoch = turn.epoch
  BY <1>1 DEF Talk, LiveCallIsTurns
<1>3. \A c \in DOMAIN calls : calls[c].state # "started"
  BY <1>1, NoneIsLive DEF Calling
<1>4. /\ Desk' /\ turn'.pc \notin Calling \cup {"release"}
      /\ turn'.epoch \in {0, turn.epoch}
  <2>1. PICK next \in Outcomes :
          IF next \in {"run", "null"} THEN Returns(next)
          ELSE Goes(next) /\ UNCHANGED <<lock, cycles>>
    BY DEF Release
  <2>2. next \in {"run", "null", "sleep", "again", "park", "fail"}
    BY <2>1 DEF Outcomes
  <2>3. CASE next \in {"run", "null"}
    <3>1. Desk' /\ turn'.pc = "idle" /\ turn'.epoch = 0
      BY <1>1, <2>1, <2>3, EndingKeepsDesk
    <3>. QED
      BY <3>1 DEF Calling
  <2>4. CASE next \in {"sleep", "again", "park", "fail"}
    <3>1. turn' = [turn EXCEPT !.pc = next] /\ UNCHANGED <<lock, cycles>>
      BY <2>1, <2>4 DEF Goes
    <3>2. turn' \in TurnRecords /\ turn'.pc = next /\ turn'.epoch = turn.epoch
      BY <1>1, <2>4, <3>1 DEF TurnRecords
    <3>3. Desk'
      BY <1>1, <2>4, <3>1, <3>2, GoingKeepsDesk
    <3>. QED
      BY <2>4, <3>2, <3>3 DEF Calling
  <2>. QED
    BY <2>2, <2>3, <2>4
<1>5. LiveCallIsTurns'
  BY <1>1, <1>3, <1>4 DEF RunType, Talk, LiveCallIsTurns
<1>6. ~Prompting'
  BY <1>4 DEF Prompting, Calling
<1>7. turn.call # 0
  BY <1>2 DEF Talk
<1>8. CASE turn.kept
  <2>1. Delivered({"queued", "submitted"}, "acknowledged")
    BY <1>8 DEF Release
  <2>2. /\ msgs' \in [Messages -> MessageRecords]
        /\ \A m \in Messages :
             /\ msgs'[m].epoch = msgs[m].epoch /\ msgs'[m].owner = msgs[m].owner
             /\ msgs'[m].again = msgs[m].again
             /\ msgs'[m].state = IF Current /\ m \in OwnedIn({"queued", "submitted"})
                                 THEN "acknowledged" ELSE msgs[m].state
    BY <2>1, DeliveredInput
  <2>3. InputIsInEpoch'
    BY <1>1, <2>2 DEF Talk, InputIsInEpoch, Held, Waits
  <2>4. InputIsKept'
    BY <1>1, <1>6, <2>2 DEF Talk, InputIsKept
  <2>. QED
    BY <1>1, <1>4, <1>5, <2>2, <2>3, <2>4 DEF Talk
<1>9. CASE ~turn.kept
  <2>1. msgs' = [m \in Messages |->
          IF Current /\ m \in OwnedIn({"queued", "submitted"})
          THEN Released(msgs[m]) ELSE msgs[m]]
    BY <1>9 DEF Release
  <2>2. ASSUME NEW m \in Messages
        PROVE  /\ msgs'[m] \in MessageRecords
               /\ \/ msgs'[m] = msgs[m]
                  \/ /\ Current /\ msgs[m].owner = turn.call
                     /\ msgs[m].state \in {"queued", "submitted"}
                     /\ msgs'[m].state = "queued" /\ msgs'[m].owner = 0
                     /\ msgs'[m].epoch = msgs[m].epoch
                     /\ msgs'[m].again <=> msgs[m].again \/ msgs[m].state = "submitted"
    <3>1. msgs[m] \in MessageRecords
      BY DEF Talk
    <3>2. CASE Current /\ m \in OwnedIn({"queued", "submitted"})
      <4>1. msgs'[m] = Released(msgs[m])
        BY <2>1, <3>2
      <4>2. msgs[m].owner = turn.call /\ msgs[m].state \in {"queued", "submitted"}
        BY <3>2 DEF OwnedIn
      <4>. QED
        BY <3>1, <3>2, <4>1, <4>2, ReleasedType
    <3>3. CASE ~(Current /\ m \in OwnedIn({"queued", "submitted"}))
      BY <2>1, <3>1, <3>3
    <3>. QED
      BY <3>2, <3>3
  <2>3. msgs' \in [Messages -> MessageRecords]
    BY <2>1, <2>2
  <2>4. InputIsInEpoch'
    <3>. SUFFICES ASSUME NEW m \in Messages
         PROVE  /\ Held(m)' => /\ msgs'[m].owner \in DOMAIN calls
                               /\ msgs'[m].epoch = calls[msgs'[m].owner].epoch
                /\ Waits(m)' => msgs'[m].epoch = epoch
      BY <1>1 DEF InputIsInEpoch
    <3>1. CASE msgs'[m] = msgs[m]
      BY <3>1 DEF Talk, InputIsInEpoch, Held, Waits
    <3>2. CASE /\ Current /\ msgs[m].owner = turn.call
               /\ msgs[m].state \in {"queued", "submitted"}
               /\ msgs'[m].owner = 0 /\ msgs'[m].epoch = msgs[m].epoch
      <4>1. msgs[m].epoch = turn.epoch
        BY <1>2, <1>7, <3>2 DEF Talk, InputIsInEpoch, Held
      <4>. QED
        BY <3>2, <4>1 DEF Held, Current
    <3>. QED
      BY <2>2, <3>1, <3>2
  <2>5. InputIsKept'
    <3>. SUFFICES ASSUME NEW m \in Messages, NEW c \in DOMAIN calls, m \in calls[c].input
         PROVE  /\ msgs'[m].state # "unsent"
                /\ calls[c].accepted = "yes" =>
                     msgs'[m].again \/ msgs'[m].state \in {"submitted", "acknowledged", "removed"}
      BY <1>1, <1>6 DEF InputIsKept
    <3>1. /\ msgs[m].state # "unsent"
          /\ calls[c].accepted = "yes" =>
               msgs[m].again \/ msgs[m].state \in {"submitted", "acknowledged", "removed"}
      BY DEF Talk, InputIsKept
    <3>. QED
      BY <2>2, <3>1
  <2>. QED
    BY <1>1, <1>4, <1>5, <2>3, <2>4, <2>5 DEF Talk
<1>. QED
  BY <1>8, <1>9

(* Another turn under the same lock, or none.                               *)
LEMMA AgainKeeps ==
  ASSUME RunType, Desk, Talk, Again
  PROVE  Desk' /\ Talk'
<1>1. turn.pc \in {"sleep", "again"} /\ UNCHANGED plan /\ SameTalk
  BY DEF Again, At, run, chat, SameTalk
<1>2. \A c \in DOMAIN calls : calls[c].state # "started"
  BY <1>1, NoneIsLive DEF Calling
<1>3. CASE Returns("run")
  <2>1. Desk' /\ turn'.pc = "idle" /\ turn'.epoch = 0
    BY <1>1, <1>3, EndingKeepsDesk
  <2>. QED
    BY <1>1, <1>2, <2>1, TalkRests DEF Calling
<1>4. CASE /\ turn' = IF At("again") THEN Turn("chat", 0, 0)
                      ELSE Turn(turn.mode, turn.retries + 1, turn.claim)
           /\ UNCHANGED <<lock, cycles>>
  <2>1. /\ turn.mode \in Modes /\ turn.retries + 1 \in Nat
        /\ turn.claim \in {0} \cup Cycles /\ "chat" \in Modes
    BY DEF Desk, TurnRecords, Modes
  <2>2. turn' \in TurnRecords /\ turn'.pc = "account" /\ turn'.epoch = 0
    <3>1. CASE At("again")
      <4>1. turn' = Turn("chat", 0, 0)
        BY <1>4, <3>1
      <4>. QED
        BY <2>1, <4>1, TurnType
    <3>2. CASE ~At("again")
      <4>1. turn' = Turn(turn.mode, turn.retries + 1, turn.claim)
        BY <1>4, <3>2
      <4>. QED
        BY <2>1, <4>1, TurnType
    <3>. QED
      BY <3>1, <3>2
  <2>3. Desk'
    BY <1>1, <1>4, <2>2, GoingKeepsDesk
  <2>. QED
    BY <1>1, <1>2, <2>2, <2>3, TalkRests DEF Calling
<1>. QED
  BY <1>3, <1>4 DEF Again

\* A turn that failed for good returns, the run parked or failed.
LEMMA FailureKeeps ==
  ASSUME RunType, Desk, Talk, Park \/ Fail
  PROVE  Desk' /\ Talk'
<1>1. turn.pc \in {"park", "fail"} /\ UNCHANGED plan /\ SameTalk /\ Returns("run")
  BY DEF Park, Fail, At, chat, SameTalk
<1>2. \A c \in DOMAIN calls : calls[c].state # "started"
  BY <1>1, NoneIsLive DEF Calling
<1>3. Desk' /\ turn'.pc = "idle" /\ turn'.epoch = 0
  BY <1>1, EndingKeepsDesk
<1>. QED
  BY <1>1, <1>2, <1>3, TalkRests DEF Calling

(* The answer is applied to the run.                                        *)
LEMMA ApplyKeeps ==
  ASSUME RunType, Desk, Talk, Apply
  PROVE  Desk' /\ Talk'
<1>1. /\ turn.pc = "apply" /\ turn' = [turn EXCEPT !.pc = "settle"]
      /\ UNCHANGED <<epoch, msgs, calls, lock, cycles, plan>>
  BY DEF Apply, At, Goes, chat, work
<1>2. /\ turn' \in TurnRecords /\ turn'.pc = "settle" /\ turn'.call = turn.call
      /\ turn'.epoch = turn.epoch
  BY <1>1 DEF Desk, TurnRecords
<1>3. Desk'
  BY <1>1, <1>2, GoingKeepsDesk
<1>. QED
  BY <1>1, <1>2, <1>3, GoingKeepsTalk DEF Calling

(* The call settles, its input is acknowledged, and the lock goes back.     *)
LEMMA SettleKeeps ==
  ASSUME RunType, Desk, Talk, Settle
  PROVE  Desk' /\ Talk'
<1>1. /\ turn.pc = "settle" /\ UNCHANGED <<epoch, plan>>
      /\ Delivered({"queued", "submitted"}, "acknowledged")
      /\ calls' = IF Current THEN [calls EXCEPT ![turn.call].state = "completed"] ELSE calls
      /\ Returned(FollowedUp(cycles, plan, msgs', FALSE), "run")
      /\ FollowsUp(cycles, msgs', FALSE) => Room(cycles, 1)
  BY DEF Settle, At
<1>2. /\ lock # <<>> /\ Holder \in Cycles /\ cycles[Holder].pc = "turn"
      /\ Seats(cycles) /\ plan \in {0} \cup Cycles
  BY <1>1, TurnHasHolder DEF Desk
<1>3. Moves(cycles, FollowedUp(cycles, plan, msgs', FALSE))
  BY <1>1, <1>2, FollowingMoves
<1>4. /\ Seats(FollowedUp(cycles, plan, msgs', FALSE))
      /\ FollowedUp(cycles, plan, msgs', FALSE)[Holder].pc = "turn"
  BY <1>2, <1>3 DEF Moves
<1>5. Desk' /\ turn'.pc = "idle" /\ turn'.epoch = 0
  BY <1>1, <1>2, <1>4, ReturningKeepsDesk
<1>6. /\ calls' \in Seq(CallRecords) /\ DOMAIN calls' = DOMAIN calls
      /\ \A b \in DOMAIN calls :
           /\ calls'[b].input = calls[b].input /\ calls'[b].epoch = calls[b].epoch
           /\ calls'[b].accepted = calls[b].accepted
           /\ calls'[b].state # "started"
  <2>1. CASE Current
    <3>. DEFINE r == [calls[turn.call] EXCEPT !.state = "completed"]
    <3>1. turn.call \in DOMAIN calls
      BY <1>1 DEF Talk, LiveCallIsTurns, Calling
    <3>2. calls[turn.call] \in CallRecords
      BY <3>1 DEF Talk
    <3>3. /\ r \in CallRecords /\ r.state # "started" /\ r.input = calls[turn.call].input
          /\ r.epoch = calls[turn.call].epoch /\ r.accepted = calls[turn.call].accepted
      BY <3>2 DEF CallRecords
    <3>4. calls' = [calls EXCEPT ![turn.call] = r]
      BY <1>1, <2>1
    <3>. HIDE DEF r
    <3>5. \A b \in DOMAIN calls : b # turn.call => calls[b].state # "started"
      BY DEF Talk, LiveCallIsTurns
    <3>. QED
      BY <3>1, <3>3, <3>4, <3>5, CallWritten
  <2>2. CASE ~Current
    <3>1. \A c \in DOMAIN calls : calls[c].state # "started"
      BY <2>2, NoneIsLive
    <3>. QED
      BY <1>1, <2>2, <3>1 DEF Talk
  <2>. QED
    BY <2>1, <2>2
<1>7. /\ msgs' \in [Messages -> MessageRecords]
      /\ \A m \in Messages :
           /\ msgs'[m].epoch = msgs[m].epoch /\ msgs'[m].owner = msgs[m].owner
           /\ msgs'[m].again = msgs[m].again
           /\ msgs'[m].state = IF Current /\ m \in OwnedIn({"queued", "submitted"})
                               THEN "acknowledged" ELSE msgs[m].state
  BY <1>1, DeliveredInput
<1>8. LiveCallIsTurns'
  BY <1>1, <1>5, <1>6 DEF RunType, LiveCallIsTurns, Calling
<1>9. InputIsInEpoch'
  BY <1>1, <1>6, <1>7 DEF Talk, InputIsInEpoch, Held, Waits
<1>10. ~Prompting'
  BY <1>5 DEF Prompting
<1>11. InputIsKept'
  BY <1>6, <1>7, <1>10 DEF Talk, InputIsKept
<1>. QED
  BY <1>5, <1>6, <1>7, <1>8, <1>9, <1>11 DEF Talk

-----------------------------------------------------------------------------
(* The run's own fields.                                                    *)

(* Requests and recoveries of their type.                                   *)
LEMMA RunFields ==
  ASSUME RunType, Desk
  PROVE  /\ NoRequest \in [by : {0} \cup Cycles, epoch : Nat, ids : SUBSET Messages]
         /\ NoRecovery \in Recoveries
         /\ Driving \subseteq Statuses /\ Terminal \subseteq Statuses
         /\ \A c \in {0} \cup Cycles :
              [recovery EXCEPT !.state = "resuming", !.claim = c] \in Recoveries
         /\ [recovery EXCEPT !.state = "parked", !.claim = 0] \in Recoveries
         /\ [state |-> "parked", mode |-> turn.mode, claim |-> 0] \in Recoveries
<1>1. NoRequest \in [by : {0} \cup Cycles, epoch : Nat, ids : SUBSET Messages]
  BY DEF NoRequest
<1>2. NoRecovery \in Recoveries
  BY DEF NoRecovery, Recoveries, Modes
<1>3. Driving \subseteq Statuses /\ Terminal \subseteq Statuses
  BY DEF Statuses
<1>4. /\ \A c \in {0} \cup Cycles :
           [recovery EXCEPT !.state = "resuming", !.claim = c] \in Recoveries
      /\ [recovery EXCEPT !.state = "parked", !.claim = 0] \in Recoveries
  BY DEF RunType, Recoveries
<1>5. [state |-> "parked", mode |-> turn.mode, claim |-> 0] \in Recoveries
  BY DEF Desk, TurnRecords, Recoveries
<1>. QED
  BY <1>1, <1>2, <1>3, <1>4, <1>5

(* A resume leaves the run running, or as it was.                           *)
LEMMA ResumesRun ==
  ASSUME RunType, Desk, NEW cs, Slot(cs) \in Cycles, NEW p, Resumes(cs, p)
  PROVE  status' \in Statuses /\ recovery' \in Recoveries
<1>1. /\ status' \in {status, "running"}
      /\ \/ UNCHANGED recovery
         \/ recovery' = [recovery EXCEPT !.state = "resuming", !.claim = Slot(cs)]
  BY DEF Resumes
<1>2. status' \in Statuses
  BY <1>1 DEF RunType, Statuses, Driving
<1>3. recovery' \in Recoveries
  BY <1>1, RunFields DEF RunType
<1>. QED
  BY <1>2, <1>3

(* The user's steps keep the run's type.                                    *)
LEMMA UserKeepsRun ==
  ASSUME RunType, Desk, Talk, UserStep
  PROVE  RunType'
<1>1. ASSUME NEW m \in Messages, Record(m) PROVE RunType'
  BY <1>1 DEF RunType, Record, ui, Statuses, Driving
<1>2. ASSUME NEW m \in Messages, Unqueue(m) PROVE RunType'
  BY <1>2 DEF RunType, Unqueue, run, ui
<1>3. CASE SendNow
  <2>. DEFINE d == Slot(cycles)
              r == [by |-> d, epoch |-> epoch, ids |-> Queued]
  <2>1. d \in Cycles
    BY <1>3, SlotIsFree DEF SendNow, Desk
  <2>2. /\ request' = StillAsked(r) /\ clicks' = clicks + 1
        /\ UNCHANGED <<status, epoch, recovery, stopping>>
    BY <1>3 DEF SendNow, Clicks, run
  <2>3. r \in [by : {0} \cup Cycles, epoch : Nat, ids : SUBSET Messages]
    BY <2>1 DEF RunType, Queued, QueuedIn
  <2>. HIDE DEF r
  <2>4. request' \in {r, NoRequest}
    BY <2>2 DEF StillAsked
  <2>5. request' \in [by : {0} \cup Cycles, epoch : Nat, ids : SUBSET Messages]
    BY <2>3, <2>4, RunFields
  <2>. HIDE DEF d
  <2>6. /\ status' \in Statuses /\ epoch' \in Nat /\ clicks' \in Nat
        /\ recovery' \in Recoveries /\ stopping' \subseteq [id : Nat, epoch : Nat]
    BY <2>2 DEF RunType
  <2>. QED
    BY <2>5, <2>6 DEF RunType
<1>4. CASE Stop
  <2>1. /\ stopping' = stopping \cup {[id |-> clicks', epoch |-> epoch]}
        /\ clicks' = clicks + 1 /\ UNCHANGED <<status, epoch, recovery, request>>
    BY <1>4 DEF Stop, Clicks, run
  <2>. QED
    BY <2>1 DEF RunType
<1>5. CASE Resume
  <2>1. /\ clicks' = clicks + 1 /\ UNCHANGED <<epoch, request, stopping>>
        /\ Resumes(cycles, plan)
    BY <1>5 DEF Resume, Clicks
  <2>2. Slot(cycles) \in Cycles
    BY <1>5, SlotIsFree DEF Resume, Desk
  <2>3. status' \in Statuses /\ recovery' \in Recoveries
    BY <2>1, <2>2, ResumesRun
  <2>. QED
    BY <2>1, <2>3 DEF RunType
<1>. QED
  BY <1>1, <1>2, <1>3, <1>4, <1>5 DEF UserStep

(* So do the cycles'.                                                       *)
LEMMA CyclesKeepRun ==
  ASSUME RunType, Desk, Talk, NEW d \in Cycles, Continue(d) \/ Commit(d) \/ Later(d)
  PROVE  RunType'
<1>1. UNCHANGED <<epoch, stopping, clicks>>
  BY DEF Continue, Commit, Later, ui
<1>2. request' \in {request, NoRequest}
  BY DEF Continue, Commit, Later, ui, PlanDecides, ResumeDecides, FollowupDecides,
         AutoresumeDecides, FlushDecides, LetIn, RecoveryDecides, Interrupt, Idles
<1>3. status' \in Statuses /\ recovery' \in Recoveries
  <2>1. CASE UNCHANGED <<status, recovery>>
    BY <2>1 DEF RunType
  <2>2. CASE UNCHANGED recovery /\ status' \in {status, "planning", "running", "blocked"}
    BY <2>2 DEF RunType, Statuses, Driving
  <2>3. CASE Mark(d)
    BY <2>3, RunFields DEF Mark, Ended, RunType, Statuses, Driving, Terminal
  <2>4. CASE Repark(d)
    BY <2>4, RunFields DEF Repark, RunType, Statuses
  <2>5. CASE Resumed(d)
    <3>1. Seats(Freed(cycles, d)) /\ Room(Freed(cycles, d), 1)
      BY <2>5, FreeingMoves DEF Resumed, Desk, Moves
    <3>2. Slot(Freed(cycles, d)) \in Cycles
      BY <3>1, SlotIsFree
    <3>. QED
      BY <2>5, <3>2, ResumesRun DEF Resumed
  <2>6. CASE Continue(d)
    BY <2>1, <2>2, <2>6 DEF Continue, PlanDecides, ResumeDecides, FollowupDecides,
         AutoresumeDecides, FlushDecides, LetIn, Idles, BackWithRun, BackWithout, ResumeBack
  <2>7. CASE RecoveryDecides(d) \/ Question(d) \/ Hop(d) \/ FinishResume(d) \/ Interrupt(d)
    BY <2>1, <2>2, <2>7 DEF RecoveryDecides, Question, Hop, FinishResume, Interrupt
  <2>. QED
    BY <2>3, <2>4, <2>5, <2>6, <2>7 DEF Commit, Later
<1>. QED
  BY <1>1, <1>2, <1>3, RunFields DEF RunType

(* So do the turn's, and a Stop's commit.                                   *)
LEMMA TurnKeepsRun ==
  ASSUME RunType, Desk, Talk, TurnStep
  PROVE  RunType'
<1>1. UNCHANGED <<stopping, clicks, epoch>>
  BY DEF TurnStep, Account, Prepare, Launch, Compose, Startup, Answer, Release, Again,
         Park, Fail, Apply, Settle, run
<1>2. request' \in {request, NoRequest}
  <2>1. CASE Startup
    BY <2>1 DEF Startup, Accepts, StillAsked
  <2>2. CASE ~Startup
    BY <2>2 DEF TurnStep, Account, Prepare, Launch, Compose, Answer, Release, Again,
         Park, Fail, Apply, Settle
  <2>. QED
    BY <2>1, <2>2
<1>3. status' \in Statuses /\ recovery' \in Recoveries
  <2>1. CASE UNCHANGED <<status, recovery>>
    BY <2>1 DEF RunType
  <2>2. CASE Park
    <3>1. recovery' \in {recovery, NoRecovery, [state |-> "parked", mode |-> turn.mode, claim |-> 0]}
      BY <2>2 DEF Park
    <3>2. status' \in {status, "paused"}
      BY <2>2 DEF Park
    <3>3. recovery \in Recoveries /\ status \in Statuses
      BY DEF RunType
    <3>. QED
      BY <3>1, <3>2, <3>3, RunFields DEF Statuses
  <2>3. CASE Fail \/ Apply
    <3>1. recovery' \in {recovery, NoRecovery} /\ status' \in {status, "failed", "complete"}
      BY <2>3 DEF Fail, Apply, Ended
    <3>2. recovery \in Recoveries /\ status \in Statuses
      BY DEF RunType
    <3>. QED
      BY <3>1, <3>2, RunFields DEF Statuses, Terminal
  <2>4. CASE Settle
    <3>1. recovery' \in {recovery, NoRecovery} /\ status' = status
      BY <2>4 DEF Settle
    <3>2. recovery \in Recoveries /\ status \in Statuses
      BY DEF RunType
    <3>. QED
      BY <3>1, <3>2, RunFields
  <2>. QED
    BY <2>1, <2>2, <2>3, <2>4
    DEF TurnStep, Account, Prepare, Launch, Compose, Startup, Answer, Release, Again, run
<1>4. request' \in [by : {0} \cup Cycles, epoch : Nat, ids : SUBSET Messages]
  BY <1>2, RunFields DEF RunType
<1>. QED
  BY <1>1, <1>3, <1>4 DEF RunType

\* When a Stop lands the run keeps its type.
LEMMA StopLandsKeepsRun ==
  ASSUME RunType, Desk, NEW s \in stopping, StopLands(s)
  PROVE  RunType'
<1>1. stopping' = stopping \ {s} /\ UNCHANGED <<request, clicks>>
  BY DEF StopLands
<1>2. /\ epoch' \in {epoch, epoch + 1} /\ recovery' \in {recovery, NoRecovery}
      /\ status' \in {status, "paused"}
  BY DEF StopLands, run
<1>3. status' \in Statuses /\ recovery' \in Recoveries
  BY <1>2, RunFields DEF RunType, Statuses
<1>4. epoch' \in Nat
  BY <1>2 DEF RunType
<1>. QED
  BY <1>1, <1>3, <1>4 DEF RunType

-----------------------------------------------------------------------------
(* The invariant.                                                           *)

\* A new chat has no cycle, no call and no message.
LEMMA InvHoldsInitially == Init => Inv
<1>. SUFFICES ASSUME Init PROVE Inv
  OBVIOUS
<1>1. RunType
  BY DEF Init, RunType, Statuses, Terminal, NoRecovery, Recoveries, Modes, NoRequest
<1>2. Seats(cycles)
  <2>1. cycles = [d \in Cycles |-> NoCycle]
    BY DEF Init
  <2>. QED
    BY <2>1, NoCycleType DEF Seats
<1>3. Desk
  <2>1. turn = NoTurn /\ turn \in TurnRecords /\ turn.pc = "idle"
    BY TurnType DEF Init
  <2>2. lock \in Seq(Cycles) /\ plan = 0
    BY EmptySeq DEF Init
  <2>. QED
    BY <1>2, <2>1, <2>2 DEF Desk, TurnIsHolders, InterruptIsForTurn
<1>4. Talk
  <2>1. /\ turn.pc = "idle" /\ turn.epoch = 0 /\ epoch = 0
        /\ calls = <<>> /\ DOMAIN calls = {}
    BY TurnType DEF Init
  <2>2. /\ msgs \in [Messages -> MessageRecords]
        /\ \A m \in Messages : msgs[m].state = "unsent"
    BY DEF Init, MessageRecords
  <2>3. calls \in Seq(CallRecords)
    BY <2>1, EmptySeq
  <2>. QED
    BY <2>1, <2>2, <2>3 DEF Talk, LiveCallIsTurns, Calling, InputIsInEpoch, Held,
      Waits, InputIsKept
<1>. QED
  BY <1>1, <1>3, <1>4 DEF Inv

(* A cycle's step keeps desk and talk.                                      *)
LEMMA CycleStepKeeps ==
  ASSUME RunType, Desk, Talk, NEW d \in Cycles, Continue(d) \/ Commit(d) \/ Later(d)
  PROVE  Desk' /\ Talk'
<1>1. SameTalk
  BY DEF Continue, Commit, Later, chat, SameTalk
<1>2. CASE PlanDecides(d) \/ ResumeDecides(d) \/ FollowupDecides(d)
  BY <1>1, <1>2, DecidingKeeps
<1>3. CASE AutoresumeDecides(d)
  BY <1>1, <1>3, AutoresumeDecidesKeeps
<1>4. CASE FlushDecides(d)
  BY <1>1, <1>4, FlushDecidesKeeps
<1>5. CASE LetIn(d)
  BY <1>1, <1>5, LetInKeeps
<1>6. CASE RecoveryDecides(d)
  BY <1>1, <1>6, RecoveryDecidesKeeps
<1>7. CASE Interrupt(d)
  BY <1>1, <1>7, InterruptKeeps
<1>8. CASE /\ UNCHANGED <<lock, turn>>
           /\ \/ BackWithRun(d) \/ BackWithout(d) \/ ResumeBack(d)
              \/ Question(d) \/ Mark(d) \/ Repark(d)
  BY <1>1, <1>8, BackKeeps
<1>9. CASE UNCHANGED <<lock, turn>> /\ Hop(d)
  BY <1>1, <1>9, HopKeeps
<1>10. CASE UNCHANGED <<lock, turn>> /\ FinishResume(d)
  BY <1>1, <1>10, FinishResumeKeeps
<1>11. CASE UNCHANGED <<lock, turn>> /\ Resumed(d)
  BY <1>1, <1>11, ResumedKeeps
<1>. QED
  BY <1>2, <1>3, <1>4, <1>5, <1>6, <1>7, <1>8, <1>9, <1>10, <1>11
  DEF Continue, Commit, Later

(* A step of the turn keeps desk and talk.                                  *)
LEMMA TurnStepKeeps ==
  ASSUME RunType, Desk, Talk, TurnStep
  PROVE  Desk' /\ Talk'
BY AccountKeeps, PrepareKeeps, LaunchKeeps, ComposeKeeps, StartupKeeps, AnswerKeeps,
   ReleaseKeeps, AgainKeeps, FailureKeeps, ApplyKeeps, SettleKeeps
DEF TurnStep

(* Every step keeps the invariant.                                          *)
LEMMA StepKeepsInv == Inv /\ [Next]_vars => Inv'
<1>. SUFFICES ASSUME RunType, Desk, Talk, [Next]_vars PROVE RunType' /\ Desk' /\ Talk'
  BY DEF Inv
<1>1. ASSUME NEW d \in Cycles, Continue(d) \/ Commit(d) \/ Later(d)
      PROVE  RunType' /\ Desk' /\ Talk'
  BY <1>1, CyclesKeepRun, CycleStepKeeps
<1>2. ASSUME NEW s \in stopping, StopLands(s)
      PROVE  RunType' /\ Desk' /\ Talk'
  BY <1>2, StopLandsKeepsRun, StopLandsKeeps
<1>3. CASE UserStep
  BY <1>3, UserKeepsRun, RecordKeeps, UnqueueKeeps, SendNowKeeps, StopKeeps, ResumeKeeps
  DEF UserStep
<1>4. ASSUME NEW m \in Messages, Engage(m)
      PROVE  RunType' /\ Desk' /\ Talk'
  <2>1. UNCHANGED <<run, ui>>
    BY <1>4 DEF Engage
  <2>2. RunType'
    BY <2>1 DEF RunType, run, ui
  <2>. QED
    BY <1>4, <2>2, EngageKeeps
<1>5. CASE TurnStep
  BY <1>5, TurnKeepsRun, TurnStepKeeps
<1>6. CASE UNCHANGED vars
  <2>1. SameTurn /\ SameTalk /\ UNCHANGED lock /\ Moves(cycles, cycles')
        /\ plan' \in {0} \cup Cycles
    BY <1>6, StayingMoves DEF vars, Desk, SameTurn, SameTalk
  <2>2. RunType'
    BY <1>6 DEF vars, RunType
  <2>. QED
    BY <2>1, <2>2, DeskMoves, TalkStays
<1>. QED
  BY <1>1, <1>2, <1>3, <1>4, <1>5, <1>6 DEF Next

(* A turn is cut only while its session serves it.                          *)
LEMMA OnlyServedIsCut ==
  ASSUME Inv, [Next]_vars, turn'.cut, ~turn.cut
  PROVE  turn.pc \in Serving
<1>0. turn \in TurnRecords
  BY DEF Inv, Desk
<1>1. CASE turn' = Cut(turn)
  BY <1>1 DEF Cut
<1>2. CASE turn.pc = "startup"
  BY <1>2 DEF Serving
<1>3. ~NoTurn.cut /\ \A d \in Cycles, mode \in Modes : ~TurnOf(d, mode).cut
  BY DEF NoTurn, TurnOf, Turn
<1>4. ~Turn("chat", 0, 0).cut /\ ~Turn(turn.mode, turn.retries + 1, turn.claim).cut
  BY DEF NoTurn, Turn
<1>5. turn' # NoTurn /\ \A cs, result : ~Returned(cs, result)
  BY <1>3 DEF Returned
<1>6. ASSUME NEW d \in Cycles, NEW mode, Asks(d, mode) PROVE turn' = turn
  <2>1. ~TurnOf(d, mode).cut
    BY DEF NoTurn, TurnOf, Turn
  <2>. QED
    BY <1>6, <2>1 DEF Asks
<1>7. UNCHANGED turn => FALSE
  OBVIOUS
<1>8. ASSUME NEW pc, Goes(pc) PROVE FALSE
  BY <1>0, <1>8 DEF Goes, TurnRecords
<1>9. ASSUME NEW d \in Cycles, Continue(d) \/ Commit(d) \/ Later(d)
      PROVE  turn.pc \in Serving
  <2>1. CASE Interrupt(d)
    BY <1>1, <2>1 DEF Interrupt
  <2>2. CASE LetIn(d)
    <3>1. ~TurnOf(d, cycles[d].mode).cut
      BY DEF NoTurn, TurnOf, Turn
    <3>. QED
      BY <1>5, <2>2, <3>1 DEF LetIn, Returns
  <2>3. CASE ~Interrupt(d) /\ ~LetIn(d)
    BY <1>6, <1>7, <1>9, <2>3 DEF Continue, Commit, Later, PlanDecides, ResumeDecides,
      FollowupDecides, AutoresumeDecides, FlushDecides, RecoveryDecides, Idles
  <2>. QED
    BY <2>1, <2>2, <2>3
<1>10. ASSUME NEW s \in stopping, StopLands(s) PROVE FALSE
  BY <1>10 DEF StopLands
<1>11. ASSUME UserStep PROVE turn.pc \in Serving
  <2>1. CASE Stop
    BY <1>1, <2>1 DEF Stop
  <2>2. CASE SendNow
    <3>1. turn'.cut = turn.cut
      BY <1>0, <2>2 DEF SendNow, TurnRecords
    <3>. QED
      BY <3>1
  <2>3. CASE ~Stop /\ ~SendNow
    BY <1>11, <2>3 DEF UserStep, Record, Unqueue, Resume
  <2>. QED
    BY <2>1, <2>2, <2>3
<1>12. ASSUME NEW m \in Messages, Engage(m) PROVE FALSE
  BY <1>12 DEF Engage
<1>13. ASSUME TurnStep PROVE turn.pc \in Serving
  <2>1. ~(turn'.cut = turn.cut)
    OBVIOUS
  <2>2. CASE Account
    BY <1>0, <2>1, <2>2 DEF Account, TurnRecords
  <2>3. CASE Prepare
    BY <1>0, <1>5, <2>1, <2>3 DEF Prepare, Returns, TurnRecords
  <2>4. CASE Launch \/ Apply
    BY <1>5, <1>8, <2>4 DEF Launch, Apply, Returns
  <2>5. ASSUME NEW result, Results(result) PROVE FALSE
    BY <1>0, <1>5, <1>8, <2>1, <2>5 DEF Results, Returns, TurnRecords
  <2>6. CASE Compose \/ Answer
    BY <1>8, <2>5, <2>6 DEF Compose, Answer
  <2>7. CASE Startup
    BY <1>2, <2>7 DEF Startup, At
  <2>8. CASE Release
    BY <1>5, <1>8, <2>8 DEF Release, Returns
  <2>9. CASE Again
    BY <1>4, <1>5, <2>9 DEF Again, Returns
  <2>10. CASE Park \/ Fail \/ Settle
    BY <1>5, <2>10 DEF Park, Fail, Settle, Returns
  <2>. QED
    BY <1>13, <2>2, <2>3, <2>4, <2>6, <2>7, <2>8, <2>9, <2>10 DEF TurnStep
<1>. QED
  BY <1>7, <1>9, <1>10, <1>11, <1>12, <1>13 DEF Next, vars

-----------------------------------------------------------------------------
(* The theorems.                                                            *)

(* Inv holds in every reachable state.                                      *)
LEMMA InvAlways == Spec => []Inv
BY InvHoldsInitially, StepKeepsInv, PTL DEF Spec

(* Every variable has its type.                                             *)
THEOREM TypeCorrect == Spec => []TypeOK
<1>1. Inv => TypeOK
  BY DEF Inv, RunType, Desk, Talk, Seats, TypeOK
<1>. QED
  BY <1>1, InvAlways, PTL

(* The facts the chat's guarantees rest on hold together: the turn under    *)
(* way is the lock holder's, the live call is its, and every message is of  *)
(* the epoch of what it waits for.                                          *)
THEOREM TurnsInvariant == Spec => []TurnsInv
<1>1. Inv => TurnsInv
  BY DEF Inv, Desk, Talk, Seats, TurnsInv, SlotsAreFree
<1>. QED
  BY <1>1, InvAlways, PTL

(* A run has at most one manager call in progress, the one of the turn that *)
(* holds the turn lock (managerTurnLock, askManagerBackend).                *)
THEOREM OneCallAtATime == Spec => []OneLiveCall
<1>1. Inv => OneLiveCall
  <2>. SUFFICES ASSUME Inv, NEW c \in DOMAIN calls, calls[c].state = "started"
       PROVE  lock # <<>> /\ c = turn.call
    BY DEF OneLiveCall
  <2>1. c = turn.call /\ turn.pc \in Calling
    BY DEF Inv, Talk, LiveCallIsTurns
  <2>2. turn.pc # "idle"
    BY <2>1 DEF Calling
  <2>. QED
    BY <2>1, <2>2, TurnHasHolder DEF Inv
<1>. QED
  BY <1>1, InvAlways, PTL

(* No message waits in a spent conversation epoch, where no turn, Send now  *)
(* or Resume would look for it (carryQueuedInputAcrossEpoch).               *)
THEOREM NothingIsLeftBehind == Spec => []NothingWaitsInASpentEpoch
<1>1. Inv => NothingWaitsInASpentEpoch
  BY DEF Inv, Talk, InputIsInEpoch, NothingWaitsInASpentEpoch
<1>. QED
  BY <1>1, InvAlways, PTL

(* A message that the provider had and that waits once more says that it is *)
(* a redelivery (releaseUnsubmittedManagerInput, the sweep of a Stop).      *)
THEOREM ReplayAlwaysMarked == Spec => []ReplayIsMarked
<1>1. Inv => ReplayIsMarked
  <2>. SUFFICES ASSUME Inv, NEW m \in Messages, Waits(m), NEW c \in HadBy(m)
       PROVE  msgs[m].again
    BY DEF ReplayIsMarked
  <2>1. c \in DOMAIN calls /\ m \in calls[c].input /\ calls[c].accepted = "yes"
    BY DEF HadBy
  <2>2. msgs[m].again \/ msgs[m].state \in {"submitted", "acknowledged", "removed"}
    BY <2>1 DEF Inv, Talk, InputIsKept
  <2>. QED
    BY <2>2 DEF Waits
<1>. QED
  BY <1>1, InvAlways, PTL

(* The interrupt of a Send now reaches the turn it was pressed for, or none *)
(* (deliverQueuedMessagesNow, interruptForSendNow).                         *)
THEOREM SendNowAlwaysCutsItsOwn == Spec => SendNowCutsItsOwnTurn
<1>1. Inv /\ [Next]_vars => [CutsItsOwnTurn]_vars
  <2>. SUFFICES ASSUME Inv, [Next]_vars, NEW d \in Cycles,
                       cycles[d].pc = "interrupt", turn'.cut, ~turn.cut
       PROVE  turn.call = cycles[d].call
    BY DEF CutsItsOwnTurn
  <2>1. turn.pc \in Serving
    BY OnlyServedIsCut
  <2>. QED
    BY <2>1 DEF Inv, Desk, InterruptIsForTurn, Serving
<1>. QED
  BY <1>1, InvAlways, PTL DEF Spec, SendNowCutsItsOwnTurn

=============================================================================
