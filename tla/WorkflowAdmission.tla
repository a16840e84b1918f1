-------------------------- MODULE WorkflowAdmission --------------------------
(***************************************************************************)
(* Which workflow agents may run on the machine at once                    *)
(* (src/main/orchestration/workflow-admission.ts), and how the runtime of  *)
(* a run asks for its agents and takes the request back                    *)
(* (execute, skip and abortAll in workflow-runtime.ts).                    *)
(*                                                                         *)
(* Every run shares one controller.  A request waits in one queue for a    *)
(* machine slot, for one of the few heavy slots if it is heavy, and for    *)
(* memory.  Each change walks the queue once (pump).  The walk is          *)
(* synchronous: it is written here as a loop of small steps, and while it  *)
(* goes on nothing but the machine's memory can change.                    *)
(*                                                                         *)
(* The answer to a request and the abort of its agent race: the runtime    *)
(* looks at the winner in a later microtask, so that a slot can be granted *)
(* to an agent that was just aborted.                                      *)
(***************************************************************************)
EXTENDS Integers, Sequences, FiniteSets

CONSTANTS
  Agents,     \* agent calls, of all live runs
  Heavy,      \* those marked heavy
  Limits,     \* settings of [machine, heavy] that configure may choose
  SwapLimit,  \* swapGrowthBytes
  MaxSwap     \* bound: the most swap in use

ASSUME AdmissionAssumption ==
  /\ IsFiniteSet(Agents) /\ Heavy \subseteq Agents
  /\ Limits # {} /\ \A l \in Limits : l.machine \in Nat \ {0} /\ l.heavy \in Nat \ {0}
  /\ SwapLimit \in Nat /\ MaxSwap \in Nat

VARIABLES
  queue,     \* the waiting requests, oldest first
  active,    \* slots taken
  heavy,     \* heavy slots taken
  leases,    \* the agents whose slot was granted and not released
  phase,     \* how far execute() is with each agent
  aborted,   \* the agents whose controller is aborted
  limits,    \* machineSlots and heavySlots
  baseline,  \* swapBaseline: swap in use when the controller went busy
  timer,     \* is a recheck due?
  pump,      \* the walk over the queue: next index, memory sampled?, open?
  memory,    \* the machine: a sample is "short", "fine" or cannot be had
  swap       \* and the swap in use

vars == <<queue, active, heavy, leases, phase, aborted, limits,
          baseline, timer, pump, memory, swap>>
machine == <<memory, swap>>
counts  == <<active, heavy, leases>>
gate    == <<baseline, timer>>

None == MaxSwap + 1   \* no baseline
Waiting == {queue[i] : i \in DOMAIN queue}

\* A walk that is over, and one that begins.
NoPump == [on |-> FALSE, i |-> 1, checked |-> FALSE, open |-> TRUE]
Pumps == pump' = [NoPump EXCEPT !.on = TRUE]
Idle == ~pump.on

Init ==
  /\ queue = <<>> /\ active = 0 /\ heavy = 0 /\ leases = {}
  /\ phase = [a \in Agents |-> "new"]
  /\ aborted = {} /\ limits \in Limits
  /\ baseline = None /\ timer = FALSE /\ pump = NoPump
  /\ memory = "fine" /\ swap = 0

-----------------------------------------------------------------------------
(* pump: one turn of its loop *)

Asking == queue[pump.i]
Walking == pump.on /\ pump.i <= Len(queue)
HeavyFull(a) == a \in Heavy /\ heavy >= limits.heavy
From(i) == {queue[j] : j \in i .. Len(queue)}

\* No machine slot left: everybody from here on waits for one.
PumpFull ==
  /\ Walking /\ active >= limits.machine
  /\ pump' = NoPump
  /\ UNCHANGED <<queue, counts, phase, aborted, limits, gate>>

\* Mutant: a heavy request that must wait holds up the queue.
MutantPasses == NoPump

\* A heavy request waits for its own slots without holding up the others.
Passes == [pump EXCEPT !.i = @ + 1]
PumpSkips ==
  /\ Walking /\ active < limits.machine /\ HeavyFull(Asking)
  /\ pump' = Passes
  /\ UNCHANGED <<queue, counts, phase, aborted, limits, gate>>

\* Mutant: the first agent waits for memory as well.
MutantMemoryOpen(base) == memory = "fine" /\ swap <= base + SwapLimit

\* Mutant: a growth of swap that just reaches the limit closes the gate, also
\* when the limit is no growth at all.
MutantGrowthReaches(base) == active = 0 \/ (memory = "fine" /\ swap < base + SwapLimit)

\* memoryOpen, for the baseline base: the first agent always goes.
MemoryOpen(base) == active = 0 \/ (memory = "fine" /\ swap <= base + SwapLimit)

\* One sample serves the walk until it grants a slot.
PumpSamples ==
  /\ Walking /\ active < limits.machine /\ ~HeavyFull(Asking) /\ ~pump.checked
  /\ LET base == IF baseline = None THEN swap ELSE baseline
         open == memory = "none" \/ MemoryOpen(base)
     IN /\ pump' = [pump EXCEPT !.checked = TRUE, !.open = open]
        /\ baseline' = IF memory = "none" THEN baseline ELSE base
  /\ UNCHANGED <<queue, counts, phase, aborted, limits, timer>>

SchedulesRecheck == timer' = TRUE

\* Memory is short: look again later.
PumpHolds ==
  /\ Walking /\ active < limits.machine /\ ~HeavyFull(Asking) /\ pump.checked /\ ~pump.open
  /\ SchedulesRecheck
  /\ pump' = NoPump
  /\ UNCHANGED <<queue, counts, phase, aborted, limits, baseline>>

\* The request at i gets its slot.
Without(i) == SubSeq(queue, 1, i - 1) \o SubSeq(queue, i + 1, Len(queue))
PumpGrants ==
  /\ Walking /\ active < limits.machine /\ ~HeavyFull(Asking) /\ pump.checked /\ pump.open
  /\ queue' = Without(pump.i)
  /\ active' = active + 1
  /\ heavy' = heavy + (IF Asking \in Heavy THEN 1 ELSE 0)
  /\ leases' = leases \cup {Asking}
  /\ phase' = [phase EXCEPT ![Asking] = IF @ = "waiting" THEN "won" ELSE @]
  /\ pump' = [pump EXCEPT !.checked = FALSE]
  /\ UNCHANGED <<aborted, limits, gate>>

PumpEnds ==
  /\ pump.on /\ pump.i > Len(queue)
  /\ pump' = NoPump
  /\ UNCHANGED <<queue, counts, phase, aborted, limits, gate>>

Pump ==
  /\ PumpFull \/ PumpSkips \/ PumpSamples \/ PumpHolds \/ PumpGrants \/ PumpEnds
  /\ UNCHANGED machine

-----------------------------------------------------------------------------
(* The runtime of a run *)

\* Mutant: the newest request is the first.
MutantQueued(a) == <<a>> \o queue
QueuedLast(a) == Append(queue, a)

\* request
Request(a) ==
  /\ phase[a] = "new"
  /\ phase' = [phase EXCEPT ![a] = "waiting"]
  /\ queue' = QueuedLast(a)
  /\ Pumps
  /\ UNCHANGED <<counts, aborted, limits, gate>>

\* The ticket's cancel: a request that still waits leaves the queue.
Cancels(a) ==
  \/ /\ a \in Waiting
     /\ \E i \in DOMAIN queue : queue[i] = a /\ queue' = Without(i)
     /\ Pumps
  \/ a \notin Waiting /\ UNCHANGED <<queue, pump>>

\* An abort, of one agent (skip, a ceiling) or of all of a run, which takes the
\* requests back itself.  An agent whose slot came first goes on to see it.
Abort(a, all) ==
  /\ phase[a] \in {"waiting", "won", "running", "lost"} /\ (all \/ a \notin aborted)
  /\ aborted' = aborted \cup {a}
  /\ phase' = [phase EXCEPT ![a] = IF @ = "waiting" THEN "lost" ELSE @]
  /\ IF all /\ phase[a] # "running" THEN Cancels(a) ELSE UNCHANGED <<queue, pump>>
  /\ UNCHANGED <<counts, limits, gate>>

\* Mutant: the heavy slot is not given back.
MutantHeavyWithout(a) == heavy
HeavyWithout(a) == heavy - (IF a \in Heavy THEN 1 ELSE 0)

\* release
Releases(a) ==
  /\ leases' = leases \ {a}
  /\ active' = active - 1
  /\ heavy' = HeavyWithout(a)
  /\ baseline' = IF active = 1 THEN None ELSE baseline
  /\ Pumps

\* The slot came first: the agent starts, or gives the slot back.
Won(a) ==
  /\ phase[a] = "won"
  /\ \/ /\ a \notin aborted
        /\ phase' = [phase EXCEPT ![a] = "running"]
        /\ UNCHANGED <<counts, baseline, pump>>
     \/ /\ a \in aborted
        /\ phase' = [phase EXCEPT ![a] = "over"]
        /\ Releases(a)
  /\ UNCHANGED <<queue, aborted, limits, timer>>

AfterLoss(a) == IF a \in leases THEN "late" ELSE "over"

\* The abort came first: the request is taken back, or its grant is awaited.
Lost(a) ==
  /\ phase[a] = "lost"
  /\ phase' = [phase EXCEPT ![a] = AfterLoss(a)]
  /\ Cancels(a)
  /\ UNCHANGED <<counts, aborted, limits, gate>>

\* A grant that lost the race, or an agent that ends, gives its slot back.
Back(a) ==
  /\ phase[a] \in {"late", "running"}
  /\ phase' = [phase EXCEPT ![a] = "over"]
  /\ Releases(a)
  /\ UNCHANGED <<queue, aborted, limits, timer>>

-----------------------------------------------------------------------------
(* The machine and the settings *)

Configure(l) ==
  /\ limits' = l
  /\ Pumps
  /\ UNCHANGED <<queue, counts, phase, aborted, gate>>

Recheck ==
  /\ timer
  /\ timer' = FALSE
  /\ Pumps
  /\ UNCHANGED <<queue, counts, phase, aborted, limits, baseline>>

\* Memory changes at any time, also during a walk.
Machine ==
  /\ \/ memory' \in {"fine", "short", "none"} /\ UNCHANGED swap
     \/ swap' \in 0 .. MaxSwap /\ UNCHANGED memory
  /\ UNCHANGED <<queue, counts, phase, aborted, limits, gate, pump>>

Runtime(a) ==
  /\ Idle
  /\ \/ Request(a) \/ Won(a) \/ Lost(a) \/ Back(a)
     \/ \E all \in BOOLEAN : Abort(a, all)
  /\ UNCHANGED machine

Next ==
  \/ Pump
  \/ \E a \in Agents : Runtime(a)
  \/ Idle /\ (Recheck \/ \E l \in Limits : Configure(l)) /\ UNCHANGED machine
  \/ Machine

Spec == Init /\ [][Next]_vars

\* Promises settle, timers fire and agents end between whatever else keeps the
\* queue walking (hence strong fairness: each waits for a walk to be over).
\* Memory need not come back and nobody has to press anything.
SettleFairness ==
  /\ WF_vars(Pump)
  /\ \A a \in Agents : SF_vars(Idle /\ (Won(a) \/ Lost(a)) /\ UNCHANGED machine)
  /\ SF_vars(Idle /\ Recheck /\ UNCHANGED machine)
LiveSpec == Spec /\ SettleFairness

-----------------------------------------------------------------------------
(* Properties *)

Phases == {"new", "waiting", "won", "lost", "late", "running", "over"}

\* Every variable has its type, and a request is in the queue at most once.
TypeOK ==
  /\ queue \in Seq(Agents) /\ Cardinality(Waiting) = Len(queue)
  /\ active \in Nat /\ heavy \in Nat /\ leases \subseteq Agents /\ aborted \subseteq Agents
  /\ phase \in [Agents -> Phases]
  /\ limits \in Limits
  /\ baseline \in 0 .. None /\ timer \in BOOLEAN
  /\ pump \in [on : BOOLEAN, i : Nat \ {0}, checked : BOOLEAN, open : BOOLEAN]
  /\ memory \in {"fine", "short", "none"} /\ swap \in 0 .. MaxSwap

\* The counters are the slots that are out, and each of these is with an agent
\* that will give it back: no race of a grant with an abort loses a slot or
\* gives one back twice (release, and the late grant in execute).
SlotsAreHeld ==
  /\ active = Cardinality(leases) /\ heavy = Cardinality(leases \cap Heavy)
  /\ \A a \in leases : phase[a] \in {"won", "lost", "late", "running"}
  /\ \A a \in Agents : phase[a] \in {"won", "late", "running"} => a \in leases

\* The next slot never goes beyond the limits of the moment, and requests are
\* served as they came: a waiting request is overtaken, by one behind it or by
\* a new one, only while it is heavy and every heavy slot is taken (pump:
\* "without blocking the ordinary agents queued behind it").
Before(a) == {queue[i] : i \in {j \in DOMAIN queue : a \in Waiting => a \in From(j + 1)}}
InTurn ==
  /\ \A a \in leases' \ leases :
       /\ active' <= limits.machine /\ (a \in Heavy => heavy' <= limits.heavy)
       /\ \A b \in Before(a) : HeavyFull(b)
  /\ \A a \in Waiting' : Before(a) \cap Waiting' \subseteq Before(a)'
GrantsInTurn == [][InTurn]_vars

\* While nothing of ours runs nobody waits: "the first agent always goes, so a
\* busy machine slows a run down instead of parking it forever" (memoryOpen).
NobodyWaitsAlone == Idle /\ queue # <<>> => active > 0

\* A slot that could be used is used: when the walk is over, a request waits
\* only for a slot that is taken or for a recheck that is due.
NoSlotIsWasted == Idle => \A a \in Waiting :
  active >= limits.machine \/ HeavyFull(a) \/ timer

\* When memory is back for good no request goes on waiting for it, even if no
\* agent ever ends: again and again there is a moment in which nobody waits who
\* has a slot to go to.  Rechecks that hold the same request for ever are not
\* enough (scheduleRecheck, memoryOpen).
Roomy == memory = "fine" /\ swap = 0
MemoryWaitEnds == <>[]Roomy =>
  []<>~(\E a \in Waiting : active < limits.machine /\ ~HeavyFull(a))
=============================================================================
