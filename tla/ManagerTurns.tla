----------------------------- MODULE ManagerTurns -----------------------------
(***************************************************************************)
(* How the messages of one chat reach Cora's manager, turn by turn         *)
(* (src/main/orchestration/run-store.ts, pi-backend.ts, and the small      *)
(* modules they call).                                                     *)
(*                                                                         *)
(* A message is recorded on the run and queued.  Background CYCLES decide  *)
(* to run a turn: the planning cycle, the steering follow-up, Resume, the  *)
(* recovery of a parked turn.  They queue on the run's turn lock, and the  *)
(* TURN of the lock's holder claims every queued message, prompts the      *)
(* provider and settles.  The user sends, unqueues, presses Send now, Stop *)
(* and Resume at any moment in between.  Everything runs on one event      *)
(* loop: an action here is the code between two awaits that matter, and    *)
(* the run is the live cached object, so every step reads its latest state.*)
(* Promise continuations that only read the cached run (what a cycle does  *)
(* when its wait is over or its turn returns) come before anything that    *)
(* waits for a file, the provider or the user: see Quiet and Committing.   *)
(*                                                                         *)
(* The chat: a managed run on the Pi backend in auto mode whose turns call *)
(* no orchestration tool, so it has no step and no worker, and which stays *)
(* below the compaction limit.  Not here: answers to questions, rewinds,   *)
(* cancelling the run and app restarts.                                    *)
(***************************************************************************)
EXTENDS Naturals, Sequences, FiniteSets

CONSTANTS
  Messages,    \* the user's messages
  MaxTries,    \* MAX_AUTOMATIC_DELIVERY_ATTEMPTS
  MaxRetries,  \* MAX_MANAGER_TRANSIENT_RETRIES
  MaxClicks,   \* bound: presses of Send now, Stop and Resume, all together
  MaxFailed,   \* bound: the provider fails only while fewer calls have failed
  MaxCycles    \* bound: background cycles alive at once

ASSUME ManagerTurnsAssumption ==
  /\ MaxTries \in Nat /\ MaxRetries \in Nat /\ MaxClicks \in Nat
  /\ MaxFailed \in Nat
  /\ MaxCycles \in Nat \ {0}

VARIABLES
  status,    \* the run's status
  epoch,     \* its conversation epoch: Stop starts a new one
  recovery,  \* managerTurnRecovery: the parked turn and who resumes it
  msgs,      \* humanMessages
  calls,     \* sparkCalls
  lock,      \* the turn lock: cycles inside askManagerBackend, holder first
  turn,      \* the turn of the lock's holder
  cycles,    \* background cycles
  plan,      \* activeAutopilotPlans: the planning cycle on record, or 0
  request,   \* sendNowRequests: what Send now still has to interrupt for
  stopping,  \* Stops inside their force-pause window, with the epoch they saw
  clicks     \* presses so far

vars == <<status, epoch, recovery, msgs, calls, lock, turn, cycles, plan,
          request, stopping, clicks>>
run  == <<status, epoch, recovery>>
chat == <<msgs, calls>>
work == <<cycles, plan>>
ui   == <<request, stopping, clicks>>

-----------------------------------------------------------------------------
(* The run *)

Driving  == {"planning", "running"}
Terminal == {"complete", "failed"}
Statuses == Driving \cup Terminal \cup {"paused", "blocked"}

NoRecovery == [state |-> "none", mode |-> "chat", claim |-> 0]

\* A run saved in a terminal status loses its recovery (normalizeRun).
Ended(s) ==
  /\ status' = s
  /\ recovery' = IF s \in Terminal THEN NoRecovery ELSE recovery

\* Messages waiting for a turn of this epoch.
QueuedIn(ms, e) ==
  {m \in Messages : ms[m].state = "queued" /\ ms[m].owner = 0 /\ ms[m].epoch = e}
Queued == QueuedIn(msgs, epoch)

\* Live in the current epoch: its call is started.
Active(cs, e) == {c \in DOMAIN cs : cs[c].epoch = e /\ cs[c].state = "started"}
ActiveCall    == Active(calls, epoch)

\* hasQueuedSteering: input that drives a turn without being asked for.
Steering(ms, explicit) ==
  {m \in QueuedIn(ms, epoch) : explicit \/ (ms[m].steer /\ ms[m].tries < MaxTries)}

-----------------------------------------------------------------------------
(* Cycles and the turn lock *)

Cycles == 1 .. MaxCycles
Kinds  == {"plan", "resume", "followup", "recovery", "flush", "autoresume"}

NoCycle == [kind |-> "none", pc |-> "free", mode |-> "chat", epoch |-> 0,
            behind |-> {}, turns |-> {}, explicit |-> FALSE, before |-> 0,
            call |-> 0, result |-> "none"]

Live(cs, kind) == {d \in Cycles : cs[d].kind = kind}
Room(cs, n)    == Cardinality(Live(cs, "none")) >= n
Slot(cs)       == CHOOSE d \in Cycles : d \in Live(cs, "none")

InLock == {lock[i] : i \in DOMAIN lock}

\* managerWorkSettled: what a new cycle waits behind.
Behind(p) == IF p = 0 THEN {} ELSE {p}
Waiting(kind, p) ==
  [NoCycle EXCEPT !.kind = kind, !.pc = "wait", !.epoch = epoch,
                  !.behind = Behind(p), !.turns = InLock]
MayGo(d) == cycles[d].pc = "wait" /\ cycles[d].behind = {} /\ cycles[d].turns = {}

\* scheduleInitialManagerDecision: one planning cycle, unless it may queue up.
Planned(cs, p, mode, afterCurrent) ==
  IF p # 0 /\ ~afterCurrent THEN cs
  ELSE [cs EXCEPT ![Slot(cs)] =
          [NoCycle EXCEPT !.kind = "plan", !.pc = "wait", !.epoch = epoch,
                          !.mode = mode, !.behind = Behind(p)]]
PlanAfter(cs, p, afterCurrent) == IF p # 0 /\ ~afterCurrent THEN p ELSE Slot(cs)

\* scheduleQueuedSteeringFollowup, for the messages ms.
FollowsUp(cs, ms, explicit) == Steering(ms, explicit) # {} /\ Live(cs, "followup") = {}
FollowedUp(cs, p, ms, explicit) ==
  IF FollowsUp(cs, ms, explicit)
  THEN [cs EXCEPT ![Slot(cs)] = [Waiting("followup", p) EXCEPT !.explicit = explicit]]
  ELSE cs

\* Mutant: the others go on waiting for the cycle that ended.
MutantFreed(cs, d) == [cs EXCEPT ![d] = NoCycle]

\* A cycle that ended no longer holds anybody up.
Freed(cs, d) ==
  [e \in Cycles |-> IF e = d THEN NoCycle ELSE [cs[e] EXCEPT !.behind = @ \ {d}]]
Ends(cs, p, d) ==
  /\ cycles' = Freed(cs, d)
  /\ plan' = IF p = d THEN 0 ELSE p

-----------------------------------------------------------------------------
(* The turn *)

NoTurn == [pc |-> "idle", call |-> 0, epoch |-> 0, mode |-> "chat",
           account |-> TRUE, cut |-> FALSE, marked |-> FALSE, kept |-> FALSE,
           result |-> "none", retries |-> 0, claim |-> 0]

\* askManagerBackendUnderTurnLock begins with the turn's account.
Turn(mode, retries, claim) ==
  [NoTurn EXCEPT !.pc = "account", !.mode = mode, !.retries = retries, !.claim = claim]
TurnOf(d, mode) == Turn(mode, 0, IF cycles[d].kind = "recovery" THEN d ELSE 0)

\* Mutant: the turn begins although another one holds the lock.
MutantAsks(d, mode) ==
  /\ lock' = Append(lock, d)
  /\ cycles' = [cycles EXCEPT ![d].mode = mode, ![d].before = Len(calls), ![d].pc = "turn"]
  /\ turn' = TurnOf(d, mode)

\* askManagerBackend: queue on the turn lock.  A turn that has to wait, for the
\* lock or for a Stop under way, decides again once it is let in (LetIn).
Asks(d, mode) ==
  LET now == lock = <<>> /\ stopping = {}
      cs  == [cycles EXCEPT ![d].mode = mode, ![d].before = Len(calls),
                            ![d].pc = IF now THEN "turn" ELSE "ask"]
  IN /\ lock' = Append(lock, d)
     /\ cycles' = cs
     /\ turn' = IF now THEN TurnOf(d, mode) ELSE turn

At(pc) == turn.pc = pc
Goes(pc) == turn' = [turn EXCEPT !.pc = pc]
Holder == Head(lock)

\* isManagerTurnCurrent: the call is on the run, so only the epoch can move.
Current == turn.epoch = epoch

\* Mutant: whoever waits for this turn is not told that it is over.
MutantReturned(cs, result) ==
  /\ turn' = NoTurn
  /\ lock' = Tail(lock)
  /\ cycles' = [cs EXCEPT ![Holder].pc = "back", ![Holder].result = result]

\* The turn hands the lock back to its cycle.
Returned(cs, result) ==
  /\ turn' = NoTurn
  /\ lock' = Tail(lock)
  /\ cycles' = [e \in Cycles |->
       IF e = Holder THEN [cs[e] EXCEPT !.pc = "back", !.result = result]
       ELSE [cs[e] EXCEPT !.turns = @ \ {Holder}]]
Returns(result) == Returned(cycles, result)

\* The phases in which the provider's runtime serves this turn, so that an
\* interrupt or a disposal reaches it.  A live turn's prompt was accepted
\* (promptAcceptedCalls).
Serving == {"startup", "live"}
Cut(t) == IF t.pc \in Serving THEN [t EXCEPT !.cut = TRUE] ELSE t

\* sendNowRequests names the messages that were queued at the click.
NoRequest == [by |-> 0, epoch |-> 0, ids |-> {}]

-----------------------------------------------------------------------------
Init ==
  /\ status = "complete" /\ epoch = 0 /\ recovery = NoRecovery
  /\ msgs = [m \in Messages |->
       [state |-> "unsent", epoch |-> 0, owner |-> 0, steer |-> FALSE,
        tries |-> 0, again |-> FALSE, engage |-> "no"]]
  /\ calls = <<>> /\ lock = <<>> /\ turn = NoTurn
  /\ cycles = [d \in Cycles |-> NoCycle] /\ plan = 0
  /\ request = NoRequest
  /\ stopping = {} /\ clicks = 0

-----------------------------------------------------------------------------
(* The user *)

Clicks == clicks < MaxClicks /\ clicks' = clicks + 1

\* addRunMessage: record the message, reviving a run that had ended.  On a
\* blocked run it would be the answer to the question.
Record(m) ==
  /\ msgs[m].state = "unsent" /\ status # "blocked" /\ Room(cycles, 2)
  /\ msgs' = [msgs EXCEPT ![m] =
       [state |-> "queued", epoch |-> epoch, owner |-> 0,
        steer |-> status \in Driving \/ ActiveCall # {}, tries |-> 0,
        again |-> FALSE,
        engage |-> IF status \in Terminal THEN "revived" ELSE "yes"]]
  /\ status' = IF status \in Terminal THEN "planning" ELSE status
  /\ UNCHANGED <<epoch, recovery, calls, lock, turn, work, ui>>

\* Its second half, once the message's checkpoint is durable: whatever has to
\* drive the message is scheduled from the state of that moment.
Engage(m) ==
  LET revived == msgs[m].engage = "revived"
      p  == IF revived THEN PlanAfter(cycles, plan, TRUE) ELSE plan
      c1 == IF revived THEN Planned(cycles, plan, "chat", TRUE) ELSE cycles
      steers == msgs[m].steer /\ (ActiveCall # {} \/ p # 0 \/ status = "running")
      c2 == IF steers THEN FollowedUp(c1, p, msgs, FALSE) ELSE c1
      resumes == status = "paused" /\ Live(c2, "autoresume") = {}
  IN /\ msgs[m].engage # "no"
     /\ revived => Room(cycles, 1)
     /\ steers /\ FollowsUp(c1, msgs, FALSE) => Room(c1, 1)
     /\ resumes => Room(c2, 1)
     /\ msgs' = [msgs EXCEPT ![m].engage = "no"]
     /\ plan' = p
     /\ cycles' = IF resumes
                  THEN [c2 EXCEPT ![Slot(c2)] = Waiting("autoresume", p)]
                  ELSE c2
     /\ UNCHANGED <<run, calls, lock, turn, ui>>

\* cancelQueuedMessage, refused once a turn has claimed the message.
Unqueue(m) ==
  /\ msgs[m].state = "queued" /\ msgs[m].owner = 0
  /\ msgs' = [msgs EXCEPT ![m].state = "removed"]
  /\ UNCHANGED <<run, calls, lock, turn, work, ui>>

\* interruptForSendNow: for the request r, is there a prompted turn to stop?
Wants(r)   == r.by # 0 /\ r.epoch = epoch /\ r.ids \cap Queued # {}
ToStop(r)  == Wants(r) /\ ActiveCall = {turn.call} /\ At("live")
StillAsked(r) == IF Wants(r) /\ ~ToStop(r) THEN r ELSE NoRequest

\* deliverQueuedMessagesNow.  The interrupt of a prompted turn follows once the
\* mark is journalled (Interrupt).
SendNow ==
  /\ Clicks /\ Queued # {} /\ status # "blocked" /\ Room(cycles, 2)
  /\ LET d == Slot(cycles)
         r == [by |-> d, epoch |-> epoch, ids |-> Queued]
     IN /\ request' = StillAsked(r)
        /\ turn' = [turn EXCEPT !.marked = @ \/ ToStop(r)]
        /\ cycles' = [cycles EXCEPT ![d] =
             IF ToStop(r)
             THEN [Waiting("flush", 0) EXCEPT !.pc = "interrupt", !.call = turn.call]
             ELSE Waiting("flush", plan)]
  /\ UNCHANGED <<run, chat, lock, plan, stopping>>

\* forcePauseRun, up to the end of the teardown: the window is open and the
\* session that serves a turn is disposed.
Stop ==
  /\ Clicks /\ status \in Driving \cup {"blocked"}
  /\ stopping' = stopping \cup {[id |-> clicks', epoch |-> epoch]}
  /\ turn' = Cut(turn)
  /\ UNCHANGED <<run, chat, lock, work, request>>

\* resumeRun of a paused run, called with the cycles cs and planning cycle p.
Resumes(cs, p) ==
  \/ /\ recovery.state = "resuming"             \* already-resuming
     /\ cycles' = cs /\ plan' = p
     /\ UNCHANGED <<status, recovery>>
  \/ /\ recovery.state = "parked"               \* resumeManagerTurnRecovery
     /\ status' = "running"
     /\ recovery' = [recovery EXCEPT !.state = "resuming", !.claim = Slot(cs)]
     /\ cycles' = [cs EXCEPT ![Slot(cs)] =
          [NoCycle EXCEPT !.kind = "recovery", !.pc = "claimed", !.epoch = epoch,
                          !.mode = recovery.mode]]
     /\ plan' = p
  \/ /\ recovery.state = "none" /\ ActiveCall = {}
     /\ status' = "running"
     /\ cycles' = [cs EXCEPT ![Slot(cs)] = Waiting("resume", p)]
     /\ plan' = Slot(cs)
     /\ UNCHANGED recovery
  \/ /\ recovery.state = "none" /\ ActiveCall # {}
     /\ status' = "running"
     /\ cycles' = cs /\ plan' = p
     /\ UNCHANGED recovery

Resume ==
  /\ Clicks /\ status = "paused" /\ Room(cycles, 2)
  /\ Resumes(cycles, plan)
  /\ UNCHANGED <<epoch, chat, lock, turn, request, stopping>>

UserStep ==
  \/ \E m \in Messages : Record(m) \/ Unqueue(m)
  \/ SendNow \/ Stop \/ Resume

-----------------------------------------------------------------------------
(* The rest of a Stop *)

\* Mutant: only what a live call held moves to the new epoch.
MutantCarried(m, e, swept) ==
  IF m.owner \in swept /\ m.state \in {"queued", "submitted"}
  THEN [m EXCEPT !.state = "queued", !.epoch = e + 1, !.owner = 0,
                 !.again = @ \/ m.state = "submitted"]
  ELSE m

\* Stop's sweep: what a live call held goes back to the queue, and all queued
\* input moves to the new epoch.
Carried(m, e, swept) ==
  IF m.owner \in swept /\ m.state \in {"queued", "submitted"}
  THEN [m EXCEPT !.state = "queued", !.epoch = e + 1, !.owner = 0,
                 !.again = @ \/ m.state = "submitted"]
  ELSE IF m.state = "queued" /\ m.owner = 0 /\ m.epoch = e
  THEN [m EXCEPT !.epoch = e + 1]
  ELSE m

\* The pause commit; then the window closes.
StopLands(s) ==
  /\ s \in stopping
  /\ stopping' = stopping \ {s}
  /\ plan' = 0
  /\ IF s.epoch = epoch
     THEN LET swept == {c \in DOMAIN calls : calls[c].state = "started"}
          IN /\ status' = "paused" /\ epoch' = epoch + 1
             /\ recovery' = NoRecovery   \* normalizeRun: of a spent epoch
             /\ calls' = [c \in DOMAIN calls |->
                  IF c \in swept THEN [calls[c] EXCEPT !.state = "failed"] ELSE calls[c]]
             /\ msgs' = [m \in Messages |-> Carried(msgs[m], epoch, swept)]
     ELSE UNCHANGED <<run, chat>>
  /\ UNCHANGED <<lock, turn, cycles, request, clicks>>

-----------------------------------------------------------------------------
(* The cycles decide, wait for their turn, and act on what came back *)

Turns(d, pc) == cycles' = [cycles EXCEPT ![d].pc = pc] /\ UNCHANGED plan
Wanted(d) == cycles[d].epoch = epoch /\ status \notin {"paused", "blocked"}
Idles(d) ==
  /\ Ends(cycles, plan, d)
  /\ UNCHANGED <<status, recovery, lock, turn, request>>

PlanDecides(d) ==
  /\ cycles[d].kind = "plan" /\ MayGo(d)
  /\ \/ Wanted(d) /\ Asks(d, cycles[d].mode) /\ UNCHANGED <<status, recovery, plan, request>>
     \/ ~Wanted(d) /\ Idles(d)

ResumeDecides(d) ==
  LET go == cycles[d].epoch = epoch /\ status = "running"
  IN /\ cycles[d].kind = "resume" /\ MayGo(d)
     /\ \/ go /\ Asks(d, "chat") /\ UNCHANGED <<status, recovery, plan, request>>
        \/ ~go /\ Idles(d)

\* A run that ended meanwhile is revived for the steering still queued.
FollowupDecides(d) ==
  LET go == Wanted(d) /\ Steering(msgs, cycles[d].explicit) # {}
  IN /\ cycles[d].kind = "followup" /\ MayGo(d)
     /\ \/ /\ go /\ Asks(d, "chat")
           /\ status' = IF status \in Terminal THEN "planning" ELSE status
           /\ UNCHANGED <<recovery, plan, request>>
        \/ ~go /\ Idles(d)

Claims(d) == recovery.state = "resuming" /\ recovery.claim = d

\* scheduleClaimedManagerTurnRecovery, when the claim is durable.
RecoveryDecides(d) ==
  LET go == Wanted(d) /\ status \in Driving /\ Claims(d)
  IN /\ cycles[d].pc = "claimed"
     /\ \/ go /\ Asks(d, cycles[d].mode)
        \/ ~go /\ cycles' = [cycles EXCEPT ![d].pc = "repark"] /\ UNCHANGED <<lock, turn>>
     /\ UNCHANGED <<status, recovery, plan, request>>

\* scheduleResumeForUserMessage: decided again when its wait is over.
AutoresumeDecides(d) ==
  LET go == cycles[d].epoch = epoch /\ status = "paused"
  IN /\ cycles[d].kind = "autoresume" /\ MayGo(d)
     /\ \/ go /\ Turns(d, "resume") /\ UNCHANGED <<status, recovery, lock, turn, request>>
        \/ ~go /\ Idles(d)

\* interruptChat, once Send now's mark is in the journal: whatever the session
\* serves now is aborted.
Interrupt(d) ==
  /\ cycles[d].pc = "interrupt"
  /\ turn' = Cut(turn)
  /\ cycles' = [cycles EXCEPT ![d] =
       [Waiting("flush", plan) EXCEPT !.epoch = cycles[d].epoch]]
  /\ UNCHANGED <<status, recovery, lock, plan, request>>

\* The end of deliverQueuedMessagesNow.
FlushDecides(d) ==
  LET go == cycles[d].epoch = epoch /\ Queued # {} /\ ActiveCall = {}
      cs == Freed(cycles, d)
  IN /\ cycles[d].kind = "flush" /\ MayGo(d)
     /\ request' = IF request.by = d THEN NoRequest ELSE request
     /\ UNCHANGED <<lock, turn>>
     /\ UNCHANGED <<status, recovery, plan>>
     /\ cycles' = IF ~go \/ status = "blocked" THEN cs
                  ELSE IF status = "paused"
                  THEN [cycles EXCEPT ![d].pc = "resume"]
                  ELSE FollowedUp(cs, plan, msgs, TRUE)

\* The lock came free for a turn that had to wait.
LetIn(d) ==
  /\ lock # <<>> /\ d = Holder /\ cycles[d].pc = "ask" /\ stopping = {}
  /\ IF status \in Driving
     THEN /\ turn' = TurnOf(d, cycles[d].mode)
          /\ cycles' = [cycles EXCEPT ![d].pc = "turn"]
          /\ UNCHANGED lock
     ELSE Returns("run")
  /\ UNCHANGED <<status, recovery, plan, request>>

-----------------------------------------------------------------------------
\* steeringFollowupEarnedAnotherTurn: a steer the newest call since did not carry.
Earned(before) ==
  LET since == {c \in DOMAIN calls : c > before /\ calls[c].epoch = epoch}
  IN \E c \in since :
       /\ \A b \in since : b <= c
       /\ \E m \in QueuedIn(msgs, epoch) \ calls[c].input : msgs[m].steer

\* How a cycle ends.  A follow-up looks for steering that came in meanwhile.
Done(d) ==
  /\ plan' = IF plan = d THEN 0 ELSE plan
  /\ cycles' =
       IF cycles[d].kind = "followup" /\ Wanted(d) /\ Earned(cycles[d].before)
       THEN FollowedUp(Freed(cycles, d), plan, msgs, FALSE)
       ELSE Freed(cycles, d)

Settled == status \notin Driving

\* The planning cycle, a follow-up or a recovery has the run its turn left:
\* a run still being driven goes on to startAutopilot.
BackWithRun(d) ==
  /\ cycles[d].pc = "back" /\ cycles[d].result = "run" /\ cycles[d].kind # "resume"
  /\ \/ ~Settled /\ Turns(d, "hop")
     \/ Settled /\ cycles[d].kind = "recovery" /\ Turns(d, "repark")
     \/ Settled /\ cycles[d].kind # "recovery" /\ Done(d)
  /\ UNCHANGED <<status, recovery>>

\* No decision, or an error: a recovery is parked again, otherwise the user is
\* asked or the run marked failed.
BackWithout(d) ==
  /\ cycles[d].pc = "back" /\ cycles[d].result # "run" /\ cycles[d].kind # "resume"
  /\ Turns(d, IF cycles[d].kind = "recovery" THEN "repark"
              ELSE IF cycles[d].result = "null" THEN "question" ELSE "mark")
  /\ UNCHANGED <<status, recovery>>

\* askHumanQuestion, which refuses a run that went elsewhere meanwhile.
Question(d) ==
  /\ cycles[d].pc = "question"
  /\ status' = IF status \in Driving THEN "blocked" ELSE status
  /\ Done(d)
  /\ UNCHANGED recovery

\* markInitialAutopilotPlanningFailed
Mark(d) ==
  /\ cycles[d].pc = "mark"
  /\ IF status \in Driving THEN Ended("failed") ELSE UNCHANGED <<status, recovery>>
  /\ Done(d)

\* A resumed chat whose turn left nothing settled still gets a driver.
ResumeBack(d) ==
  /\ cycles[d].pc = "back" /\ cycles[d].kind = "resume"
  /\ IF cycles[d].result = "run" /\ Settled THEN Done(d) ELSE Turns(d, "finish")
  /\ UNCHANGED <<status, recovery>>

\* startAutopilot after a turn: it writes "running" and schedules a planning
\* turn, unless one is on record (this very cycle, usually).
Hop(d) ==
  /\ cycles[d].pc = "hop" /\ (plan = 0 => Room(cycles, 1))
  /\ status' = "running" /\ UNCHANGED recovery
  /\ LET cs == Planned(cycles, plan, "plan_analysis", FALSE)
         p  == PlanAfter(cycles, plan, FALSE)
     IN IF cycles[d].kind = "recovery"
        THEN cycles' = [cs EXCEPT ![d].pc = "repark"] /\ plan' = p
        ELSE Ends(cs, p, d)

\* A Send now or a message into a paused run ends in resumeRun.
Resumed(d) == cycles[d].pc = "resume" /\ Resumes(Freed(cycles, d), plan)

\* finishResumeAfterChatRoute
FinishResume(d) ==
  /\ cycles[d].pc = "finish" /\ Room(cycles, 1)
  /\ status' = "running" /\ UNCHANGED recovery
  /\ Ends(Planned(cycles, plan, "plan_analysis", TRUE),
          PlanAfter(cycles, plan, TRUE), d)

\* Mutant: the recovery is parked again and the run is not paused.
MutantRepark(d) ==
  /\ cycles[d].pc = "repark"
  /\ Done(d)
  /\ recovery' = IF Claims(d) THEN [recovery EXCEPT !.state = "parked", !.claim = 0]
                 ELSE recovery
  /\ UNCHANGED status

\* returnUnfinishedManagerRecoveryToParked
Repark(d) ==
  /\ cycles[d].pc = "repark"
  /\ Done(d)
  /\ IF ~Claims(d) THEN UNCHANGED <<status, recovery>>
     ELSE IF status \in Terminal \cup {"blocked"}
     THEN recovery' = NoRecovery /\ UNCHANGED status
     ELSE /\ recovery' = [recovery EXCEPT !.state = "parked", !.claim = 0]
          /\ status' = "paused"

Continue(d) ==
  \/ /\ \/ PlanDecides(d) \/ ResumeDecides(d) \/ FollowupDecides(d)
        \/ AutoresumeDecides(d) \/ FlushDecides(d) \/ LetIn(d)
     /\ UNCHANGED <<epoch, chat, stopping, clicks>>
  \/ /\ BackWithRun(d) \/ BackWithout(d) \/ ResumeBack(d)
     /\ UNCHANGED <<epoch, chat, lock, turn, ui>>

\* The commits that a continuation puts into the run's mutation queue at once.
\* A resume whose turn threw writes to the journal first.
Committing(d) ==
  /\ cycles[d].pc \in
       {"resume", "claimed", "question", "mark", "hop", "finish", "repark"}
  /\ ~(cycles[d].pc = "finish" /\ cycles[d].result = "throw")
Commit(d) ==
  /\ Committing(d)
  /\ \/ RecoveryDecides(d) /\ UNCHANGED <<epoch, chat, stopping, clicks>>
     \/ /\ \/ Resumed(d) \/ Question(d) \/ Mark(d) \/ Hop(d) \/ FinishResume(d)
           \/ Repark(d)
        /\ UNCHANGED <<epoch, chat, lock, turn, ui>>
Later(d) ==
  \/ Interrupt(d) /\ UNCHANGED <<epoch, chat, stopping, clicks>>
  \/ /\ ~Committing(d) /\ FinishResume(d)
     /\ UNCHANGED <<epoch, chat, lock, turn, ui>>

-----------------------------------------------------------------------------
(* The turn, step by step, between the awaits that matter *)

\* May a turn still go wrong on the provider's side?
MayFail == Cardinality({c \in DOMAIN calls : calls[c].state = "failed"}) < MaxFailed

\* The account resolves, or the failure is kept for later; then the epoch the
\* turn belongs to is read.
Account ==
  /\ At("account")
  /\ \E ok \in IF MayFail THEN BOOLEAN ELSE {TRUE} :
       turn' = [turn EXCEPT !.pc = "prepare", !.account = ok, !.epoch = epoch]
  /\ UNCHANGED <<run, chat, lock, work, request>>

\* prepareManagerTurn: register the call and claim everything queued.
Prepare ==
  /\ At("prepare")
  /\ \/ /\ ~Current /\ Returns("throw") /\ UNCHANGED chat
     \/ /\ Current
        /\ LET c == Len(calls) + 1
           IN /\ calls' = Append(calls,
                   [epoch |-> epoch, state |-> "started", input |-> Queued,
                    accepted |-> "no"])
              /\ msgs' = [m \in Messages |->
                   IF m \in Queued THEN [msgs[m] EXCEPT !.owner = c] ELSE msgs[m]]
              /\ turn' = [turn EXCEPT !.pc = "launch", !.call = c]
        /\ UNCHANGED <<lock, cycles>>
  /\ UNCHANGED <<run, plan, request>>

\* Mutant: the turn does not wait for the journal.
MutantLaunch ==
  /\ At("launch")
  /\ IF Current THEN Goes("compose") /\ UNCHANGED <<lock, cycles>> ELSE Returns("throw")
  /\ UNCHANGED <<run, chat, plan, request>>

\* The commit is durable (the journal is first in, first out, so an interrupt
\* announced before it has gone out).  A moved epoch is noticed here for the
\* last time; the prompt is composed after it.
Launch ==
  /\ At("launch")
  /\ \A d \in Cycles : cycles[d].pc # "interrupt"
  /\ IF Current THEN Goes("compose") /\ UNCHANGED <<lock, cycles>> ELSE Returns("throw")
  /\ UNCHANGED <<run, chat, plan, request>>

\* The messages turn.call still owns, in the given delivery states.
OwnedIn(states) == {m \in Messages : msgs[m].owner = turn.call /\ msgs[m].state \in states}

\* The turn is over for the provider.  The call of an aborted or failed turn
\* settles in this write and its input in the next one (Release); the call of
\* an answer settles with its decision.
Results(result) ==
  \/ ~Current /\ Returns("run") /\ UNCHANGED calls
  \/ /\ Current /\ result = "answered" /\ Goes("apply")
     /\ UNCHANGED <<calls, lock, cycles>>
  \/ /\ Current /\ result # "answered"
     /\ calls' = [calls EXCEPT ![turn.call].state =
          IF result = "aborted" THEN "completed" ELSE "failed"]
     /\ turn' = [turn EXCEPT !.pc = "release", !.result = result,
                  !.kept = result = "aborted" /\ turn.marked]
     /\ UNCHANGED <<lock, cycles>>

\* The session starts, unless there was no account for it.
Compose ==
  /\ At("compose")
  /\ IF turn.account THEN Goes("startup") /\ UNCHANGED <<calls, lock, cycles>>
     ELSE Results("startup")
  /\ UNCHANGED <<run, msgs, plan, request>>

\* updateManagerInputDelivery: the rank of a message only rises.
Delivered(states, state) ==
  msgs' = [m \in Messages |->
    IF Current /\ m \in OwnedIn(states) THEN [msgs[m] EXCEPT !.state = state] ELSE msgs[m]]

\* The provider accepts the prompt: the input is submitted, and a Send now that
\* came too early for an interrupt is honoured (interruptForSendNow).  A call
\* that a Stop swept meanwhile is accepted "late", and nothing is recorded of it.
Accepts ==
  LET stop == Wants(request) /\ Current
  IN /\ calls' = [calls EXCEPT ![turn.call].accepted = IF Current THEN "yes" ELSE "late"]
     /\ Delivered({"queued"}, "submitted")
     /\ request' = IF Current THEN NoRequest ELSE StillAsked(request)
     /\ turn' = [turn EXCEPT !.pc = "live", !.marked = stop, !.cut = stop]
     /\ UNCHANGED <<lock, cycles>>

\* Startup fails, is aborted, or succeeds.
Startup ==
  /\ At("startup")
  /\ \/ MayFail /\ Results("startup") /\ UNCHANGED <<msgs, request>>
     \/ turn.cut /\ Results("aborted") /\ UNCHANGED <<msgs, request>>
     \/ ~turn.cut /\ Accepts
  /\ UNCHANGED <<run, plan>>

Answer ==
  /\ At("live")
  /\ \/ turn.cut /\ Results("aborted")
     \/ ~turn.cut /\ Results("answered")
     \/ ~turn.cut /\ MayFail /\ Results("failed")
  /\ UNCHANGED <<run, msgs, plan, request>>

\* Mutant: the replay does not say that it is one.
MutantReleased(m) == [m EXCEPT !.state = "queued", !.owner = 0, !.tries = @ + 1]

\* releaseUnsubmittedManagerInput
Released(m) ==
  [m EXCEPT !.state = "queued", !.owner = 0, !.tries = @ + 1,
            !.again = @ \/ m.state = "submitted"]

\* planManagerTurnFailure and handleManagerStartupFailure.
KeepState == status \notin Driving
Outcomes ==
  IF turn.result = "aborted" THEN IF turn.kept THEN {"again"} ELSE {"run"}
  ELSE IF turn.result = "failed"
  THEN IF KeepState THEN {"run"}
       ELSE {"park", "fail"} \cup IF turn.retries < MaxRetries THEN {"sleep"} ELSE {}
  ELSE IF turn.claim # 0 \/ ~Current THEN {"null"}
  ELSE IF KeepState THEN {"run"}
  ELSE {"park", "null"} \cup IF turn.retries = 0 THEN {"sleep"} ELSE {}

\* The input of an unanswered turn: a turn Send now stopped keeps it, any other
\* gives it back.  Then the failure policy looks at the run.
Release ==
  /\ At("release")
  /\ IF turn.kept
     THEN Delivered({"queued", "submitted"}, "acknowledged")
     ELSE msgs' = [m \in Messages |->
            IF Current /\ m \in OwnedIn({"queued", "submitted"})
            THEN Released(msgs[m]) ELSE msgs[m]]
  /\ \E next \in Outcomes :
       IF next \in {"run", "null"} THEN Returns(next)
       ELSE Goes(next) /\ UNCHANGED <<lock, cycles>>
  /\ UNCHANGED <<run, calls, plan, request>>

\* Another turn under the same lock: after a retry's delay, or right after a
\* turn that Send now cut short.
MayRetry == Current /\ status \in Driving /\ ActiveCall = {}
Again ==
  /\ At("sleep") \/ (At("again") /\ stopping = {})
  /\ \/ /\ MayRetry
        /\ turn' = IF At("again") THEN Turn("chat", 0, 0)
                   ELSE Turn(turn.mode, turn.retries + 1, turn.claim)
        /\ UNCHANGED <<lock, cycles>>
     \/ ~MayRetry /\ Returns("run")
  /\ UNCHANGED <<run, chat, plan, request>>

\* The park after startup looks at the run once more; the one after a failed
\* turn does not, but normalizeRun drops a recovery of a spent epoch.
Park ==
  /\ At("park")
  /\ IF turn.result = "startup" /\ ~(Current /\ status \in Driving)
     THEN UNCHANGED <<status, recovery>>
     ELSE /\ status' = "paused"
          /\ recovery' = IF Current
               THEN [state |-> "parked", mode |-> turn.mode, claim |-> 0]
               ELSE NoRecovery
  /\ Returns("run")
  /\ UNCHANGED <<epoch, chat, plan, request>>

Fail ==
  /\ At("fail")
  /\ Ended("failed")
  /\ Returns("run")
  /\ UNCHANGED <<epoch, chat, plan, request>>

\* applySparkManagerDecision of a reply: it completes a chat turn, and a
\* planning turn refuses it.
Apply ==
  /\ At("apply")
  /\ IF Current /\ status \notin Terminal
     THEN Ended(IF turn.mode = "chat" THEN "complete" ELSE "failed")
     ELSE UNCHANGED <<status, recovery>>
  /\ Goes("settle")
  /\ UNCHANGED <<epoch, chat, lock, work, request>>

\* settleAppliedManagerCall, then the follow-up for steering still queued.
Settle ==
  /\ At("settle")
  /\ Delivered({"queued", "submitted"}, "acknowledged")
  /\ FollowsUp(cycles, msgs', FALSE) => Room(cycles, 1)
  /\ calls' = IF Current THEN [calls EXCEPT ![turn.call].state = "completed"] ELSE calls
  /\ recovery' = IF Current /\ turn.claim # 0 /\ Claims(turn.claim) THEN NoRecovery
                 ELSE recovery
  /\ Returned(FollowedUp(cycles, plan, msgs', FALSE), "run")
  /\ UNCHANGED <<status, epoch, plan, request>>

TurnStep ==
  /\ \/ Account \/ Prepare \/ Launch \/ Compose \/ Startup \/ Answer
     \/ Release \/ Again \/ Park \/ Fail \/ Apply \/ Settle
  /\ UNCHANGED <<stopping, clicks>>

-----------------------------------------------------------------------------
\* No promise continuation is left to run.
Quiet == \A d \in Cycles :
  /\ ~MayGo(d) /\ cycles[d].pc # "back"
  /\ ~(cycles[d].pc = "ask" /\ d = Holder /\ stopping = {})

\* The mutation queue (runMutationQueues) is first in, first out, so a commit
\* already in it lands before anything that begins later.  Only a Stop's own
\* commit may come in between.
Calm == Quiet /\ \A d \in Cycles : ~Committing(d)

Next ==
  \/ \E d \in Cycles : Continue(d)
  \/ /\ Quiet
     /\ \/ \E d \in Cycles : Commit(d)
        \/ \E s \in stopping : StopLands(s)
  \/ /\ Calm
     /\ \/ UserStep
        \/ \E m \in Messages : Engage(m)
        \/ \E d \in Cycles : Later(d)
        \/ TurnStep

Spec == Init /\ [][Next]_vars

\* The event loop runs whatever is ready; a Stop's teardown, the provider and
\* every retry delay end (each has a timeout).  The user owes nothing.
Fairness ==
  /\ WF_vars(Calm /\ TurnStep)
  /\ \A d \in Cycles :
       /\ WF_vars(Continue(d))
       /\ WF_vars(Quiet /\ Commit(d)) /\ WF_vars(Calm /\ Later(d))
  /\ \A m \in Messages : WF_vars(Calm /\ Engage(m))
  /\ WF_vars(Quiet /\ \E s \in stopping : StopLands(s))
LiveSpec == Spec /\ Fairness

-----------------------------------------------------------------------------
(* Properties *)

Modes   == {"chat", "plan_analysis"}
Reports == {"none", "run", "null", "throw"}

Recoveries == [state : {"none", "parked", "resuming"}, mode : Modes,
               claim : {0} \cup Cycles]
MessageRecords ==
  [state : {"unsent", "queued", "submitted", "acknowledged", "removed"},
   epoch : Nat, owner : Nat, steer : BOOLEAN, tries : Nat, again : BOOLEAN,
   engage : {"no", "yes", "revived"}]
CallRecords ==
  [epoch : Nat, state : {"started", "completed", "failed"},
   input : SUBSET Messages, accepted : {"no", "yes", "late"}]
TurnRecords ==
  [pc : {"idle", "account", "prepare", "launch", "compose", "startup", "live",
         "apply", "settle", "release", "sleep", "again", "park", "fail"},
   call : Nat, epoch : Nat, mode : Modes, account : BOOLEAN, cut : BOOLEAN,
   marked : BOOLEAN, kept : BOOLEAN,
   result : {"none", "startup", "failed", "aborted"}, retries : Nat,
   claim : {0} \cup Cycles]
CycleRecords ==
  [kind : Kinds \cup {"none"},
   pc : {"free", "wait", "claimed", "interrupt", "ask", "turn", "back", "hop",
         "question", "mark", "finish", "repark", "resume"},
   mode : Modes, epoch : Nat, behind : SUBSET Cycles, turns : SUBSET Cycles,
   explicit : BOOLEAN, before : Nat, call : Nat, result : Reports]

\* Every variable has its type.
TypeOK ==
  /\ status \in Statuses /\ epoch \in Nat /\ clicks \in Nat
  /\ recovery \in Recoveries
  /\ msgs \in [Messages -> MessageRecords]
  /\ calls \in Seq(CallRecords)
  /\ lock \in Seq(Cycles)
  /\ turn \in TurnRecords
  /\ cycles \in [Cycles -> CycleRecords] /\ plan \in {0} \cup Cycles
  /\ request \in [by : {0} \cup Cycles, epoch : Nat, ids : SUBSET Messages]
  /\ stopping \subseteq [id : Nat, epoch : Nat]

Waits(m)   == msgs[m].state = "queued" /\ msgs[m].owner = 0
HadBy(m)   == {c \in DOMAIN calls : m \in calls[c].input /\ calls[c].accepted = "yes"}

\* A run has at most one manager call in progress, and it is the call of the
\* turn that holds the turn lock (managerTurnLock, askManagerBackend).
OneLiveCall == \A c \in DOMAIN calls :
  calls[c].state = "started" => lock # <<>> /\ c = turn.call

\* A message waiting in the queue always belongs to the current conversation
\* epoch, the only one a turn, Send now or Resume reads
\* (carryQueuedInputAcrossEpoch and the sweep of a Stop).
NothingWaitsInASpentEpoch == \A m \in Messages : Waits(m) => msgs[m].epoch = epoch

\* A message the provider had, and that waits in the queue once more, carries
\* the note that it is a redelivery (redelivered: the replay "must say so, or
\* Cora treats it as a fresh request and redoes started work").
ReplayIsMarked == \A m \in Messages :
  Waits(m) /\ HadBy(m) # {} => msgs[m].again

\* The interrupt of a Send now reaches the turn it was pressed for, or none: the
\* next turn cannot have been prompted before the interrupt is out
\* (deliverQueuedMessagesNow, interruptForSendNow).
CutsItsOwnTurn == \A d \in Cycles :
  cycles[d].pc = "interrupt" /\ cycles'[d].pc # "interrupt" /\ turn'.cut /\ ~turn.cut
    => turn.call = cycles[d].call
SendNowCutsItsOwnTurn == [][CutsItsOwnTurn]_vars

\* What drives a run that says it is planning or running: a cycle, a message
\* about to be engaged, or a Stop under way.
HasDriver ==
  \/ \E d \in Cycles : cycles[d].kind \notin {"none", "flush", "autoresume"}
  \/ \E m \in Messages : msgs[m].engage # "no"
  \/ stopping # {}
Undriven == status \in Driving /\ ~HasDriver

\* A recovery that a Stop overtook while its turn resolved the account, so that
\* the turn ran in the next epoch, and whose runtime then failed to start.
LostItsClaim(d) ==
  /\ cycles[d].kind = "recovery" /\ cycles[d].pc = "repark"
  /\ cycles[d].epoch # epoch /\ cycles[d].result = "null"

\* A run never comes to idle "running with no driver" (runInitialAutopilotPlanning,
\* scheduleResumeChatTurn, finishResumeAfterChatRoute), but for one way: a
\* recovery that lost its claim is neither parked again nor asked about
\* (handleManagerStartupFailure leaves it to returnUnfinishedManagerRecoveryToParked,
\* which no longer knows it), and a Resume meanwhile took its call for a driver.
StallsByALostClaim ==
  Undriven' /\ ~Undriven =>
    \E d \in Cycles : LostItsClaim(d) /\ cycles'[d].kind = "none"
OnlyALostClaimStalls == [][StallsByALostClaim]_vars

\* A message waiting in a driven run is taken by a turn or removed, unless the
\* run stops being driven.
WaitingIsTaken == \A m \in Messages :
  Waits(m) /\ status \in Driving ~> ~(Waits(m) /\ status \in Driving)

\* Without further input the chat comes to rest: the cycles, which wait for one
\* another and for the turn lock, all end, and none follows up for ever.
ComesToRest == <>[](lock = <<>> /\ \A d \in Cycles : cycles[d].kind = "none")

\* After a Stop no message is left with a call that is over: the sweep is taken
\* from the latest run, so that claimed messages are not "stranded in the spent
\* epoch" (forcePauseRunInner).
NoInputIsStranded == \A m \in Messages :
  msgs[m].state \in {"queued", "submitted"} /\ msgs[m].owner # 0
    => lock # <<>> /\ msgs[m].owner = turn.call

-----------------------------------------------------------------------------
(* The inductive invariant: what the properties rest on *)

\* Only a free slot has no cycle.
SlotsAreFree == \A d \in Cycles : cycles[d].kind = "none" => cycles[d].pc = "free"

\* The turn under way is that of the cycle at the head of the lock.
TurnIsHolders == turn.pc # "idle" => lock # <<>> /\ cycles[Holder].pc = "turn"

\* From its registration to its outcome, the turn's call is the run's live one,
\* in the epoch the turn began in.
Calling == {"launch", "compose", "startup", "live", "apply", "settle"}
LiveCallIsTurns ==
  /\ turn.epoch <= epoch
  /\ turn.pc \in Calling \cup {"release"} =>
       turn.call \in DOMAIN calls /\ calls[turn.call].epoch = turn.epoch
  /\ \A c \in DOMAIN calls : calls[c].state = "started" =>
       c = turn.call /\ turn.pc \in Calling /\ calls[c].epoch = epoch

\* A message a call holds is of its call's epoch, any other
\* waiting one of the run's.
Held(m) == msgs[m].owner # 0 /\ msgs[m].state \in {"queued", "submitted"}
InputIsInEpoch == \A m \in Messages :
  /\ Held(m) => /\ msgs[m].owner \in DOMAIN calls
                   /\ msgs[m].epoch = calls[msgs[m].owner].epoch
  /\ Waits(m) => msgs[m].epoch = epoch

\* Until its prompt is out, a turn of the current epoch owns its call's input.
Prompting == turn.pc \in {"launch", "compose", "startup"} /\ Current
InputIsKept == \A m \in Messages : \A c \in DOMAIN calls : m \in calls[c].input =>
  /\ msgs[m].state # "unsent"
  /\ Prompting /\ c = turn.call => msgs[m].owner = c /\ msgs[m].state = "queued"
  /\ calls[c].accepted = "yes" =>
       msgs[m].again \/ msgs[m].state \in {"submitted", "acknowledged", "removed"}

\* An interrupt that is not out yet is meant for the turn that is prompted.
InterruptIsForTurn == \A d \in Cycles :
  cycles[d].pc = "interrupt" /\ turn.pc \in {"compose", "startup", "live"}
    => turn.call = cycles[d].call

TurnsInv ==
  /\ SlotsAreFree /\ TurnIsHolders /\ LiveCallIsTurns /\ InputIsInEpoch
  /\ InputIsKept /\ InterruptIsForTurn
=============================================================================
