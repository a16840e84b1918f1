----------------------------- MODULE Scheduler -----------------------------
(***************************************************************************)
(* The cron times of one automation: the timer that fires them, the checks *)
(* at start and after a sleep that look for missed ones, and what is       *)
(* decided about them (src/main/orchestration/scheduler.ts with the pure   *)
(* functions of automation-catchup.ts).                                    *)
(*                                                                         *)
(* A fire of the timer and a check are handlers on one promise chain; a    *)
(* handler reads the clock when it is put there, not when its turn comes.  *)
(* A decision moves the checkpoint of the session, and sometimes the one   *)
(* in the file, before its pass is asked for.  Passes are started by the   *)
(* loop driver (module AutomationLoop), of which this module keeps what    *)
(* the scheduler reads: is one live, and when did the last one start.      *)
(*                                                                         *)
(* The computer sleeps over any number of times, the process dies between  *)
(* any two steps, and the file is written behind the cache.                *)
(***************************************************************************)
EXTENDS Naturals, Sequences, FiniteSets, FiniteSetsExt

CONSTANTS
  Slots,         \* the times of the cron expression
  Late,          \* LATE_FIRE_TOLERANCE_MS
  Policies,      \* the missedRuns.policy an automation may have
  Grace,         \* missedRuns.graceMinutes
  PersistEvery,  \* CHECKPOINT_PERSIST_EVERY_MS
  MaxTime,       \* bound: the last moment
  MaxTrouble,    \* bound: sleeps, deaths, failed writes and deeds of people
  None

ASSUME SchedulerAssumption ==
  /\ Slots \subseteq Nat \ {0}
  /\ Policies \subseteq {"skip", "runOnce"}
  /\ Late \in Nat /\ Grace \in Nat /\ PersistEvery \in Nat
  /\ MaxTime \in Nat
  /\ MaxTrouble \in Nat
  /\ None \notin Nat \cup {"arm", "disarm"}

VARIABLES
  now,         \* the clock
  policy,      \* missedRuns.policy of the automation
  up,          \* the process: down, starting (armed, not checked yet) or up
  job,         \* the record in the cache
  disk,        \* the record in scheduler.json
  checkpoint,  \* scheduleCheckpoint of this session, or None
  armedAt,     \* when the timer was armed, or None
  next,        \* the time the armed timer waits for, or None
  chain,       \* settleChains: the handlers, the first of them at work
  stamps,      \* checks whose closing write is still to come
  edit,        \* setEnabled between its write and arming, or None
  asks,        \* calls of startIteration that have not decided yet
  firing,      \* when the pass that is being launched was begun, or None
  live,        \* is a pass running?
  resumed,     \* the machine woke up and the check has not been told yet
  owed, excused, made,                 \* history: see OwedTimes
  trouble

driver  == <<asks, firing, live>>
timer   == <<armedAt, next>>
ghost   == <<owed, excused, made>>
vars    == <<now, policy, up, job, disk, checkpoint, timer, chain, stamps,
             edit, driver, resumed, ghost, trouble>>

Statuses == {"idle", "running", "paused"}
Record   == [enabled : BOOLEAN, checked : Nat \cup {None},
             lastRun : Nat \cup {None}, status : Statuses,
             skipped : Slots \cup {None}]
Verdicts == {"settled", "fire", "run", "skip", "hold"}
Handler  == [what : {"tick", "start", "wake"}, at : Nat,
             step : {"todo", "noted", "acting"},
             verdict : Verdicts \cup {None}]

TypeOK ==
  /\ now \in 0..MaxTime /\ policy \in Policies
  /\ up \in {"down", "starting", "up"}
  /\ job \in Record /\ disk \in Record
  /\ {checkpoint, armedAt, next, firing} \subseteq Nat \cup {None}
  /\ chain \in Seq(Handler) /\ stamps \subseteq Nat
  /\ edit \in {"arm", "disarm", None} /\ asks \in Nat
  /\ live \in BOOLEAN /\ resumed \in BOOLEAN
  /\ owed \subseteq Slots /\ excused \subseteq Slots /\ made \in Nat

-----------------------------------------------------------------------------
(* automation-catchup.ts *)

Latest(set) == IF set = {} THEN None ELSE Max(set)

\* latestCronSlot
LatestSlot(at) == Latest({s \in Slots : s <= at})

\* scheduledSlotsBetween (the count and its cap are only shown)
SlotsBetween(since, at) == {s \in Slots : since < s /\ s <= at}

\* missedBaselineMs; the automation was created at 0.
Baseline(record, session, at) ==
  Max({t \in {session, record.checked, record.lastRun, 0} \ {None} : t <= at})

\* settleMissed and decideMissed: what becomes of missed times.
Decide(record, missed, at) ==
  IF record.status = "paused" THEN "hold"
  ELSE IF policy = "runOnce" /\ at <= Max(missed) + Grace THEN "run"
  ELSE "skip"

\* Mutant: a time the session has settled counts only once it is on disk.
MutantClassify(record, session, armed, at) ==
  LET points == {record.checked, armed} \ {None}
      slot   == LatestSlot(at)
      base   == Baseline(record, session, at)
  IN IF slot = None THEN "fire"
     ELSE IF points # {} /\ slot <= Max(points) THEN "settled"
     ELSE IF at <= slot + Late THEN "fire"
     ELSE Decide(record, SlotsBetween(Min({base, slot - 1}), at), at)

\* classifyTick
Classify(record, session, armed, at) ==
  LET points == {session, record.checked, armed} \ {None}
      slot   == LatestSlot(at)
      base   == Baseline(record, session, at)
      \* a checkpoint in the future is not trusted
      done   == IF points = {} THEN FALSE
                ELSE IF Max(points) > at THEN slot + Late <= at
                ELSE slot <= Max(points)
  IN IF slot = None THEN "fire"
     ELSE IF done THEN "settled"
     ELSE IF at <= slot + Late THEN "fire"
     ELSE Decide(record, SlotsBetween(Min({base, slot - 1}), at), at)

\* Mutant: the wake check knows no late fire.
MutantCheckVerdict(record, session, what, at) ==
  LET missed == SlotsBetween(Baseline(record, session, at), at) IN
  IF missed = {} THEN "settled" ELSE Decide(record, missed, at)


\* What a check decides.
CheckVerdict(record, session, what, at) ==
  LET missed == SlotsBetween(Baseline(record, session, at), at) IN
  IF missed = {} THEN "settled"
  ELSE IF what = "wake" /\ at <= Max(missed) + Late THEN "fire"
  ELSE Decide(record, missed, at)

-----------------------------------------------------------------------------
(* The clock, the timer and the machine *)

Fresh == [enabled |-> TRUE, checked |-> None, lastRun |-> None,
          status |-> "idle", skipped |-> None]

\* The timer waits for the first time after it was armed or fired.
NextSlot(at) == LET later == {s \in Slots : s > at}
                IN IF later = {} THEN None ELSE Min(later)

Init ==
  /\ now = 0 /\ policy \in Policies /\ up = "up"
  /\ job = Fresh /\ disk = Fresh
  /\ checkpoint = None /\ armedAt = 0 /\ next = NextSlot(0)
  /\ chain = <<>> /\ stamps = {} /\ edit = None
  /\ asks = 0 /\ firing = None /\ live = FALSE /\ resumed = FALSE
  /\ owed = {} /\ excused = {} /\ made = 0
  /\ trouble = 0

Trouble == trouble < MaxTrouble /\ trouble' = trouble + 1

TimePasses(to) ==
  /\ now' = to
  /\ owed' = IF job.enabled THEN owed \cup {s \in Slots : now < s /\ s <= to}
             ELSE owed

Due == next # None /\ next <= now

\* A handler whose turn comes runs up to its first write before anything else.
Calm == chain # <<>> => Head(chain).step # "todo"

\* While the machine is awake handlers and writes are quicker than the clock;
\* passes and their launches are not.
Advance ==
  /\ Calm /\ now < MaxTime /\ chain = <<>> /\ edit = None /\ ~resumed /\ ~Due
  /\ disk = job /\ stamps = {} /\ asks = 0
  /\ TimePasses(now + 1)
  /\ UNCHANGED <<policy, up, job, disk, checkpoint, timer, chain, stamps,
                 edit, driver, resumed, excused, made, trouble>>

\* The machine sleeps through whatever was going on.
Sleep ==
  /\ Calm /\ up # "down" /\ Trouble
  /\ \E to \in now + 1..MaxTime : TimePasses(to)
  /\ resumed' = TRUE
  /\ UNCHANGED <<policy, up, job, disk, checkpoint, timer, chain, stamps,
                 edit, driver, excused, made>>

Put(what) ==
  chain' = Append(chain, [what |-> what, at |-> now, step |-> "todo",
                          verdict |-> None])

\* croner calls back, on time or late, and waits for its next time.
TimerFires ==
  /\ Calm /\ Due
  /\ Put("tick") /\ next' = NextSlot(now)
  /\ UNCHANGED <<now, policy, up, job, disk, checkpoint, armedAt, stamps,
                 edit, driver, resumed, ghost, trouble>>

\* The resume event, a second and a half after the machine woke.
Resume ==
  /\ Calm /\ resumed /\ edit = None
  /\ resumed' = FALSE
  /\ IF job.enabled THEN Put("wake") ELSE UNCHANGED chain
  /\ UNCHANGED <<now, policy, up, job, disk, checkpoint, timer, stamps,
                 edit, driver, ghost, trouble>>

\* startScheduler after its timers are armed and the loops are attached.
StartCheck ==
  /\ Calm /\ up = "starting" /\ (Due => resumed)
  /\ up' = "up"
  /\ IF job.enabled THEN Put("start") ELSE UNCHANGED chain
  /\ UNCHANGED <<now, policy, job, disk, checkpoint, timer, stamps, edit,
                 driver, resumed, ghost, trouble>>

-----------------------------------------------------------------------------
(* The handlers on the chain *)

Working == chain # <<>>

Done    == chain' = Tail(chain)
Move(step, verdict) ==
  chain' = [chain EXCEPT ![1] = [@ EXCEPT !.step = step, !.verdict = verdict]]

\* A decision settles everything owed until its moment.
Settle(at) ==
  /\ owed' = {t \in owed : t > at}
  /\ excused' = {t \in excused : t > at}
  /\ made' = made + 1

MaxOf(a, b) == IF a = None \/ a < b THEN b ELSE a

TickVerdict(h) == Classify(job, checkpoint, armedAt, h.at)

\* onScheduledFire, when the time was settled before.
TickDropped ==
  /\ Working /\ Head(chain).what = "tick" /\ Head(chain).step = "todo"
  /\ ~job.enabled \/ TickVerdict(Head(chain)) = "settled"
  /\ Done
  /\ UNCHANGED <<now, policy, up, job, disk, checkpoint, timer, stamps, edit,
                 driver, resumed, ghost, trouble>>

\* noteScheduleChecked writes at most every so often.
Recent(at) ==
  /\ job.checked # None /\ job.checked <= at
  /\ at < job.checked + PersistEvery

\* onScheduledFire and noteScheduleChecked: what is decided, with the record
\* as it is now, and the checkpoint.
TickNoted ==
  /\ Working /\ Head(chain).what = "tick" /\ Head(chain).step = "todo"
  /\ job.enabled
  /\ LET at == Head(chain).at
         v  == TickVerdict(Head(chain)) IN
     /\ v # "settled"
     /\ checkpoint' = MaxOf(checkpoint, at)
     /\ job' = IF Recent(at) THEN job ELSE [job EXCEPT !.checked = at]
     /\ Move("noted", v)
     /\ Settle(at)
  /\ UNCHANGED <<now, policy, up, disk, timer, stamps, edit, driver, resumed,
                 trouble>>

\* The handler waits for its write; a failed one is only logged.
Written ==
  \/ disk = job /\ UNCHANGED trouble
  \/ disk # job /\ Trouble

Ask == asks' = asks + 1

\* What was decided is done: a pass is asked for (startIterationViaDriver is
\* not awaited), or a row says that times were missed (appendSkip is).
Act(v, record, missed) ==
  CASE v \in {"fire", "run"} -> Ask /\ Done /\ job' = record
    [] v = "skip" -> /\ job' = [record EXCEPT !.skipped = missed]
                     /\ Move("acting", v) /\ UNCHANGED asks
    [] OTHER -> Done /\ job' = record /\ UNCHANGED asks

\* onScheduledFire after noteScheduleChecked
TickActs ==
  /\ Calm /\ Working /\ Head(chain).step = "noted" /\ Written
  /\ Act(Head(chain).verdict, job, LatestSlot(Head(chain).at))
  /\ UNCHANGED <<now, policy, up, disk, checkpoint, timer, stamps, edit,
                 firing, live, resumed, ghost>>

\* catchUpScheduledJobs, the part of one automation.
CheckSettles ==
  /\ Working /\ Head(chain).what # "tick" /\ Head(chain).step = "todo"
  /\ LET at == Head(chain).at
         v  == CheckVerdict(job, checkpoint, Head(chain).what, at) IN
     IF ~job.enabled \/ armedAt = None
     THEN Done /\ UNCHANGED <<job, checkpoint, stamps, asks, ghost>>
     ELSE /\ checkpoint' = MaxOf(checkpoint, at)
          /\ stamps' = stamps \cup {at}
          /\ Act(v, job, LatestSlot(at))
          /\ IF v = "settled" THEN UNCHANGED ghost ELSE Settle(at)
  /\ UNCHANGED <<now, policy, up, disk, timer, edit, firing, live, resumed,
                 trouble>>

SkipWritten ==
  /\ Calm /\ Working /\ Head(chain).step = "acting" /\ Written
  /\ Done
  /\ UNCHANGED <<now, policy, up, job, disk, checkpoint, timer, stamps, edit,
                 driver, resumed, ghost>>

\* catchUpScheduledJobs, its one write for every checked automation, once
\* their handlers are through.
CheckStamps ==
  /\ Calm /\ \E at \in stamps :
       /\ \A i \in DOMAIN chain : ~(chain[i].what # "tick" /\ chain[i].at = at)
       /\ stamps' = stamps \ {at}
       /\ job' = IF job.checked # None /\ job.checked >= at THEN job
                 ELSE [job EXCEPT !.checked = at]
  /\ UNCHANGED <<now, policy, up, disk, checkpoint, timer, chain, edit,
                 driver, resumed, ghost, trouble>>

\* persist: writes follow one another; the file gets the newest record.
Land ==
  /\ Calm /\ disk # job /\ disk' = job
  /\ UNCHANGED <<now, policy, up, job, checkpoint, timer, chain, stamps, edit,
                 driver, resumed, ghost, trouble>>

-----------------------------------------------------------------------------
(* The loop driver, as far as the scheduler sees it *)

\* Times that came before a run by hand, the start of a pass or an edit may
\* still be settled, but need not be.
Excuse(at) ==
  /\ owed' = {t \in owed : t > at}
  /\ excused' = excused \cup {t \in owed : t <= at}
  /\ UNCHANGED made

\* startIteration: nothing else is under way.
DriverStarts ==
  /\ Calm /\ asks > 0 /\ asks' = asks - 1
  /\ job.enabled /\ job.status # "paused" /\ firing = None /\ ~live
  /\ firing' = now
  /\ UNCHANGED <<now, policy, up, job, disk, checkpoint, timer, chain, stamps,
                 edit, live, resumed, ghost, trouble>>

\* The fire is held: switched off, paused, a pass is live or being launched,
\* or its precheck or its cap says no.
DriverHolds ==
  /\ Calm /\ asks > 0 /\ asks' = asks - 1
  /\ UNCHANGED <<now, policy, up, job, disk, checkpoint, timer, chain, stamps,
                 edit, firing, live, resumed, ghost, trouble>>

\* The run exists, and the record says when it was begun.
DriverLaunched ==
  /\ Calm /\ firing # None
  /\ job' = [job EXCEPT !.lastRun = firing, !.status = "running"]
  /\ firing' = None /\ live' = TRUE
  /\ Excuse(firing)
  /\ UNCHANGED <<now, policy, up, disk, checkpoint, timer, chain, stamps, edit,
                 asks, resumed, trouble>>

PassEnds ==
  /\ Calm /\ live /\ live' = FALSE
  /\ job' = IF job.status = "running" THEN [job EXCEPT !.status = "idle"]
            ELSE job
  /\ UNCHANGED <<now, policy, up, disk, checkpoint, timer, chain, stamps, edit,
                 asks, firing, resumed, ghost, trouble>>

-----------------------------------------------------------------------------
(* What people do *)

Hand == Calm /\ up # "down" /\ Trouble

\* runJobNow: a live pass is killed and another one launched.
RunByHand ==
  /\ Hand /\ job.enabled /\ firing = None
  /\ firing' = now /\ live' = FALSE
  /\ Excuse(now)
  /\ UNCHANGED <<now, policy, up, job, disk, checkpoint, timer, chain, stamps,
                 edit, asks, resumed>>

Pause ==
  /\ Hand /\ job.status # "paused"
  /\ job' = [job EXCEPT !.status = "paused"]
  /\ UNCHANGED <<now, policy, up, disk, checkpoint, timer, chain, stamps, edit,
                 driver, resumed, ghost>>

Unpause ==
  /\ Hand /\ job.status = "paused"
  /\ job' = [job EXCEPT !.status = IF live THEN "running" ELSE "idle"]
  /\ UNCHANGED <<now, policy, up, disk, checkpoint, timer, chain, stamps, edit,
                 driver, resumed, ghost>>

\* An edit is not on the chain of the handlers: it waits for none of them.
\* Bound: one edit at a time.
Editable == edit = None

\* settleScheduleNow: the schedule counts as settled up to now.
Stamped(record) == [record EXCEPT !.checked = now]

\* setEnabled on and off, and updateJob with a trigger and without.
SwitchOn ==
  /\ Hand /\ Editable /\ ~job.enabled
  /\ job' = [Stamped(job) EXCEPT !.enabled = TRUE]
  /\ checkpoint' = now /\ edit' = "arm"
  /\ Excuse(now)
  /\ UNCHANGED <<now, policy, up, disk, timer, chain, stamps, driver, resumed>>

SwitchOff ==
  /\ Hand /\ Editable /\ job.enabled
  /\ job' = [job EXCEPT !.enabled = FALSE]
  /\ edit' = "disarm"
  /\ Excuse(now)
  /\ UNCHANGED <<now, policy, up, disk, checkpoint, timer, chain, stamps,
                 driver, resumed>>

EditTrigger ==
  /\ Hand /\ Editable /\ job.enabled
  /\ job' = Stamped(job) /\ checkpoint' = now /\ edit' = "arm"
  /\ Excuse(now)
  /\ UNCHANGED <<now, policy, up, disk, timer, chain, stamps, driver, resumed>>

EditOther ==
  /\ Hand /\ Editable /\ job.enabled
  /\ edit' = "arm"
  /\ UNCHANGED <<now, policy, up, job, disk, checkpoint, timer, chain, stamps,
                 driver, resumed, ghost>>

\* After its write the edit arms the timer anew.  A timer that is due has
\* called back by then, unless it slept through its time.
EditArms ==
  /\ Calm /\ edit # None /\ disk = job /\ (Due => resumed)
  /\ edit' = None
  /\ IF edit = "arm" THEN armedAt' = now /\ next' = NextSlot(now)
     ELSE armedAt' = None /\ next' = None
  /\ UNCHANGED <<now, policy, up, job, disk, checkpoint, chain, stamps, driver,
                 resumed, ghost, trouble>>

-----------------------------------------------------------------------------
(* The process *)

\* The file knows the time to be settled.
Known(s) == s <= Baseline(disk, None, now)

\* It dies or quits: what has not reached the file is gone.
Crash ==
  /\ Calm /\ up # "down" /\ Trouble
  /\ up' = "down"
  /\ job' = disk /\ checkpoint' = None /\ armedAt' = None /\ next' = None
  /\ chain' = <<>> /\ stamps' = {} /\ edit' = None
  /\ asks' = 0 /\ firing' = None /\ live' = FALSE /\ resumed' = FALSE
  /\ owed' = {s \in Slots : disk.enabled /\ s <= now /\ ~Known(s)}
  /\ excused' = {}
  /\ UNCHANGED <<now, policy, disk, made>>

\* startScheduler: every enabled automation is armed; resumeLoops ends the
\* pass that died with the process.
Start ==
  /\ Calm /\ up = "down" /\ up' = "starting"
  /\ job' = IF job.status = "running" THEN [job EXCEPT !.status = "idle"]
            ELSE job
  /\ IF job.enabled THEN armedAt' = now /\ next' = NextSlot(now)
     ELSE UNCHANGED timer
  /\ UNCHANGED <<now, policy, disk, checkpoint, chain, stamps, edit, driver,
                 resumed, ghost, trouble>>

Turns == TickDropped \/ TickNoted \/ CheckSettles

Events ==
  \/ TimerFires \/ Resume \/ StartCheck
  \/ TickActs \/ SkipWritten \/ CheckStamps \/ Land
  \/ DriverStarts \/ DriverHolds \/ DriverLaunched \/ EditArms

People ==
  \/ RunByHand \/ Pause \/ Unpause
  \/ SwitchOn \/ SwitchOff \/ EditTrigger \/ EditOther

World == Advance \/ Sleep \/ PassEnds \/ Crash \/ Start

Next == Turns \/ Events \/ People \/ World

Spec == Init /\ [][Next]_vars

Fairness ==
  /\ WF_vars(Turns) /\ WF_vars(TickActs \/ SkipWritten)
  /\ WF_vars(TimerFires) /\ WF_vars(Resume)
  /\ WF_vars(StartCheck) /\ WF_vars(Land)
  /\ WF_vars(DriverHolds) /\ WF_vars(EditArms)
FairSpec == Spec /\ Fairness

-----------------------------------------------------------------------------
(* Properties *)

\* The handlers an edit overtook: the schedule was settled, or the timer armed,
\* later than the moment they were put on the chain for, which classifyTick and
\* missedBaselineMs do not trust.  What they decide can leave the file ahead of
\* the record (noteScheduleChecked writes their moment).
Later(t, at) == t # None /\ t > at
Overtaken(h) ==
  /\ h.step = "todo"
  /\ \/ Later(checkpoint, h.at) \/ Later(job.checked, h.at)
     \/ h.what = "tick" /\ Later(armedAt, h.at)
Overtaking == \E i \in DOMAIN chain : Overtaken(chain[i])
FileIsAhead ==
  disk.checked # None /\ (job.checked = None \/ disk.checked > job.checked)

\* Every time of the schedule is settled once: nothing is run, recorded as
\* missed or held where nothing is owed, whichever of the late fire, the wake
\* check and the start check is first and wherever the process died, and what
\* the file knows to be settled is never owed again.  Not so for a handler that
\* waits while an edit or a switch goes past it (OwedTimes: overtaken), which can
\* run a settled time again and take the checkpoint in the file back (ahead).
Promise == INSTANCE OwedTimes
             WITH known <- {s \in Slots : Known(s)}, overtaken <- Overtaking,
                  ahead <- FileIsAhead
ImplementsOwedTimes == Promise!Spec

\* While a fire is late and the wake check is still to come, both would decide
\* the same ("The verdict must not depend on which of the two runs first").
VerdictIsOrderFree ==
  (Due /\ resumed /\ chain = <<>> /\ job.enabled /\ excused = {})
    => Classify(job, checkpoint, armedAt, now)
         = CheckVerdict(job, checkpoint, "wake", now)


-----------------------------------------------------------------------------
(* The inductive invariant *)

By(t, at) == t # None => t <= at
Reaches(t, s) == t # None /\ s <= t

\* Nothing is later than the clock.
NothingAhead ==
  /\ \A t \in {checkpoint, armedAt, firing, job.checked, job.lastRun,
               disk.checked, disk.lastRun} : By(t, now)
  /\ \A s \in stamps \cup owed \cup excused : s <= now
  /\ firing # None => By(job.lastRun, firing)
  /\ disk.lastRun # None => job.lastRun # None /\ disk.lastRun <= job.lastRun

\* What starts and stops the timer.
TimerIsArmed ==
  /\ up = "down" =>
       /\ next = None /\ chain = <<>> /\ firing = None /\ stamps = {}
       /\ asks = 0 /\ edit = None /\ ~resumed
  /\ edit = "disarm" => ~job.enabled
  /\ next # None => next \in Slots /\ (armedAt # None => next > armedAt)

\* The session knows what the record knows, once it has settled anything.
SessionLeads ==
  IF checkpoint = None
  THEN stamps = {} /\ \A i \in DOMAIN chain : By(job.checked, chain[i].at)
  ELSE By(job.checked, checkpoint) /\ \A s \in stamps : s <= checkpoint

\* Handlers have their turn in the order of the clock, and the one at work has
\* moved the checkpoint.
HandlersInOrder ==
  \A i \in DOMAIN chain :
    /\ chain[i].at <= now
    /\ \A j \in DOMAIN chain : j <= i => chain[j].at <= chain[i].at
    /\ \A t \in stamps : t <= chain[i].at
    /\ i > 1 => chain[i].step = "todo"
    /\ chain[i].what = "tick" => \E s \in Slots : s <= chain[i].at
    /\ chain[i].step # "todo" => Reaches(checkpoint, chain[i].at)

\* What is not owed has been settled: by a checkpoint, or before the timer was
\* armed; for a check, by a checkpoint or the start of a pass.
Unowed == {s \in Slots : s <= now /\ s \notin owed \cup excused}
Checked(s) == Reaches(checkpoint, s) \/ Reaches(job.checked, s)
NoneForgotten ==
  job.enabled =>
    /\ \A s \in Unowed :
         \/ Checked(s)
         \/ /\ Reaches(job.lastRun, s)
            /\ \A i \in DOMAIN chain : job.lastRun <= chain[i].at
    /\ up # "down" =>
         /\ \A s \in Unowed : Checked(s) \/ Reaches(armedAt, s)
         /\ \A s \in Slots \ excused :
              Reaches(job.lastRun, s) => Checked(s) \/ Reaches(armedAt, s)

TimesInv ==
  /\ NothingAhead /\ TimerIsArmed /\ SessionLeads /\ HandlersInOrder
  /\ NoneForgotten
=============================================================================
