--------------------------- MODULE AutomationLoop ---------------------------
(***************************************************************************)
(* The loop driver of one automation (automation-loop.ts): passes that     *)
(* start on a trigger, on a timer or when the pass before them ends, the   *)
(* check before a pass and the verdict after it, the separate copy of the  *)
(* repository a cycle may work in, and Pause, Resume, Stop and Run now.    *)
(*                                                                         *)
(* Each start of a pass is a call of startIteration that may wait for the  *)
(* check, for its copy and for the launch; people and other events come in *)
(* between.  The end of a run is told twice (run-store.ts emits an event   *)
(* for the change and one for the status), so two calls of onTerminal      *)
(* decide about the same pass.  The registry is cached: what is read and   *)
(* written without a longer wait in between is one step.                   *)
(***************************************************************************)
EXTENDS Naturals, Sequences, FiniteSets, FiniteSetsExt

CONSTANTS
  Setups,      \* kinds of automations: see Setup
  Cap,         \* loop.stop.maxIterations
  MaxFires,    \* bound: fires of the trigger
  MaxPresses,  \* bound: deeds of people
  MaxFaults,   \* bound: checks that say no, copies and launches that fail
  MaxRuns,     \* bound: runs of passes
  None

Setup == [kind : {"count", "continuous", "cadence"}, until : BOOLEAN,
          precheck : BOOLEAN, own : BOOLEAN]

ASSUME LoopAssumption ==
  /\ Setups \subseteq Setup
  /\ Cap \in Nat \ {0} /\ None \notin Nat
  /\ MaxFires \in Nat /\ MaxPresses \in Nat /\ MaxFaults \in Nat
  /\ MaxRuns \in Nat \ {0}

VARIABLES
  setup,
  job,        \* status, iteration, currentRunId, nextFireAt, ownBranch
  runner,     \* the entry of loops: its timer and its subscription
  calls,      \* calls of startIteration that wait for something
  runs,       \* the runs of passes: how they are, where they work
  watch,      \* runs whose end will be told
  told,       \* runs that ended, once for each event to be handled
  checks,     \* until checks at work after a run: how many
  hand,       \* a Stop or a Run now under way, or None
  closing,    \* settlingBranch: the copy that is being closed, or None
  copies,     \* how many copies were opened
  open,       \* the copies there are
  overtaken,  \* history: a loop was ended or restarted under a launch or pass
  lapsed,     \* history: a start failed, or its pass ended before it was over
  fires, presses, faults

copying == <<copies, open>>
history == <<overtaken, lapsed>>
bounds  == <<fires, presses, faults>>
vars    == <<setup, job, runner, calls, runs, watch, told, checks, hand,
             closing, copying, history, bounds>>

RunIds == DOMAIN runs
NoRunner == [timer |-> FALSE, sub |-> None]

Steps == {"precheck", "settling", "opening", "discarding", "claimed",
          "launching", "recorded"}
Sources == {"trigger", "cadence", "count", "continuous", "manual"}
Statuses == {"idle", "running", "paused", "stopped"}

Jobs == [status : Statuses, iteration : 0..Cap, current : Nat \cup {None},
         due : BOOLEAN, own : Nat \cup {None}]
CallRecords == [n : Nat \ {0}, src : Sources, at : Steps, mine : BOOLEAN,
                revives : BOOLEAN, waiting : BOOLEAN, from : Statuses,
                iteration : 0..Cap, copy : Nat \cup {None}, run : Nat \cup {None}]

TypeOK ==
  /\ setup \in Setups
  /\ job \in Jobs /\ job.current \in RunIds \cup {None} /\ job.own \in open \cup {None}
  /\ runner \in [timer : BOOLEAN, sub : RunIds \cup {None}]
  /\ calls \subseteq CallRecords /\ IsFiniteSet(calls)
  /\ \A c \in calls : c.copy \in 1..copies \cup {None} /\ c.run \in RunIds \cup {None}
  /\ runs \in Seq([status : {"live", "killed", "complete", "failed"},
                   copy : Nat \cup {None}])
  /\ watch \subseteq RunIds /\ told \in Seq(RunIds)
  /\ checks \in [RunIds -> Nat]
  /\ hand = None \/ hand \in [what : {"stop", "restart"},
                              at : {"kill", "settle"},
                              run : RunIds \cup {None}]
  /\ closing \in open \cup {None} /\ open \subseteq 1..copies /\ copies \in Nat
  /\ overtaken \in BOOLEAN /\ lapsed \in BOOLEAN

-----------------------------------------------------------------------------
(* The state of a loop *)

Idle == [status |-> "idle", iteration |-> 0, current |-> None,
         due |-> FALSE, own |-> None]

Init ==
  /\ setup \in Setups /\ job = Idle /\ runner = NoRunner /\ calls = {}
  /\ runs = <<>> /\ watch = {} /\ told = <<>> /\ checks = <<>>
  /\ hand = None /\ closing = None /\ copies = 0 /\ open = {}
  /\ overtaken = FALSE /\ lapsed = FALSE
  /\ fires = 0 /\ presses = 0 /\ faults = 0

\* What was told, and who waited for a copy to be closed, comes before anything
\* else.
Continues ==
  /\ closing = None
  /\ (hand # None => hand.at = "kill") => \E c \in calls : c.at = "settling"
Quiet == told = <<>> /\ ~Continues

\* A run that is not terminal: a killed one is paused.
Holds(j) == j.current # None /\ runs[j.current].status \in {"live", "killed"}
Live(j)  == j.current # None /\ runs[j.current].status = "live"

\* runner.firing and runner.prechecking
Firing(cs) ==
  \E c \in cs : c.mine /\ c.at \notin {"precheck", "settling"}
Checking(cs) == \E c \in cs : c.mine /\ c.at = "precheck"

Launching == \E c \in calls : c.at = "launching"

\* A new cycle begins.
Resets(j) == j = Idle /\ job # Idle

\* loops.delete: calls that began before know that they are not current.
Disowned(cs) == {[c EXCEPT !.mine = FALSE] : c \in cs}

Call(src, at, j) ==
  [n |-> Min(1..Cardinality(calls) + 1 \ {c.n : c \in calls}),
   src |-> src, at |-> at, mine |-> TRUE, revives |-> j.status = "stopped",
   waiting |-> FALSE, from |-> j.status, iteration |-> j.iteration,
   copy |-> j.own, run |-> None]

\* Nothing but the record, the runner and the calls.
Stay(j, cs, u) ==
  /\ job' = j /\ calls' = cs /\ runner' = u
  /\ overtaken' = (overtaken \/ (Resets(j) /\ (Launching \/ Live(job))))
  /\ UNCHANGED <<watch, closing>>

\* finalize and settleOwnBranch
Finalize(j, cs, u) ==
  /\ job' = [j EXCEPT !.status = "stopped", !.current = None, !.due = FALSE]
  /\ runner' = NoRunner /\ watch' = watch \ {u.sub} /\ calls' = Disowned(cs)
  /\ closing' = IF closing = None THEN j.own ELSE closing
  /\ overtaken' = (overtaken \/ Launching \/ Live(j))

-----------------------------------------------------------------------------
(* startIteration *)

\* Mutant: without the guard of the runner.
UnguardedBegin(src, j, cs, u) ==
  IF Holds(j) THEN Stay(j, cs, u)
  ELSE IF j.iteration >= Cap THEN Finalize(j, cs, u)
  ELSE LET at == IF setup.own /\ j.own = None /\ j.iteration = 0
                 THEN "opening" ELSE "launching"
       IN Stay(j, cs \cup {Call(src, at, j)}, u)

\* From the guard of the runner to the first wait.
Begin(src, j, cs, u) ==
  IF Firing(cs) \/ Holds(j) THEN Stay(j, cs, u)
  ELSE IF j.iteration >= Cap THEN Finalize(j, cs, u)
  ELSE LET at == IF setup.own /\ j.own = None /\ j.iteration = 0
                 THEN "opening" ELSE "launching"
       IN Stay(j, cs \cup {Call(src, at, j)}, u)

\* A stopped loop starts a fresh cycle, after its last copy is closed.
Proceed(src, j, cs, u) ==
  IF j.status # "stopped" THEN Begin(src, j, cs, u)
  ELSE IF j.own # None
       THEN Stay(j, cs \cup {Call(src, "settling", j)}, u)
       ELSE Begin(src, Idle, cs, u)

Revives == {"trigger", "continuous", "manual"}
Gated(src) == setup.precheck /\ src \in {"trigger", "cadence"}

\* passesPrecheck until its check is at work
AskPrecheck(src, j, cs, u) ==
  IF Checking(cs)
  THEN LET wait == src = "cadence" IN
       Stay(j, {[c EXCEPT !.waiting = @ \/ (wait /\ c.mine
                                              /\ c.at = "precheck")]
                : c \in cs}, u)
  ELSE IF Firing(cs) \/ Holds(j) THEN Stay(j, cs, u)
  ELSE Stay(j, cs \cup {Call(src, "precheck", j)}, u)

Enter(src, j, u) ==
  IF closing # None \/ j.status = "paused"
     \/ (j.status = "stopped" /\ src \notin Revives)
  THEN Stay(j, calls, u)
  ELSE IF Gated(src) THEN AskPrecheck(src, j, calls, u)
  ELSE Proceed(src, j, calls, u)

Rest == <<setup, runs, told, checks, hand, copying, lapsed>>

\* The trigger fires.
Fire ==
  /\ Quiet /\ fires < MaxFires /\ fires' = fires + 1
  /\ Enter("trigger", job, runner)
  /\ UNCHANGED <<Rest, presses, faults>>

\* The timer of scheduleCadence
Tick ==
  /\ Quiet /\ runner.timer
  /\ Enter("cadence", job, [runner EXCEPT !.timer = FALSE])
  /\ UNCHANGED <<Rest, bounds>>

\* The check before a pass says yes.
PrecheckPasses(c) ==
  /\ Quiet /\ c.at = "precheck"
  /\ IF job.status = "paused" \/ (job.status = "stopped" /\ ~c.revives)
     THEN Stay(job, calls \ {c}, runner)
     ELSE Proceed(c.src, job, calls \ {c}, runner)
  /\ UNCHANGED <<Rest, bounds>>

Fault == faults < MaxFaults /\ faults' = faults + 1

\* Mutant: a tick that met the check of a trigger is forgotten.
ForgetfulRefusal(c) ==
  /\ Quiet /\ c.at = "precheck" /\ Fault
  /\ LET again == /\ setup.kind = "cadence" /\ c.src = "cadence"
                  /\ job.status \notin {"paused", "stopped"}
     IN Stay(IF again THEN [job EXCEPT !.due = TRUE] ELSE job, calls \ {c},
             [runner EXCEPT !.timer = @ \/ again])
  /\ UNCHANGED <<Rest, fires, presses>>

\* It says no: a cadence loop keeps its rhythm.
PrecheckRefuses(c) ==
  /\ Quiet /\ c.at = "precheck" /\ Fault
  /\ LET again == /\ setup.kind = "cadence"
                  /\ c.src = "cadence" \/ c.waiting
                  /\ job.status \notin {"paused", "stopped"}
     IN Stay(IF again THEN [job EXCEPT !.due = TRUE] ELSE job, calls \ {c},
             [runner EXCEPT !.timer = @ \/ again])
  /\ UNCHANGED <<Rest, fires, presses>>

\* The copy of the last cycle is closed.
Settled(c) ==
  /\ told = <<>> /\ c.at = "settling" /\ closing = None
  /\ Begin(c.src, Idle, calls \ {c}, runner)
  /\ UNCHANGED <<Rest, bounds>>

\* Mutant: a claim that only looks whether the place is free.
EagerClaim(c) == job.current = None /\ job.own = None

\* openOwnBranch: one side owns the copy, this call or whoever ended the loop.
Claims(c) ==
  c.mine /\ job.status = c.from /\ job.current = None /\ job.own = None

With(c, at) == (calls \ {c}) \cup {[c EXCEPT !.at = at]}

Opened(c) ==
  /\ Quiet /\ c.at = "opening"
  /\ copies' = copies + 1 /\ open' = open \cup {copies'}
  /\ job' = IF Claims(c) THEN [job EXCEPT !.own = copies'] ELSE job
  /\ calls' = (calls \ {c}) \cup
       {[c EXCEPT !.copy = copies',
                  !.at = IF Claims(c) THEN "claimed" ELSE "discarding"]}
  /\ UNCHANGED <<setup, runner, runs, watch, told, checks, hand, closing,
                 history, bounds>>

OpenFails(c) ==
  /\ Quiet /\ c.at = "opening" /\ Fault
  /\ calls' = calls \ {c} /\ lapsed' = TRUE
  /\ UNCHANGED <<setup, job, runner, runs, watch, told, checks, hand, closing,
                 copying, overtaken, fires, presses>>

Discarded(c) ==
  /\ Quiet /\ c.at = "discarding"
  /\ open' = open \ {c.copy} /\ calls' = calls \ {c}
  /\ UNCHANGED <<setup, job, runner, runs, watch, told, checks, hand, closing,
                 copies, history, bounds>>

\* The claim is written: somebody may have ended the loop meanwhile.
Claimed(c) ==
  /\ Quiet /\ c.at = "claimed"
  /\ calls' = IF c.mine THEN With(c, "launching") ELSE calls \ {c}
  /\ UNCHANGED <<setup, job, runner, runs, watch, told, checks, hand, closing,
                 copying, history, bounds>>

\* The run is there and the record says so.
Launched(c) ==
  /\ Quiet /\ c.at = "launching" /\ Len(runs) < MaxRuns
  /\ runs' = Append(runs, [status |-> "live", copy |-> c.copy])
  /\ checks' = Append(checks, 0)
  /\ job' = [job EXCEPT !.status = "running", !.current = Len(runs'),
                        !.iteration = c.iteration + 1, !.due = FALSE]
  /\ calls' = (calls \ {c}) \cup
       {[c EXCEPT !.at = "recorded", !.run = Len(runs')]}
  /\ lapsed' = FALSE
  /\ UNCHANGED <<setup, runner, watch, told, hand, closing, copying,
                 overtaken, bounds>>

LaunchFails(c) ==
  /\ Quiet /\ c.at = "launching" /\ Fault
  /\ calls' = calls \ {c} /\ lapsed' = TRUE
  /\ UNCHANGED <<setup, job, runner, runs, watch, told, checks, hand, closing,
                 copying, overtaken, fires, presses>>

\* watchTerminal
Watching(r, u) == IF r \in watch THEN u ELSE [u EXCEPT !.sub = r]

Watched(c) ==
  /\ Quiet /\ c.at = "recorded"
  /\ runner' = Watching(c.run, runner) /\ watch' = watch \cup {c.run}
  /\ calls' = calls \ {c}
  /\ UNCHANGED <<setup, job, runs, told, checks, hand, closing, copying,
                 history, bounds>>

-----------------------------------------------------------------------------
(* The end of a pass *)

\* A run that nobody watches yet ends unnoticed, and the end of one whose
\* launch is not over starts nothing.
RunEnds(r) ==
  /\ Quiet /\ runs[r].status = "live"
  /\ \E status \in {"complete", "failed"} :
       runs' = [runs EXCEPT ![r].status = status]
  /\ told' = IF r \in watch THEN <<r, r>> ELSE told
  /\ watch' = watch \ {r}
  /\ lapsed' = (lapsed \/ \E c \in calls : c.at = "recorded" /\ c.run = r)
  /\ UNCHANGED <<setup, job, runner, calls, checks, hand, closing, copying,
                 overtaken, bounds>>

\* onTerminal after the until checks
Continue(j, u) ==
  IF setup.kind = "cadence"
  THEN Stay([j EXCEPT !.status = "idle", !.due = TRUE], calls,
            [u EXCEPT !.timer = TRUE])
  ELSE Enter(setup.kind, j, u)

\* onTerminal up to the until checks
Decide(r, j, u) ==
  /\ IF j.status = "paused" THEN Stay(j, calls, u)
     ELSE IF runs[r].status = "failed" \/ j.iteration >= Cap
     THEN Finalize(j, calls, u)
     ELSE IF setup.until THEN Stay(j, calls, u)
     ELSE Continue(j, u)
  /\ checks' = IF setup.until /\ j.status # "paused" /\ j.iteration < Cap
                    /\ runs[r].status = "complete"
               THEN [checks EXCEPT ![r] = @ + 1] ELSE checks

Handle ==
  /\ told # <<>> /\ told' = Tail(told)
  /\ Decide(Head(told), job, [runner EXCEPT !.sub = None])
  /\ UNCHANGED <<setup, runs, hand, copying, lapsed, bounds>>

\* The until check of a pass ends, minutes later.
CheckEnds(r) ==
  /\ Quiet /\ checks[r] > 0 /\ checks' = [checks EXCEPT ![r] = @ - 1]
  /\ \E yes \in BOOLEAN : IF yes THEN Finalize(job, calls, runner)
                                 ELSE Continue(job, runner)
  /\ UNCHANGED <<setup, runs, told, hand, copying, lapsed, bounds>>

\* closeAndForgetOwnBranch
Closed ==
  /\ Quiet /\ closing # None /\ closing' = None
  /\ open' = open \ {closing} /\ job' = [job EXCEPT !.own = None]
  /\ UNCHANGED <<setup, runner, calls, runs, watch, told, checks, hand,
                 copies, history, bounds>>

-----------------------------------------------------------------------------
(* What people do *)

Press == Quiet /\ hand = None /\ presses < MaxPresses /\ presses' = presses + 1

\* pauseLoop
Pause ==
  /\ Press /\ job.status # "paused"
  /\ Stay([job EXCEPT !.status = "paused", !.due = FALSE], calls,
          [runner EXCEPT !.timer = FALSE])
  /\ UNCHANGED <<Rest, fires, faults>>

\* resumeJob and resumeLoop
Resume ==
  /\ Press /\ job.status = "paused"
  /\ LET j == [job EXCEPT !.status = "idle"]
         r == job.current IN
     IF r = None
     THEN /\ Stay(j, calls, [runner EXCEPT !.timer = @ \/
                    (setup.kind = "cadence" /\ (j.due \/ j.iteration > 0))])
          /\ UNCHANGED checks
     ELSE IF Holds(j)
     THEN /\ job' = j /\ runner' = Watching(r, runner)
          /\ watch' = watch \cup {r}
          /\ UNCHANGED <<calls, closing, overtaken, checks>>
     ELSE Decide(r, j, runner)
  /\ UNCHANGED <<setup, runs, told, hand, copying, lapsed, fires, faults>>

Killed(r) ==
  IF r # None /\ runs[r].status = "live"
  THEN [runs EXCEPT ![r].status = "killed"] ELSE runs

\* stopLoop: the live run is killed, then the loop is finalized.
Stop ==
  /\ Press
  /\ IF job.current # None
     THEN /\ hand' = [what |-> "stop", at |-> "kill", run |-> job.current]
          /\ Stay(job, calls, runner)
     ELSE Finalize(job, calls, runner) /\ UNCHANGED hand
  /\ UNCHANGED <<setup, runs, told, checks, copying, lapsed, fires, faults>>

StopKills ==
  /\ Quiet /\ hand # None /\ hand.what = "stop" /\ hand' = None
  /\ runs' = Killed(hand.run)
  /\ job' = [job EXCEPT !.status = "stopped", !.current = None, !.due = FALSE]
  /\ runner' = NoRunner /\ watch' = watch \ {runner.sub}
  /\ calls' = Disowned(calls)
  /\ closing' = IF closing = None THEN job.own ELSE closing
  /\ overtaken' = (overtaken \/ Launching
                     \/ (Live(job) /\ job.current # hand.run))
  /\ UNCHANGED <<setup, told, checks, copying, lapsed, bounds>>

\* runNow: nothing of the old cycle is watched any more.
RunNow ==
  /\ Press
  /\ runner' = NoRunner /\ watch' = watch \ {runner.sub, job.current}
  /\ calls' = Disowned(calls)
  /\ overtaken' = (overtaken \/ Launching)
  /\ hand' = IF Live(job)
             THEN [what |-> "restart", at |-> "kill", run |-> job.current]
             ELSE [what |-> "restart", at |-> "settle", run |-> None]
  /\ closing' = IF Live(job) \/ closing # None THEN closing ELSE job.own
  /\ UNCHANGED <<setup, job, runs, told, checks, copying, lapsed, fires,
                 faults>>

RestartKills ==
  /\ Quiet /\ hand # None /\ hand.what = "restart" /\ hand.at = "kill"
  /\ runs' = Killed(hand.run)
  /\ hand' = [hand EXCEPT !.at = "settle"]
  /\ closing' = IF closing = None THEN job.own ELSE closing
  /\ UNCHANGED <<setup, job, runner, calls, watch, told, checks, copying,
                 history, bounds>>

\* The reset, and the start by hand.
Restarts ==
  /\ told = <<>> /\ hand # None /\ hand.at = "settle" /\ closing = None
  /\ hand' = None
  /\ Enter("manual", Idle, runner)
  /\ UNCHANGED <<setup, runs, told, checks, copying, lapsed, bounds>>

-----------------------------------------------------------------------------

Calls ==
  \E c \in calls :
    \/ PrecheckPasses(c) \/ PrecheckRefuses(c) \/ Settled(c)
    \/ Opened(c) \/ OpenFails(c) \/ Discarded(c) \/ Claimed(c)
    \/ Launched(c) \/ LaunchFails(c) \/ Watched(c)

Passes == \E r \in RunIds : RunEnds(r) \/ CheckEnds(r)

System ==
  \/ Calls \/ Passes \/ Tick \/ Handle \/ Closed
  \/ StopKills \/ RestartKills \/ Restarts

People == Pause \/ Resume \/ Stop \/ RunNow

Next == System \/ People \/ Fire

Spec     == Init /\ [][Next]_vars
FairSpec == Spec /\ WF_vars(System)

-----------------------------------------------------------------------------
(* Properties *)

\* A pass that works is the one the record names, so that it can be seen,
\* waited for and stopped ("won't stack"): although every end is decided twice
\* and starts come from everywhere, two passes never work at once, unless the
\* loop was ended or restarted under a launch or a pass.
EveryPassIsHeld ==
  overtaken \/ \A r \in RunIds : runs[r].status = "live" => r = job.current

\* Exactly one side owns a copy: the record, whose end closes it, or a call
\* that lost its claim; and whoever ends the loop closes it.
CopyHasOneOwner ==
  /\ \A copy \in open :
       Cardinality({c \in calls : c.at = "discarding" /\ c.copy = copy})
         + (IF job.own = copy THEN 1 ELSE 0) = 1
  /\ job.own \in open \cup {None}
  /\ closing # None => closing = job.own
  /\ job.status = "stopped" /\ job.own # None => closing = job.own

\* The inductive invariants behind CopyHasOneOwner and EveryPassIsHeld.

\* What a call was before it came this far.
CallsAreSound ==
  \A c \in calls :
    /\ c.at \in {"opening", "claimed", "launching"} => c.iteration < Cap
    /\ c.at = "opening" => c.from # "stopped"
    /\ c.at = "recorded" => c.run # None

\* An open copy is the record's, or exactly one call's that throws it away.
Discards(cs, copy) == {c \in cs : c.at = "discarding" /\ c.copy = copy}
OneOwner ==
  \A copy \in open : IF job.own = copy THEN Discards(calls, copy) = {}
                     ELSE \E c \in calls : Discards(calls, copy) = {c}

\* Whoever waited for a copy to be closed goes on before a new one is claimed.
OwnershipInv ==
  /\ CallsAreSound /\ OneOwner
  /\ closing # None => closing = job.own
  /\ job.status = "stopped" /\ job.own # None => closing = job.own
  /\ Continues => job.own = None

\* One call at a time is firing; unless the loop was overtaken, what launches is
\* still its own, and nothing works while a call is on its way to a launch.
Starting(c) == c.mine /\ c.at \in {"opening", "claimed", "launching"}
PassInv ==
  /\ \A c, d \in calls : Firing({c}) /\ Firing({d}) => c = d
  /\ overtaken \/ /\ \A r \in RunIds : runs[r].status = "live" => r = job.current
                  /\ \A c \in calls : c.at = "launching" => c.mine
                  /\ (\E c \in calls : Starting(c)) => \A r \in RunIds : runs[r].status # "live"

\* An automation that asked for its own branch "must never fall back to
\* editing the user's checkout".
NeverInTheCheckout ==
  setup.own => \A r \in RunIds : runs[r].copy # None

\* A cycle that began moves on: it never waits for its trigger, and ends by its
\* cap at the latest, unless a person holds it or a launch came to nothing.
LoopMovesOn ==
  job.current # None /\ job.status \in {"idle", "running"}
    ~> job.status \in {"stopped", "paused"} \/ lapsed \/ overtaken
          \/ Len(runs) = MaxRuns
=============================================================================
