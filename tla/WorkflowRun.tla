----------------------------- MODULE WorkflowRun -----------------------------
(***************************************************************************)
(* One workflow run of Codara: the script in its sandbox thread, the       *)
(* runtime that starts an agent for each call and answers it               *)
(* (workflow-runtime.ts), the record it writes and replays                 *)
(* (WorkflowJournal), and the driver that starts, stops, resumes, cancels, *)
(* suspends and recovers the run (workflow-driver.ts).                     *)
(*                                                                         *)
(* The main process is one thread: a handler runs to its end, and another  *)
(* runs only where the code awaits.  Messages of the sandbox are heard one *)
(* at a time and in order, at any later moment.  Appends to the record are *)
(* not awaited: a crash loses any suffix of the open generation and may    *)
(* leave half a line.                                                      *)
(*                                                                         *)
(* The script is a function of the answers it got, in their order: the     *)
(* sandbox has no clock, no randomness and no I/O.  An agent costs one     *)
(* unit at most.                                                           *)
(***************************************************************************)
EXTENDS WorkflowJournal, FiniteSets

CONSTANTS
  Calls(_, _),  \* the keys a version of the script issues after an answer
  Over(_, _),   \* "no", or how it ends then: "complete", "failed"
  Versions,     \* 1 is the script of the start; Resume may switch to another
  MaxCalls,     \* bound: the calls of a generation
  Concurrency,  \* caps.concurrency
  Ceiling,      \* caps.tokenCeiling, usdCeiling
  MaxGenerations, \* bound: starts and resumes
  MaxLost,      \* bound: the entries a crash can lose
  Troubled,     \* bound: the calls whose agents may fail or be skipped
  Metered       \* bound: the calls whose usage is heard of before they are over

ASSUME RunAssumption ==
  /\ 1 \in Versions /\ Versions \subseteq Nat /\ Null \notin Values
  /\ MaxCalls \in Nat /\ Concurrency \in Nat \ {0}
  /\ Ceiling \in Nat \ {0} /\ MaxGenerations \in Nat \ {0} /\ MaxLost \in Nat
  /\ Troubled \subseteq 1 .. MaxCalls /\ Metered \subseteq 1 .. MaxCalls

\* What the script may be told for a call, and the scripts.
Reply == [key : Keys, thrown : BOOLEAN, value : Values \cup {Null}]
Told(n) == UNION {[1 .. k -> Reply] : k \in 0 .. n}

ASSUME ScriptAssumption ==
  \A v \in Versions : \A sent \in Told(MaxCalls) :
    Calls(v, sent) \in Seq(Keys) /\ Over(v, sent) \in {"no", "complete", "failed"}

VARIABLES
  state,    \* of the run on disk
  version,  \* of script.js on disk
  files,    \* the generations that are closed
  reports,  \* final reports of agents on disk: [seq, key] -> value
  phase,    \* of the driver: "idle", "resuming" (the awaits of a Resume),
            \* "loading" (executeRun), "active" (the script is running)
  intent,   \* endReason of the active run
  source,   \* the record the next or current generation replays
  rt        \* the runtime

vars == <<state, version, files, reports, phase, intent, source, rt>>
disk == <<state, version, files, reports>>

NoRun ==
  [calls |-> <<>>, sent |-> <<>>, inbox |-> <<>>, idles |-> 1, cursor |-> 1,
   replaying |-> FALSE, stopping |-> FALSE, terminated |-> FALSE,
   outcome |-> "none", settled |-> 0, journal |-> <<>>]

\* The run has an outcome (finished).
Finished(r) == r.outcome # "none"
Ending(r) == r.stopping \/ Finished(r)

Init ==
  /\ state = "running" /\ version = 1 /\ files = <<>> /\ reports = << >>
  /\ phase = "loading" /\ intent = "none" /\ source = <<>> /\ rt = NoRun

-----------------------------------------------------------------------------
(* The script *)

IsOver(sent) == Over(version, sent) # "no"

\* What the sandbox posts when it is started and for each answer.
Says(sent) ==
  LET calls == Calls(version, sent)
      last  == IF IsOver(sent) THEN Over(version, sent) ELSE "idle"
  IN IF sent # <<>> /\ IsOver(Front(sent)) THEN <<>>
     ELSE [i \in DOMAIN calls |-> [m |-> "call", key |-> calls[i]]] \o <<[m |-> last]>>

-----------------------------------------------------------------------------
(* Answers and ceilings: what the handlers below are made of *)

Execution == {"working", "over"}   \* of agents (liveExecutions)
Executing(r) == {s \in DOMAIN r.calls : r.calls[s].at \in Execution}
Queued(r) == Ascending({s \in DOMAIN r.calls : r.calls[s].at = "queued"}, Len(r.calls))

\* spent: settled, and what the agents that are not answered have used so far.
Spending(r) == r.settled + Cardinality({s \in DOMAIN r.calls : r.calls[s].used = 1})
AtCeiling(r) == Spending(r) >= Ceiling

\* abort of every agent that is not aborted yet.
Aborts(r, why) ==
  [r EXCEPT !.calls = [s \in DOMAIN @ |->
    IF @[s].at \in Execution /\ @[s].abort = "none" THEN [@[s] EXCEPT !.abort = why] ELSE @[s]]]

\* abortAll: queued calls are dropped, agents aborted.
AbortAll(r, why) ==
  LET a == Aborts(r, why)
  IN [a EXCEPT !.calls = [s \in DOMAIN @ |->
       IF @[s].at = "queued" THEN [@[s] EXCEPT !.at = "stopped"] ELSE @[s]]]

EnforceCeilings(r) == IF ~Ending(r) /\ AtCeiling(r) THEN Aborts(r, "ceiling") ELSE r

\* Mutant: the guest's next idle is not counted.
MutantReplies(r, seq, how, value, use) ==
  LET sent == Append(r.sent, [key |-> r.calls[seq].key, thrown |-> how = "error", value |-> value])
  IN [r EXCEPT !.journal = Append(@, Done(seq, how, value, use)),
               !.sent = sent, !.inbox = @ \o Says(sent)]

\* The journal, then the guest.
Replies(r, seq, how, value, use) ==
  LET sent == Append(r.sent, [key |-> r.calls[seq].key, thrown |-> how = "error", value |-> value])
  IN [r EXCEPT !.journal = Append(@, Done(seq, how, value, use)),
               !.idles = @ + 1, !.sent = sent, !.inbox = @ \o Says(sent)]

Answer(r, seq, how, value, use) ==
  LET q == EnforceCeilings([r EXCEPT !.calls[seq] = [@ EXCEPT !.at = "answered", !.used = 0],
                                     !.settled = @ + use])
  IN IF Ending(q) THEN q ELSE Replies(q, seq, how, value, use)

Refuse(r, seq) == Answer(r, seq, "error", Null, 0)
RefuseAll(r, seqs) ==
  LET q[n \in 0 .. Len(seqs)] == IF n = 0 THEN r ELSE Refuse(q[n - 1], seqs[n])
  IN q[Len(seqs)]

\* pumpLive: start what concurrency allows, or refuse everybody at a ceiling.
PumpLive(r) ==
  LET free == Concurrency - Cardinality(Executing(r))
      next == Queued(r)
  IN IF Ending(r) \/ free <= 0 THEN r
     ELSE IF AtCeiling(r) THEN RefuseAll(r, next)
     ELSE [r EXCEPT !.calls = [s \in DOMAIN @ |->
            IF \E i \in DOMAIN next : next[i] = s /\ i <= free
            THEN [@[s] EXCEPT !.at = "working"] ELSE @[s]]]

DispatchLive(r, seq) ==
  IF AtCeiling(r) THEN Refuse(r, seq) ELSE PumpLive([r EXCEPT !.calls[seq].at = "queued"])

\* Mutant: what a stopped or unused answer cost is forgotten.
MutantAbandon(r, use) == r

Abandon(r, use) ==
  IF use = 0 THEN r
  ELSE [r EXCEPT !.settled = @ + use, !.journal = Append(@, Abandoned(use))]

AbandonAll(r, dones) ==
  LET q[n \in 0 .. Len(dones)] == IF n = 0 THEN r ELSE Abandon(q[n - 1], dones[n].usage)
  IN q[Len(dones)]

-----------------------------------------------------------------------------
(* Replay.  A call matched in the record has the same number in both. *)

stream == Stream(source)
Matched(r) == {stream[i].seq : i \in {j \in 1 .. r.cursor - 1 : stream[j].t = "issue"}}
Delivered(r) == {stream[i].seq : i \in {j \in 1 .. r.cursor - 1 : stream[j].t = "done"}}
DoneOf(seq) == stream[CHOOSE i \in DonesOf(stream, seq) : \A j \in DonesOf(stream, seq) : j <= i]
HasDone(seq) == DonesOf(stream, seq) # {}

\* matchIssue
MatchesIssue(r, key) ==
  /\ r.cursor <= Len(stream)
  /\ stream[r.cursor].t = "issue" /\ stream[r.cursor].key = key

\* Mutant: what is replayed is not recorded again.
MutantDeliverCached(r, done) ==
  [Answer(r, done.seq, "ok", done.value, done.usage) EXCEPT !.journal = r.journal]

DeliverCached(r, done) == Answer(r, done.seq, "ok", done.value, done.usage)

EndReplay(r) == [r EXCEPT !.replaying = FALSE, !.journal = Append(@, Live)]

\* Calls that matched and whose answer was not delivered yet, in issue order.
Leftovers(r) == Ascending(Matched(r) \ Delivered(r), Len(r.calls))
UnmatchedDones(r) ==
  Selected(stream, {i \in DOMAIN stream : stream[i].t = "done" /\ stream[i].seq \notin Matched(r)})

\* Mutant: a leftover runs again though its answer is known.
MutantDelivers(r, seq) ==
  DispatchLive(IF HasDone(seq) THEN Abandon(r, DoneOf(seq).usage) ELSE r, seq)

\* A leftover keeps a usable answer; otherwise it runs, its old cost carried over.
Delivers(r, seq) ==
  IF HasDone(seq) /\ ~RerunsOnResume(DoneOf(seq)) THEN DeliverCached(r, DoneOf(seq))
  ELSE DispatchLive(IF HasDone(seq) THEN Abandon(r, DoneOf(seq).usage) ELSE r, seq)

DeliverLeftovers(r, seqs) ==
  LET q[n \in 0 .. Len(seqs)] == IF n = 0 THEN r ELSE Delivers(q[n - 1], seqs[n])
  IN q[Len(seqs)]

Diverge(r) ==
  AbandonAll(DeliverLeftovers(EndReplay(r), Leftovers(r)), UnmatchedDones(r))

\* next: a recorded issue the idle guest did not make, or an answer that cannot be used.
NeverComes(r) == stream[r.cursor].t = "issue" /\ r.idles = 0
CanDeliver(r, e) == e.t = "done" /\ e.seq \in Matched(r) /\ ~RerunsOnResume(e)

\* The answer at the cursor, if it is one whose turn it is.
DeliverNext(r) ==
  IF r.cursor <= Len(stream) /\ CanDeliver(r, stream[r.cursor])
  THEN DeliverCached([r EXCEPT !.cursor = @ + 1], stream[r.cursor])
  ELSE r
DeliverAll(r) ==
  LET q[n \in 0 .. Len(stream)] == IF n = 0 THEN r ELSE DeliverNext(q[n - 1])
  IN q[Len(stream)]

\* pumpReplay: the answers whose turn it is, one after the other, then the next step.
PumpReplay(r) ==
  LET d == DeliverAll(r)
  IN IF d.cursor > Len(stream)
     THEN IF Leftovers(d) # <<>> THEN Diverge(d) ELSE EndReplay(d)
     ELSE IF stream[d.cursor].t = "done" \/ NeverComes(d) THEN Diverge(d)
     ELSE d

-----------------------------------------------------------------------------
(* Messages of the sandbox *)

Fresh(key) == [key |-> key, at |-> "cached", abort |-> "none", used |-> 0, value |-> Null]

Issues(r, key) ==
  [r EXCEPT !.calls = Append(@, Fresh(key)),
            !.journal = Append(@, Issue(Len(r.calls) + 1, key))]

OnCall(r, key) ==
  LET q == Issues(r, key)
  IN IF q.replaying /\ MatchesIssue(q, key) THEN PumpReplay([q EXCEPT !.cursor = @ + 1])
     ELSE DispatchLive(IF q.replaying THEN Diverge(q) ELSE q, Len(q.calls))

\* The end of the script: agents are aborted, the sandbox is gone.
Finish(r, outcome) ==
  [AbortAll(r, "stop") EXCEPT !.outcome = outcome, !.inbox = <<>>, !.journal = Append(@, End)]

\* checkDeadlock: everything is answered and the guest waits all the same.
IsStuck(r) ==
  /\ ~Ending(r) /\ r.idles = 0 /\ ~r.replaying
  /\ \A s \in DOMAIN r.calls : r.calls[s].at = "answered"

\* Mutant: a script that waits for nothing is left alone.
MutantCheckDeadlock(r) == r
CheckDeadlock(r) == IF IsStuck(r) THEN Finish(r, "stuck") ELSE r

OnIdle(r) ==
  LET q == [r EXCEPT !.idles = IF @ = 0 THEN 0 ELSE @ - 1]
  IN CheckDeadlock(IF q.replaying THEN PumpReplay(q) ELSE q)

OnDone(r, outcome) == Finish(r, outcome)

Hears ==
  /\ phase = "active" /\ rt.inbox # <<>>
  /\ Head(rt.inbox).m = "call" => Len(rt.calls) < MaxCalls
  /\ LET message == Head(rt.inbox)
         r       == [rt EXCEPT !.inbox = Tail(@)]
     IN rt' = CASE message.m = "call" -> OnCall(r, message.key)
                [] message.m = "idle" -> OnIdle(r)
                [] OTHER              -> OnDone(r, message.m)
  /\ UNCHANGED <<disk, phase, intent, source>>

-----------------------------------------------------------------------------
(* Agents: execute *)

Sets(seq, call) == rt' = [rt EXCEPT !.calls[seq] = call]
Agent(seq, at) == phase = "active" /\ seq \in DOMAIN rt.calls /\ rt.calls[seq].at = at

\* Usage of a running agent counts toward the ceilings at once.
Uses(seq) ==
  /\ seq \in Metered /\ Agent(seq, "working") /\ rt.calls[seq].used = 0
  /\ rt' = EnforceCeilings([rt EXCEPT !.calls[seq].used = 1])
  /\ UNCHANGED <<disk, phase, intent, source>>

\* An agent writes its final report and succeeds; the runtime hears of it later.
\* Of two attempts at one call the salvage takes the older.
Reports(seq, value) ==
  /\ Agent(seq, "working")
  /\ Sets(seq, [rt.calls[seq] EXCEPT !.at = "over", !.value = value])
  /\ reports' = [c \in DOMAIN reports \cup {[seq |-> seq, key |-> rt.calls[seq].key]} |->
                  IF c \in DOMAIN reports THEN reports[c] ELSE value]
  /\ UNCHANGED <<state, version, files, phase, intent, source>>

\* Stopped agents get no answer, but what they used is recorded.
SettleAborted(r, seq, use) ==
  Abandon([r EXCEPT !.calls[seq] = [@ EXCEPT !.at = "stopped", !.used = 0]], use)

\* Usage of the result: of an agent that reported, all of it.
UseOf(call) == IF call.value # Null THEN 1 ELSE call.used

Settled(r, seq) ==
  LET call == r.calls[seq]
  IN CASE call.abort = "skip"    -> Answer(r, seq, "ok", Null, UseOf(call))
       [] call.abort = "ceiling" -> Answer(r, seq, "cut", Null, UseOf(call))
       [] call.abort \in {"stop", "quit"} -> SettleAborted(r, seq, UseOf(call))
       [] OTHER                  -> Answer(r, seq, "ok", call.value, UseOf(call))

\* executor.run returns: with a report, or with null from an agent that failed
\* or was killed (stopWorkerAttempt) because it was aborted.
Ends(seq) ==
  /\ \/ Agent(seq, "over")
     \/ Agent(seq, "working") /\ (seq \in Troubled \/ rt.calls[seq].abort # "none")
  /\ rt' = PumpLive(Settled(rt, seq))
  /\ UNCHANGED <<disk, phase, intent, source>>

\* The user skips a call.
Skip(seq) ==
  /\ phase = "active" /\ seq \in Troubled \cap DOMAIN rt.calls
  /\ \/ /\ rt.calls[seq].at = "queued"
        /\ rt' = Answer(rt, seq, "ok", Null, 0)
     \/ /\ rt.calls[seq].at \in Execution /\ rt.calls[seq].abort = "none"
        /\ Sets(seq, [rt.calls[seq] EXCEPT !.abort = "skip"])
  /\ UNCHANGED <<disk, phase, intent, source>>

-----------------------------------------------------------------------------
(* The driver *)

\* start: what earlier generations abandoned is carried over.
Carried == Entries(source, {"abandoned"})
Started ==
  LET r == [NoRun EXCEPT !.journal = <<Start(version)>> \o Carried, !.settled = Spent(Carried),
                         !.replaying = (stream # <<>>), !.inbox = Says(<<>>)]
  IN IF source # <<>> /\ stream = <<>> THEN EndReplay(r) ELSE r

Starts ==
  /\ phase = "loading" /\ intent = "none"
  /\ phase' = "active" /\ rt' = Started
  /\ UNCHANGED <<disk, intent, source>>

\* A Cancel may follow a Stop, and nothing else may follow anything.
Means(reason) == intent' = IF intent = "none" \/ reason = "cancel" THEN reason ELSE intent

\* stopActive: the guest is cut off at once, its agents when its thread is gone.
Stop(reason) ==
  /\ phase \in {"loading", "active"} /\ intent \notin {reason, "cancel"}
  /\ Means(reason)
  /\ rt' = IF phase = "active" /\ ~Finished(rt)
           THEN [rt EXCEPT !.stopping = TRUE, !.inbox = <<>>] ELSE rt
  /\ UNCHANGED <<disk, phase, source>>

Terminated ==
  /\ phase = "active" /\ rt.stopping /\ ~rt.terminated /\ ~Finished(rt)
  /\ rt' = [AbortAll(rt, "stop") EXCEPT !.terminated = TRUE]
  /\ UNCHANGED <<disk, phase, intent, source>>

\* suspend: the app quits.
Quit ==
  /\ phase \in {"loading", "active"} /\ intent = "none"
  /\ intent' = "quit"
  /\ rt' = IF phase = "active" /\ ~Finished(rt)
           THEN [AbortAll(rt, "quit") EXCEPT !.stopping = TRUE, !.outcome = "stopped", !.inbox = <<>>]
           ELSE rt
  /\ UNCHANGED <<disk, phase, source>>

\* settle: what the run becomes.
StateAfter(outcome) ==
  CASE outcome = "complete"           -> "complete"
    [] outcome \in {"failed", "stuck"} -> "failed"
    [] intent = "cancel"              -> "cancelled"
    [] OTHER                          -> "paused"

Closed(file) == IF file = <<>> THEN files ELSE Append(files, file)

\* The run is over once the last agent is; one that was stopped while it was
\* loading never starts.  A quit saves nothing of a script it cut off.
Settles ==
  /\ \/ phase = "active" /\ (Finished(rt) \/ rt.terminated) /\ Executing(rt) = {}
     \/ phase = "loading" /\ intent # "none"
  /\ intent = "quit" => rt.outcome \in {"complete", "failed", "stuck"}
  /\ state' = StateAfter(rt.outcome)
  /\ phase' = "idle"
  /\ files' = Closed(rt.journal)
  /\ intent' = "none" /\ source' = <<>> /\ rt' = NoRun
  /\ UNCHANGED <<version, reports>>

\* A cancelled run that nothing drives.
CancelIdle ==
  /\ phase \in {"idle", "resuming"} /\ state = "paused"
  /\ state' = "cancelled"
  /\ UNCHANGED <<version, files, reports, phase, intent, source, rt>>

\* resumeWorkflowRunInner up to its last await: the checks, the script, the
\* record.  (A bound: the script does not go back to an older version.)
Resume(latest) ==
  /\ phase = "idle" /\ state \in {"paused", "failed"} /\ Len(files) < MaxGenerations
  /\ latest \in Versions /\ latest >= version
  /\ phase' = "resuming" /\ version' = latest
  /\ source' = LatestReplaySource(files)
  /\ UNCHANGED <<state, files, reports, intent, rt>>

ResumeSaves ==
  /\ phase = "resuming"
  /\ state' = "running" /\ phase' = "loading"
  /\ UNCHANGED <<version, files, reports, intent, source, rt>>

-----------------------------------------------------------------------------
(* Crash and recovery *)

\* The open generation as the disk has it.
OnDisk(file) ==
  LET kept == {n \in 0 .. Len(file) : n + MaxLost >= Len(file)}
  IN {SubSeq(file, 1, n) : n \in kept}
       \cup {Append(SubSeq(file, 1, n), Torn) : n \in kept \ {Len(file)}}

\* Mutant: a report is salvaged for a call that is answered.
MutantSalvageable(entries, seq) == TRUE
Salvageable(entries, seq) == DonesOf(entries, seq) = {}

\* salvageFinishedAttempts: reports of calls the newest generation never answered.
\* What is appended after half a line is never read, and left out here.
Salvage(file) ==
  LET entries == Parsed(file)
      late == Selected(entries, {i \in DOMAIN entries :
                /\ entries[i].t = "issue"
                /\ [seq |-> entries[i].seq, key |-> entries[i].key] \in DOMAIN reports
                /\ Salvageable(entries, entries[i].seq)})
  IN IF Has(file, "torn") THEN file
     ELSE file \o [i \in DOMAIN late |->
                    Done(late[i].seq, "ok", reports[[seq |-> late[i].seq, key |-> late[i].key]], 1)]

\* The app goes down and is started again: recoverWorkflowRuns parks a run that
\* was running before anything else can happen to it.
Crash ==
  /\ phase # "idle"
  /\ \E file \in OnDisk(rt.journal) :
       LET left == Closed(file)
       IN files' = IF state = "running" /\ left # <<>>
                   THEN [left EXCEPT ![Len(left)] = Salvage(@)] ELSE left
  /\ state' = IF state = "running" THEN "paused" ELSE state
  /\ phase' = "idle" /\ intent' = "none" /\ source' = <<>> /\ rt' = NoRun
  /\ UNCHANGED <<version, reports>>

-----------------------------------------------------------------------------
AgentStep(seq) ==
  \/ Uses(seq) \/ Ends(seq) \/ Skip(seq)
  \/ \E value \in Values : Reports(seq, value)

Next ==
  \/ Hears \/ Terminated \/ Starts \/ Settles \/ ResumeSaves
  \/ \E seq \in 1 .. MaxCalls : AgentStep(seq)
  \/ Stop("stop") \/ Stop("cancel") \/ Quit \/ CancelIdle
  \/ \E latest \in Versions : Resume(latest)
  \/ Crash

Spec == Init /\ [][Next]_vars

-----------------------------------------------------------------------------
(* Properties *)

Call == [key : Keys, at : Execution \cup {"cached", "queued", "answered", "stopped"},
         abort : {"none", "ceiling", "skip", "stop", "quit"},
         used : 0 .. 1, value : Values \cup {Null}]

Message == [m : {"call"}, key : Keys] \cup [m : {"idle", "complete", "failed"}]

Runtime ==
  [calls : Seq(Call), sent : Seq(Reply), inbox : Seq(Message), idles : Nat,
   cursor : Nat \ {0}, replaying : BOOLEAN, stopping : BOOLEAN, terminated : BOOLEAN,
   outcome : {"none", "stopped", "complete", "failed", "stuck"}, settled : Nat,
   journal : Seq(Entry)]

\* Types: of the disk, the driver and the runtime.
TypeOK ==
  /\ state \in {"running", "paused", "failed", "complete", "cancelled"}
  /\ phase \in {"idle", "resuming", "loading", "active"}
  /\ intent \in {"none", "stop", "cancel", "quit"}
  /\ version \in Versions
  /\ DOMAIN reports \subseteq [seq : 1 .. MaxCalls, key : Keys]
  /\ \A c \in DOMAIN reports : reports[c] \in Values
  /\ files \in Seq(Seq(Entry)) /\ source \in Seq(Entry)
  /\ rt \in Runtime /\ Len(rt.calls) <= MaxCalls

\* The calls a version issues once it has these answers, in order.
Issued(v, sent) ==
  FlattenSeq([i \in 1 .. Len(sent) + 1 |->
    IF \E j \in 0 .. i - 2 : Over(v, SubSeq(sent, 1, j)) # "no" THEN <<>>
    ELSE Calls(v, SubSeq(sent, 1, i - 1))])

Records == {Parsed(file) : file \in Range(files)} \cup {rt.journal}

\* Every record is a run of its script: each call in it is the one the script
\* makes after the answers recorded before it.  Replay rests on this, through
\* lost suffixes, answers that were salvaged, and replays of replays.
RecordIsARun ==
  \A record \in Records :
    LET entries == Stream(record)
        issues  == Entries(entries, {"issue"})
        Sent(i) == LET dones == Entries(SubSeq(entries, 1, i - 1), {"done"})
                   IN [k \in DOMAIN dones |->
                        [key |-> issues[dones[k].seq].key,
                         thrown |-> dones[k].how = "error", value |-> dones[k].value]]
    IN \A i \in DOMAIN entries : entries[i].t = "issue" =>
         LET calls == Issued(record[1].version, Sent(i))
         IN entries[i].seq <= Len(calls) /\ calls[entries[i].seq] = entries[i].key

\* A record answers a call once, and after it was issued ("nothing is delivered
\* twice"), whatever was answered, re-recorded and salvaged.
AnsweredOnce ==
  \A record \in Records : \A i \in DOMAIN record : record[i].t = "done" =>
    /\ \E j \in 1 .. i - 1 : record[j].t = "issue" /\ record[j].seq = record[i].seq
    /\ DonesOf(record, record[i].seq) = {i}

\* An agent is not started for a matched call whose answer is known.
ResultsAreReused ==
  \A s \in DOMAIN rt.calls :
    rt.calls[s].at \in Execution \cup {"queued"} /\ s \in Matched(rt) /\ HasDone(s)
      => RerunsOnResume(DoneOf(s))

\* The same script takes the same path: if no answer has to be asked again,
\* the replay ends only with the record, however slowly the guest makes its calls.
SameScriptSamePath ==
  /\ phase = "active" /\ source # <<>> /\ source[1].version = version
  /\ \A i \in DOMAIN stream : stream[i].t = "done" => ~RerunsOnResume(stream[i])
  /\ ~rt.replaying
  => rt.cursor > Len(stream)

\* Once the replay is over the run has accounted for all the record's spend.
SpendIsCarried ==
  phase = "active" /\ ~rt.replaying => rt.settled >= Spent(source)

\* A crash in the middle of a replay leaves the older generation in charge; all
\* that can come to it is a salvaged answer.
CrashKeepsTheSource ==
  [][phase = "active" /\ rt.replaying /\ Crash
       => IsPrefix(LatestReplaySource(files), LatestReplaySource(files'))]_vars

\* A script that was started never waits for nothing: a message of the sandbox,
\* an agent, the end of its thread or the settling of the run is on its way, or
\* the app is quitting.
NothingHangs ==
  phase = "active" =>
    \/ rt.inbox # <<>> \/ Executing(rt) # {}
    \/ Ending(rt)

\* The inductive invariant behind AnsweredOnce, ResultsAreReused, NothingHangs and
\* CrashKeepsTheSource.  A record numbers its calls in the order of their issue,
\* and answers a call once, after it was issued.
Places(record, t) == {i \in DOMAIN record : record[i].t = t}
Numbers(record, t) == {record[i].seq : i \in Places(record, t)}

WellNumbered(record) ==
  /\ \A i \in Places(record, "issue") : \A n \in 1 .. record[i].seq - 1 :
       \E j \in Places(record, "issue") : j < i /\ record[j].seq = n
  /\ \A i, j \in Places(record, "issue") : record[i].seq = record[j].seq => i = j
  /\ \A i \in Places(record, "done") :
       \E j \in Places(record, "issue") : j < i /\ record[j].seq = record[i].seq
  /\ \A i, j \in Places(record, "done") : record[i].seq = record[j].seq => i = j

\* The runtime agrees with its record; the guest was told of answered calls only.
Answered(r) == {s \in DOMAIN r.calls : r.calls[s].at = "answered"}
Recorded(r) ==
  /\ WellNumbered(r.journal)
  /\ Numbers(r.journal, "issue") = DOMAIN r.calls
  /\ Numbers(r.journal, "done") \subseteq Answered(r)
  /\ Len(r.sent) <= Cardinality(Answered(r))

\* Before the run ends nothing is stopped, and every idle of the guest that is
\* counted is on its way, or the end of the script is.
Idling(inbox) == {i \in DOMAIN inbox : inbox[i].m = "idle"}
EndComes(inbox) == \E i \in DOMAIN inbox : inbox[i].m \in {"complete", "failed"}
Heard(r) ==
  /\ \A s \in DOMAIN r.calls : r.calls[s].at # "stopped" /\ r.calls[s].abort \notin {"stop", "quit"}
  /\ r.inbox # <<>> => r.inbox[Len(r.inbox)].m # "call"
  /\ EndComes(r.inbox) \/ (r.idles <= Cardinality(Idling(r.inbox)) /\ ~IsOver(r.sent))

\* During the replay the calls are the ones matched in the record, answered as
\* far as their answers were delivered, and the guest still has something to say.
Replays(r) ==
  /\ Matched(r) = DOMAIN r.calls /\ r.cursor <= Len(stream) + 1
  /\ \A s \in DOMAIN r.calls :
       r.calls[s].at = IF s \in Delivered(r) THEN "answered" ELSE "cached"
  /\ ~Has(r.journal, "live")
  /\ source # <<>>

\* After it no call waits for the record, and none for a free place for nothing.
Runs(r) ==
  /\ Matched(r) \subseteq DOMAIN r.calls
  /\ \A s \in DOMAIN r.calls : r.calls[s].at # "cached"
  /\ \A s \in Matched(r) : r.calls[s].at \in Execution \cup {"queued"} /\ HasDone(s)
       => RerunsOnResume(DoneOf(s))
  /\ Ending(r) \/ Executing(r) # {} \/ \A s \in DOMAIN r.calls : r.calls[s].at # "queued"

RunInv ==
  /\ \A file \in Range(files) : WellNumbered(Parsed(file))
  /\ WellNumbered(source)
  /\ phase # "idle" /\ source # <<>> => source = LatestReplaySource(files)
  /\ phase # "active" => rt = NoRun
  /\ phase = "active" =>
       /\ Recorded(rt)
       /\ IF Ending(rt) THEN rt.inbox = <<>> ELSE Heard(rt)
       /\ IF rt.replaying THEN Replays(rt) ELSE Runs(rt)
       /\ ~Ending(rt) /\ rt.replaying => rt.idles > 0
       /\ ~Ending(rt) /\ rt.inbox = <<>> => ~IsStuck(rt)

\* What the code does not keep to: a run that was cancelled stays cancelled, it
\* "has ended" (resumeWorkflowRunInner).
CancelledIsFinal == [][state = "cancelled" => state' = "cancelled"]_vars
=============================================================================
