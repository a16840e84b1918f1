------------------------------ MODULE EventLog ------------------------------
(***************************************************************************)
(* The event journal of one run (src/main/orchestration/event-log.ts), and *)
(* somebody who follows it from the command line: the loop of              *)
(* cli/commands/session.cjs, which asks chat.events (agent-socket.ts) for  *)
(* one page after the other until the run has settled.                     *)
(*                                                                         *)
(* Events reach the journal directly, in batches of one or two, or through *)
(* a buffer that a timer, a flush, a full buffer or the next direct append *)
(* empties.  Either way a slot of the append queue is claimed in the same  *)
(* synchronous step, and the slots are written one after the other: the    *)
(* journal state is read from the file if it is not cached, the lines are  *)
(* appended, and only when the write succeeded the cache advances and the  *)
(* subscribers are told.                                                   *)
(*                                                                         *)
(* A write can fail, and the process can die, after any part of its text   *)
(* reached the file.                                                       *)
(***************************************************************************)
EXTENDS Selections, FiniteSets, SequencesExt, FiniteSetsExt

CONSTANTS
  MaxBuffered,  \* MAX_BUFFERED_EVENTS
  MaxBatch,     \* CHAT_EVENTS_MAX_BATCH
  MaxEvents,    \* bound: events emitted
  MaxFailures,  \* bound: appends that fail
  MaxCrashes,   \* bound: deaths of the process
  None

ASSUME EventLogAssumption ==
  /\ MaxBuffered \in Nat \ {0} /\ MaxBatch \in Nat \ {0}
  /\ MaxEvents \in Nat /\ MaxFailures \in Nat /\ MaxCrashes \in Nat
  /\ None \notin Nat \cup [high : Nat, newline : BOOLEAN]
                    \cup [high : Nat, newline : BOOLEAN, landed : Nat]

VARIABLES
  emitted,   \* how many events were emitted; event e is the e-th of them
  buffer,    \* pendingBuffers: the parked events; its timer runs if there are any
  queue,     \* the claimed slots of runAppendQueues, each the events of one append
  cache,     \* runJournalStates: highWater and needsLeadingNewline, or None
  append,    \* the write of the first slot: its state and how many lines landed
  file,      \* events.jsonl: the event and the number of every line
  open,      \* does the last line lack its line break?
  feed,      \* what subscribers were told, in order
  settled,   \* has the run settled?
  client,    \* the follower: how far its call is, its cursor (None: undefined),
             \* and whether it began at the start of the journal
  live,      \* the feed of the call in progress
  got,       \* what it has printed
  cut,       \* history: events whose line was begun on an unfinished one
  failures, crashes

vars == <<emitted, buffer, queue, cache, append, file, open, feed,
          settled, client, live, got, cut, failures, crashes>>
disk     == <<file, open>>
follower == <<client, live, got>>
idle     == [at |-> "off", cursor |-> None, all |-> FALSE]

Line(e, n) == [ev |-> e, seq |-> n]
Unreadable == Line(0, 0)   \* a line JSON.parse rejects

\* Mutant: the first line that cannot be read ends the journal.
MutantReadable(f) ==
  SubSeq(f, 1, Min({Len(f)} \cup {i - 1 : i \in {j \in DOMAIN f : f[j] = Unreadable}}))

\* listEvents skips the lines it cannot read.
Readable(f) == Selected(f, {i \in DOMAIN f : f[i] # Unreadable})
Told == {feed[i].ev : i \in DOMAIN feed}
Waiting == {e \in 1 .. emitted :
              \/ \E i \in DOMAIN buffer : buffer[i] = e
              \/ \E i \in DOMAIN queue : \E j \in DOMAIN queue[i] : queue[i][j] = e}

Init ==
  /\ emitted = 0 /\ buffer = <<>> /\ queue = <<>> /\ cache = None /\ append = None
  /\ file = <<>> /\ open = FALSE /\ feed = <<>>
  /\ settled = FALSE /\ client = idle /\ live = <<>> /\ got = <<>>
  /\ cut = {} /\ failures = 0 /\ crashes = 0

-----------------------------------------------------------------------------
(* Emission *)

\* drainBuffer, with the queue q: what is buffered claims the next slot.
Drained(q) == IF buffer = <<>> THEN q ELSE Append(q, buffer)

\* Mutant: a direct append claims its slot before the buffer does.
MutantClaimed(batch) == Drained(Append(queue, batch))

Claimed(batch) == Append(Drained(queue), batch)

\* appendEvents: n events at once, behind whatever was buffered.
AppendEvents(n) ==
  LET batch == [i \in 1 .. n |-> emitted + i]
  IN /\ emitted + n <= MaxEvents
     /\ emitted' = emitted + n
     /\ queue' = Claimed(batch)
     /\ buffer' = <<>>
     /\ UNCHANGED <<cache, append, disk, feed, settled, follower, cut, failures, crashes>>

Full(parked) == Len(parked) >= MaxBuffered

\* appendBufferedEvent
AppendBuffered ==
  LET parked == Append(buffer, emitted + 1)
  IN /\ emitted < MaxEvents
     /\ emitted' = emitted + 1
     /\ buffer' = IF Full(parked) THEN <<>> ELSE parked
     /\ queue' = IF Full(parked) THEN Append(queue, parked) ELSE queue
     /\ UNCHANGED <<cache, append, disk, feed, settled, follower, cut, failures, crashes>>

\* Mutant: the first event in the buffer starts no timer.
MutantTimer == Len(buffer) > 1

Timer == buffer # <<>>

\* The timer of the buffer fires, or flushBufferedEvents is called.
Drain ==
  /\ Timer
  /\ queue' = Drained(queue)
  /\ buffer' = <<>>
  /\ UNCHANGED <<emitted, cache, append, disk, feed, settled, follower, cut, failures, crashes>>

-----------------------------------------------------------------------------
(* The append queue *)

\* Mutant: only the lines that can be read count.
MutantHighWater == Max({0} \cup {file[i].seq : i \in DOMAIN file})

\* Lines that cannot be read count with their position.
HighWater == Max({Len(file)} \cup {file[i].seq : i \in DOMAIN file})

\* readJournalState, unless this process has it.
JournalState == IF cache # None THEN cache ELSE [high |-> HighWater, newline |-> open]

\* The first slot begins.
StartAppend ==
  /\ queue # <<>> /\ append = None
  /\ append' = [high |-> JournalState.high, newline |-> JournalState.newline, landed |-> 0]
  /\ UNCHANGED <<emitted, buffer, queue, cache, disk, feed, settled, follower, cut, failures, crashes>>

Batch == Head(queue)
Landing == Line(Batch[append.landed + 1], append.high + append.landed + 1)
\* The text of the next line goes on the end of an unfinished one.
Glued == append.landed = 0 /\ open /\ ~append.newline

\* The file once l is written to it.
FileWith(l) == IF Glued THEN [file EXCEPT ![Len(file)] = Unreadable] ELSE Append(file, l)

\* One more line is in the file, with its line break.
Land ==
  /\ append # None /\ append.landed < Len(Batch)
  /\ file' = FileWith(Landing) /\ open' = FALSE
  /\ append' = [append EXCEPT !.landed = @ + 1]
  /\ cut' = IF Glued THEN cut \cup {Landing.ev} ELSE cut
  /\ UNCHANGED <<emitted, buffer, queue, cache, feed, settled, follower, failures, crashes>>

Numbered == [i \in 1 .. Len(Batch) |-> Line(Batch[i], append.high + i)]

\* appendFile succeeded: remember how far the journal is, then tell.
Succeed ==
  /\ append # None /\ append.landed = Len(Batch)
  /\ cache' = [high |-> append.high + Len(Batch), newline |-> FALSE]
  /\ feed' = feed \o Numbered
  /\ live' = IF client.at \in {"asked", "waiting"} THEN live \o Numbered ELSE live
  /\ queue' = Tail(queue) /\ append' = None
  /\ UNCHANGED <<emitted, buffer, disk, settled, client, got, cut, failures, crashes>>

\* What a write that stops early leaves behind its last full line: nothing, a
\* part of the next line, or all of it but the line break.
StopsWriting ==
  \/ UNCHANGED disk
  \/ /\ append # None /\ append.landed < Len(Batch)
     /\ open' = TRUE
     /\ file' \in {FileWith(Unreadable), FileWith(Landing)}

\* appendFile, or reading the state before it, failed.  The caller is told;
\* the next slot begins all the same.
Fail ==
  /\ append # None /\ failures < MaxFailures
  /\ StopsWriting
  /\ failures' = failures + 1
  /\ queue' = Tail(queue) /\ append' = None
  /\ UNCHANGED <<emitted, buffer, cache, feed, settled, follower, cut, crashes>>

\* The process dies; the next one knows only the file.  A call in progress
\* fails, and with it the follower.
Crash ==
  /\ crashes < MaxCrashes
  /\ StopsWriting
  /\ crashes' = crashes + 1
  /\ buffer' = <<>> /\ queue' = <<>> /\ cache' = None /\ append' = None
  /\ client' = idle /\ live' = <<>> /\ got' = <<>>
  /\ UNCHANGED <<emitted, feed, settled, cut, failures>>

\* The run is complete, failed, cancelled or blocked.
Settle ==
  /\ ~settled
  /\ settled' = TRUE
  /\ UNCHANGED <<emitted, buffer, queue, cache, append, disk, feed, follower, cut,
                 failures, crashes>>

-----------------------------------------------------------------------------
(* The follower: follow of the command line, and handleChatEvents *)

log == <<emitted, buffer, queue, cache, append, disk, feed, settled, cut, failures, crashes>>

\* Somebody follows the run, from its start or from now.
Follow(all) ==
  /\ client.at \in {"off", "over"}
  /\ client' = [at |-> "idle", cursor |-> IF all THEN 0 ELSE None, all |-> all]
  /\ got' = <<>>
  /\ UNCHANGED <<log, live>>

\* A call subscribes first,
Poll ==
  /\ client.at = "idle"
  /\ client' = [client EXCEPT !.at = "asked"]
  /\ live' = <<>>
  /\ UNCHANGED <<log, got>>

Beyond(s) == Selected(s, {i \in DOMAIN s : s[i].seq > client.cursor})
Page(events) == SubSeq(events, 1, Min({MaxBatch, Len(events)}))

\* Mutant: the cursor goes to the end of what there was, not of the page.
MutantCursorAfter(events) == Max({client.cursor} \cup {events[i].seq : i \in DOMAIN events})

\* The client keeps the greatest number it has seen.
CursorAfter(events) ==
  Max({client.cursor} \cup {Page(events)[i].seq : i \in DOMAIN Page(events)})

\* The answer is one page of these events.  The client prints it, and stops
\* when the run has settled.
Answers(events) ==
  /\ got' = got \o [i \in DOMAIN Page(events) |-> Page(events)[i].ev]
  /\ client' = [client EXCEPT !.at = IF settled THEN "over" ELSE "idle",
                              !.cursor = IF events = <<>> THEN @ ELSE CursorAfter(events)]
  /\ live' = <<>>
  /\ UNCHANGED log

\* then reads the journal, and answers if there is something new in it, or at
\* once if the client has no cursor: with its end, which the client ignores.
Read ==
  /\ client.at = "asked"
  /\ IF client.cursor = None THEN Answers(<<>>)
     ELSE \E events \in {Beyond(Readable(file))} :
            IF events # <<>> THEN Answers(events)
            ELSE client' = [client EXCEPT !.at = "waiting"] /\ UNCHANGED <<log, live, got>>

\* Otherwise it waits, and answers with what came in (in the order of the
\* feed, which is that of the numbers), or with nothing after waitMs.
Wake ==
  /\ client.at = "waiting"
  /\ \E events \in {Beyond(live)} : events # <<>> /\ Answers(events)

TimesOut ==
  /\ client.at = "waiting" /\ Beyond(live) = <<>>
  /\ Answers(<<>>)

\* The client is interrupted.
HangsUp ==
  /\ client.at \in {"idle", "asked", "waiting"}
  /\ client' = idle /\ live' = <<>> /\ got' = <<>>
  /\ UNCHANGED log

-----------------------------------------------------------------------------

Next ==
  \/ \E n \in 1 .. 2 : AppendEvents(n)
  \/ AppendBuffered \/ Drain
  \/ StartAppend \/ Land \/ Succeed \/ Fail
  \/ Crash \/ Settle
  \/ \E all \in BOOLEAN : Follow(all)
  \/ Poll \/ Read \/ Wake \/ TimesOut \/ HangsUp

Spec == Init /\ [][Next]_vars

\* The timer fires, the file system answers, and the client calls again when
\* it has its answer.
Writes  == StartAppend \/ Land \/ Succeed
Follows == Poll \/ Read \/ Wake \/ TimesOut
Fairness == WF_vars(Drain) /\ WF_vars(Writes) /\ WF_vars(Follows)
FairSpec == Spec /\ Fairness

-----------------------------------------------------------------------------
(* Properties *)

\* Every variable has its type, and only the first slot is being written.
JournalTypeOK ==
  /\ emitted \in 0 .. MaxEvents
  /\ buffer \in Seq(1 .. emitted) /\ Len(buffer) < MaxBuffered
  /\ queue \in Seq(Seq(1 .. emitted) \ {<<>>})
  /\ cache # None => cache \in [high : Nat, newline : {FALSE}]
  /\ append # None => /\ append \in [high : Nat, newline : BOOLEAN, landed : Nat]
                      /\ queue # <<>> /\ append.landed <= Len(Batch)
  /\ file \in Seq([ev : 0 .. emitted, seq : Nat]) /\ open \in BOOLEAN
  /\ feed \in Seq([ev : 1 .. emitted, seq : Nat])
  /\ settled \in BOOLEAN /\ cut \subseteq 1 .. emitted

FollowerTypeOK ==
  /\ client \in [at : {"off", "idle", "asked", "waiting", "over"},
                 cursor : Nat \cup {None}, all : BOOLEAN]
  /\ client.cursor = None <=> ~client.all
  /\ client.at = "waiting" => client.all
  /\ live \in Seq([ev : 1 .. emitted, seq : Nat]) /\ got \in Seq(1 .. emitted)

TypeOK == JournalTypeOK /\ FollowerTypeOK

\* Whatever is buffered, fails or is lost in a crash, subscribers hear of events
\* in the order of their emission, once each, under numbers that only grow, also
\* from one process to the next.
Promise == INSTANCE OrderedFeed
ImplementsFeed == Promise!Spec

\* The journal holds what subscribers were told, under the same number, except
\* an event whose line was begun on the rest of a failed append; and its lines
\* are in the order of emission, none twice.
JournalHoldsTheFeed ==
  /\ \A i \in DOMAIN feed : feed[i] \in Range(file) \/ feed[i].ev \in cut
  /\ \A i, j \in DOMAIN file :
       i < j /\ Unreadable \notin {file[i], file[j]} => file[i].ev < file[j].ev

\* The inductive invariant behind ImplementsFeed and JournalHoldsTheFeed.  The
\* events that wait: the claimed slots and, last of them, the buffer.
Slots == Append(queue, buffer)

\* The m-th event of the i-th slot is in the file already.
Landed(i, m) == i = 1 /\ append # None /\ m <= append.landed

\* Events wait in the order of their emission, behind what was told and written.
WaitingInOrder ==
  /\ \A i, j \in DOMAIN Slots : \A m \in DOMAIN Slots[i], n \in DOMAIN Slots[j] :
       (i < j \/ (i = j /\ m < n)) => Slots[i][m] < Slots[j][n]
  /\ \A i \in DOMAIN Slots : \A m \in DOMAIN Slots[i] :
       /\ \A k \in DOMAIN feed : feed[k].ev < Slots[i][m]
       /\ Landed(i, m) \/ \A k \in DOMAIN file : file[k].ev < Slots[i][m]

\* A line has at most the number of its place, so that the length of the file is
\* its high water; the journal state that is cached or in use is never ahead of
\* the file, and behind an unfinished last line that it does not know of.
NumbersFit ==
  /\ \A i \in DOMAIN file : file[i].seq <= i
  /\ \A i \in DOMAIN feed :
       /\ feed[i].seq <= Len(file)
       /\ cache # None => feed[i].seq <= cache.high
       /\ append # None => feed[i].seq <= append.high
  /\ cache # None => cache.high + (IF open THEN 1 ELSE 0) <= Len(file)
  /\ append # None => append.high + (IF Glued THEN 1 ELSE append.landed) <= Len(file)

\* What landed is there, on a line of its own or glued to an unfinished one; an
\* unfinished line was never told, so that gluing to it loses nothing told.
LandedIsThere ==
  /\ append # None =>
       /\ append.landed > 0 => ~open
       /\ \A m \in 1 .. append.landed :
            Line(Batch[m], append.high + m) \in Range(file) \/ Batch[m] \in cut
  /\ open => file # <<>> /\ \A k \in DOMAIN feed : feed[k] # file[Len(file)]

JournalInv ==
  /\ WaitingInOrder /\ NumbersFit /\ LandedIsThere
  /\ Promise!Ordered(feed) /\ JournalHoldsTheFeed

\* The lines that have their line break.
Finished == 1 .. Len(file) - (IF open THEN 1 ELSE 0)
\* The mark of a failed append: an event glued to what it left, or two lines
\* under one number.
Scarred ==
  \/ cut # {}
  \/ \E i, j \in Finished : i < j /\ file[i] # Unreadable /\ file[i].seq = file[j].seq

\* A follower that began at the start has printed every event told up to its
\* cursor, page by page and once each, although it reads while lines are being
\* written, as long as a failed append has left no line whose number was used
\* again.
FollowerMissesNothing ==
  \/ ~client.all \/ Scarred
  \/ /\ \A i \in DOMAIN feed :
          feed[i].seq <= client.cursor => feed[i].ev \in Range(got)
     /\ \A i, j \in DOMAIN got : i < j => got[i] < got[j]

\* The inductive invariant behind FollowerMissesNothing.  A line is unreadable or
\* has an event and a number; an append of a process that knows its journal goes
\* on from what it knows, and one that read the file knows its last line.
LinesFit ==
  /\ \A i \in DOMAIN file : file[i] = Unreadable \/ (file[i].ev >= 1 /\ file[i].seq >= 1)
  /\ append # None =>
       IF cache # None THEN append.high = cache.high /\ ~append.newline
       ELSE append.landed = 0 => append.newline = open

\* The next line can only mark the journal: its number is taken, or it is glued
\* to the last one.
Doomed(n) == (open /\ cache # None) \/ \E i \in Finished : file[i].seq = n

\* Until then the numbers grow, and the next one is greater than all.
NumbersGrow ==
  /\ \A i, j \in Finished :
       i < j /\ Unreadable \notin {file[i], file[j]} => file[i].seq < file[j].seq
  /\ open /\ file[Len(file)] # Unreadable =>
       \/ \A i \in Finished : file[i].seq < file[Len(file)].seq
       \/ \E i \in Finished : file[i].seq = file[Len(file)].seq
  /\ append # None =>
       \/ \A i \in DOMAIN file : file[i].seq <= append.high + append.landed
       \/ append.landed = 0 /\ Doomed(append.high + 1)
  /\ cache # None /\ append = None =>
       \/ \A i \in DOMAIN file : file[i].seq <= cache.high
       \/ Doomed(cache.high + 1)

\* The follower has printed what was told or landed up to its cursor,
PrintsAll ==
  /\ \A i \in DOMAIN feed : feed[i].seq <= client.cursor => feed[i].ev \in Range(got)
  /\ append # None =>
       \A m \in 1 .. append.landed :
         append.high + m <= client.cursor => Batch[m] \in Range(got)

\* which is the number of a line,
CursorIsThere ==
  \/ client.cursor = 0
  \/ \E i \in DOMAIN file : file[i].seq = client.cursor
  \/ open /\ cache # None

\* what is beyond it is newer than all that was printed,
PrintsInOrder ==
  /\ \A i, j \in DOMAIN got : i < j => got[i] < got[j]
  /\ \A i \in DOMAIN got :
       /\ \A k \in DOMAIN file : file[k].seq > client.cursor => got[i] < file[k].ev
       /\ \A k \in DOMAIN Slots : \A m \in DOMAIN Slots[k] :
            Landed(k, m) \/ got[i] < Slots[k][m]

\* and a call in progress has heard the end of the feed, while it waits all that
\* is beyond the cursor.
HearsTheEnd ==
  client.at \in {"asked", "waiting"} =>
    /\ Len(live) <= Len(feed)
    /\ \A i \in DOMAIN live : live[i] = feed[Len(feed) - Len(live) + i]
    /\ client.at = "waiting" =>
         \A i \in DOMAIN feed : feed[i].seq > client.cursor => i > Len(feed) - Len(live)

FollowerKnows == PrintsAll /\ CursorIsThere /\ PrintsInOrder /\ HearsTheEnd

FollowerInv ==
  /\ LinesFit
  /\ Scarred \/ (NumbersGrow /\ (client.all => FollowerKnows))

\* Every event is written or given up: no failed append holds up the journal,
\* and nothing is forgotten in the buffer.
EveryEventSettles ==
  \A e \in 1 .. MaxEvents : (e \in Waiting) ~> (e \notin Waiting)

\* Who follows from the start comes to print all that is told, until the run
\* settles or a failed append leaves its mark.
FromTheStart == client.all /\ client.at \in {"idle", "asked", "waiting"}
FollowerCatchesUp ==
  \A e \in 1 .. MaxEvents :
    (e \in Told /\ FromTheStart) ~> (e \in Range(got) \/ ~FromTheStart \/ Scarred)
=============================================================================
