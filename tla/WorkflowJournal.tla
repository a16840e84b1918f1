--------------------------- MODULE WorkflowJournal ---------------------------
(***************************************************************************)
(* The record of a workflow run on disk                                    *)
(* (src/main/orchestration/workflow-journal.ts): one file per generation,  *)
(* that is per start or resume, with every agent call the script issued    *)
(* and every answer it got, in order.  A resume replays the newest file    *)
(* that is a complete record.                                              *)
(*                                                                         *)
(* A call is known by its key (a hash of what it asks, and which of the    *)
(* equal ones it is) and by its number in the generation, from 1 on.       *)
(* Usage is one number.  The status of an answer is reduced to what the    *)
(* replay and the script tell apart: "ok" (a value, or null for a failed   *)
(* or skipped agent), "error" (thrown into the script) and "cut" (null, by *)
(* a ceiling).                                                             *)
(***************************************************************************)
EXTENDS Integers, Sequences, SequencesExt, Selections

CONSTANTS Keys, Values, Null

Start(version)             == [t |-> "start", version |-> version]
Issue(seq, key)            == [t |-> "issue", seq |-> seq, key |-> key]
Done(seq, how, value, use) == [t |-> "done", seq |-> seq, how |-> how, value |-> value, usage |-> use]
Abandoned(use)             == [t |-> "abandoned", usage |-> use]
Live                       == [t |-> "live"]
End                        == [t |-> "end"]
Torn                       == [t |-> "torn"]   \* a line the crash cut short

Marks == {Live, End, Torn}
Entry ==
  Marks
    \cup [t : {"start"}, version : Nat]
    \cup [t : {"issue"}, seq : Nat \ {0}, key : Keys]
    \cup [t : {"done"}, seq : Nat \ {0}, how : {"ok", "error", "cut"},
          value : Values \cup {Null}, usage : Nat]
    \cup [t : {"abandoned"}, usage : Nat \ {0}]

Has(file, t) == \E i \in DOMAIN file : file[i].t = t
Entries(file, kinds) == Selected(file, {i \in DOMAIN file : file[i].t \in kinds})

\* parseJournal: nothing after a bad line is trusted.
Parsed(file) ==
  IF Has(file, "torn")
  THEN SubSeq(file, 1, (CHOOSE i \in DOMAIN file :
                          /\ file[i].t = "torn"
                          /\ \A j \in 1 .. i - 1 : file[j].t # "torn") - 1)
  ELSE file

\* Answers that depend on limits are asked again.
RerunsOnResume(done) == done.how \in {"error", "cut"}

\* Mutant: an older generation than the newest complete one is replayed.
MutantHadReplay(i) == FALSE

\* latestReplaySource: the newest generation whose replay came to its end.
HadReplay(i) == i > 1
LatestReplaySource(files) ==
  LET complete == {i \in DOMAIN files :
                     LET entries == Parsed(files[i])
                     IN Has(entries, "start") /\ (HadReplay(i) => Has(entries, "live"))}
  IN IF complete = {} THEN <<>>
     ELSE Parsed(files[CHOOSE i \in complete : \A j \in complete : j <= i])

\* What a record says was spent.
Spent(entries) ==
  LET costs == Entries(entries, {"done", "abandoned"})
      sum[n \in 0 .. Len(costs)] == IF n = 0 THEN 0 ELSE sum[n - 1] + costs[n].usage
  IN sum[Len(costs)]

\* The entries the replayer walks, and those of one call.
Stream(entries) == Entries(entries, {"issue", "done"})
DonesOf(stream, seq) == {i \in DOMAIN stream : stream[i].t = "done" /\ stream[i].seq = seq}
===============================================================================
