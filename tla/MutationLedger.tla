--------------------------- MODULE MutationLedger ---------------------------
(***************************************************************************)
(* The durable idempotency ledger of remote access                         *)
(* (src/main/remote-access/mutation-ledger.ts).                            *)
(*                                                                         *)
(* A paired phone names every mutation with a key (caller namespace and    *)
(* request id).  The ledger writes a pending receipt before the operation  *)
(* starts, a completed receipt before its result is returned, and records  *)
(* outcome_unknown whenever it cannot tell.  Receipts live in a map and in *)
(* one JSON file that is replaced atomically; all writes go through one    *)
(* promise chain.  The process may crash at any point.                     *)
(*                                                                         *)
(* JavaScript runs one macrotask at a time, so an action is a stretch of   *)
(* code between two awaits.  The continuation of a settled write runs      *)
(* before the next queued write takes its snapshot (it is one microtask    *)
(* earlier), so it belongs to the action that ends the write.              *)
(***************************************************************************)
EXTENDS Integers, FiniteSets, Sequences

CONSTANTS
  Keys,         \* (callerNamespace, requestId) pairs
  Requests,     \* requestSha256 values: what is asked under a key
  Recoverable,  \* the requests sent through executeRecoverable
  None,         \* not a request
  MaxCompleted, \* maxCompletedEntries
  Retention,    \* completedRetentionMs
  Clock         \* the readings of the wall clock, which may jump both ways

ASSUME LedgerAssumption ==
  /\ Recoverable \subseteq Requests
  /\ None \notin Requests
  /\ MaxCompleted \in Nat \ {0}
  /\ Retention \in Nat
  /\ Clock \subseteq Nat
  /\ Clock # {}
  /\ IsFiniteSet(Keys)

VARIABLES
  ledger,    \* "closed", "open" or "broken" (open() rejected, and stays cached)
  clock,     \* what now() returns
  records,   \* the in-memory receipts
  file,      \* the receipts in mutation-ledger.json
  stage,     \* where executeOnce(key) is suspended, "idle" when not in flight
  asked,     \* the request of the in-flight call
  writes,    \* persist() calls chained on writeTail, by the key that made them
  writing,   \* a write is in progress
  snapshot,  \* its payload, the receipts when it began
  ran,       \* history: the request whose operation last ran under the key
  pruned,    \* history: its receipt was pruned and no newer one is durable
  told       \* history: the last answer and its key

callVars == <<stage, asked>>
diskVars == <<file, writing, snapshot>>
history == <<ran, pruned>>
vars == <<ledger, clock, records, writes, callVars, diskVars, history, told>>

Statuses == {"pending", "completed", "outcome_unknown"}
NoReceipt == [status |-> "none", sha |-> None, at |-> 0]
NoReceipts == [k \in Keys |-> NoReceipt]
Receipt(s, status, at) == [status |-> status, sha |-> s, at |-> at]

Has(recs, k) == recs[k].status # "none"
Completed(recs) == {k \in Keys : recs[k].status = "completed"}

\* Mutant: one completed receipt above the bound survives.
MutantEvictions(recs, protected) ==
  LET excess == Cardinality(Completed(recs)) - MaxCompleted - 1
  IN  {S \in SUBSET (Completed(recs) \ protected) :
         Cardinality(S) = IF excess > 0 THEN excess ELSE 0}

(***************************************************************************)
(* pruneCompleted: completed receipts past the retention go, then the      *)
(* oldest ones above the bound; the protected key is never a candidate.    *)
(* Ties of completedAt (broken by createdAt and key in the code) are left  *)
(* open, so the result is a set of possible evictions.                     *)
(***************************************************************************)
Evictions(recs, protected) ==
  LET expired  == {k \in Completed(recs) \ protected :
                     recs[k].at < clock - Retention}
      retained == Completed(recs) \ expired
      excess   == Cardinality(retained) - MaxCompleted
  IN  {expired \union oldest : oldest \in
        {S \in SUBSET (retained \ protected) :
           /\ Cardinality(S) = IF excess > 0 THEN excess ELSE 0
           /\ \A k \in S, j \in (retained \ protected) \ S :
                recs[k].at <= recs[j].at}}

Without(recs, keys) == [k \in Keys |-> IF k \in keys THEN NoReceipt ELSE recs[k]]
Answer(k, a) == [key |-> k, answer |-> a]

-----------------------------------------------------------------------------
Init ==
  /\ ledger = "open"
  /\ clock \in Clock
  /\ records = NoReceipts
  /\ file = NoReceipts
  /\ stage = [k \in Keys |-> "idle"]
  /\ asked = [k \in Keys |-> None]
  /\ writes = <<>>
  /\ writing = FALSE
  /\ snapshot = NoReceipts
  /\ ran = [k \in Keys |-> None]
  /\ pruned = [k \in Keys |-> FALSE]
  /\ told = Answer(None, "nothing")

(* The in-flight call under k is answered and leaves the inFlight map. *)
Settle(k, answer) ==
  /\ stage' = [stage EXCEPT ![k] = "idle"]
  /\ asked' = [asked EXCEPT ![k] = None]
  /\ told' = Answer(k, answer)

(* persist(): chain one write of whatever the map holds when its turn comes. *)
Persist(k) == writes' = Append(writes, k)

(* operation() is called: from here on its effect may have happened. *)
StartOperation(k, s) ==
  /\ stage' = [stage EXCEPT ![k] = "running"]
  /\ ran' = [ran EXCEPT ![k] = s]

(***************************************************************************)
(* executeWithPolicy and the synchronous start of executeOnce.             *)
(***************************************************************************)
\* A different request in flight is a conflict.  An identical one shares the
\* promise: nothing starts, and it will hear the same answer.
ExecuteJoins(k, s) ==
  /\ ledger = "open"
  /\ stage[k] # "idle"
  /\ \/ asked[k] = s /\ UNCHANGED told
     \/ asked[k] # s /\ told' = Answer(k, "conflict")
  /\ UNCHANGED <<ledger, clock, records, writes, callVars, diskVars, history>>

\* A receipt answers: conflict, the stored result, or outcome unknown.
ExecuteAnsweredByReceipt(k, s) ==
  /\ ledger = "open"
  /\ stage[k] = "idle"
  /\ Has(records, k)
  /\ \/ /\ records[k].sha # s
        /\ told' = Answer(k, "conflict")
     \/ /\ records[k].sha = s
        /\ records[k].status = "completed"
        /\ told' = Answer(k, "result")
     \/ /\ records[k].sha = s
        /\ records[k].status # "completed"
        /\ s \notin Recoverable
        /\ told' = Answer(k, "unknown")
  /\ UNCHANGED <<ledger, clock, records, writes, callVars, diskVars, history>>

\* Mutant: the resumed request is not compared with the receipt.
MutantExecuteResumes(k, s) ==
  /\ ledger = "open"
  /\ stage[k] = "idle"
  /\ Has(records, k)
  /\ records[k].status # "completed"
  /\ s \in Recoverable
  /\ asked' = [asked EXCEPT ![k] = s]
  /\ StartOperation(k, s)
  /\ UNCHANGED <<ledger, clock, records, writes, diskVars, pruned, told>>

\* A recoverable operation whose outcome is unknown runs again, no new receipt.
ExecuteResumes(k, s) ==
  /\ ledger = "open"
  /\ stage[k] = "idle"
  /\ Has(records, k)
  /\ records[k].sha = s
  /\ records[k].status # "completed"
  /\ s \in Recoverable
  /\ asked' = [asked EXCEPT ![k] = s]
  /\ StartOperation(k, s)
  /\ pruned' = [pruned EXCEPT ![k] = @ /\ file[k].sha # s]
  /\ UNCHANGED <<ledger, clock, records, writes, diskVars, told>>

\* No receipt: write the pending one ahead of the operation.
ExecuteFirst(k, s) ==
  /\ ledger = "open"
  /\ stage[k] = "idle"
  /\ ~Has(records, k)
  /\ records' = [records EXCEPT ![k] = Receipt(s, "pending", 0)]
  /\ stage' = [stage EXCEPT ![k] = "write-ahead"]
  /\ asked' = [asked EXCEPT ![k] = s]
  /\ Persist(k)
  /\ UNCHANGED <<ledger, clock, diskVars, ran, pruned, told>>

(***************************************************************************)
(* The operation ends.                                                     *)
(***************************************************************************)
\* It returned a JSON value: completed receipt, prune, persist.
OperationReturns(k) ==
  /\ stage[k] = "running"
  /\ LET done == [records EXCEPT ![k] = Receipt(asked[k], "completed", clock)]
     IN  \E evicted \in Evictions(done, {k}) :
           /\ records' = Without(done, evicted)
           /\ pruned' = [j \in Keys |-> j \in evicted \/ pruned[j]]
  /\ stage' = [stage EXCEPT ![k] = "commit"]
  /\ Persist(k)
  /\ UNCHANGED <<ledger, clock, asked, diskVars, ran, told>>

\* Mutant: an operation that threw is taken not to have happened.
MutantOperationThrows(k) ==
  /\ stage[k] = "running"
  /\ records' = [records EXCEPT ![k] = NoReceipt]
  /\ stage' = [stage EXCEPT ![k] = "write-ahead-failed"]
  /\ Persist(k)
  /\ UNCHANGED <<ledger, clock, asked, diskVars, history, told>>

\* It threw, or its result cannot be serialised: transitionToOutcomeUnknown.
OperationThrows(k) ==
  /\ stage[k] = "running"
  /\ records' = [records EXCEPT ![k] = Receipt(records[k].sha, "outcome_unknown", 0)]
  /\ stage' = [stage EXCEPT ![k] = "doubt"]
  /\ Persist(k)
  /\ UNCHANGED <<ledger, clock, asked, diskVars, history, told>>

(***************************************************************************)
(* writeJsonAtomic, one write at a time, in call order.                    *)
(***************************************************************************)
BeginWrite ==
  /\ ledger = "open"
  /\ writes # <<>>
  /\ ~writing
  /\ writing' = TRUE
  /\ snapshot' = records
  /\ UNCHANGED <<ledger, clock, records, writes, callVars, file, history, told>>

\* The file now holds the snapshot.
Renamed == file' = snapshot
NotRenamed == UNCHANGED file

\* The pending receipt is on disk: the operation starts.
WriteAheadDone(k) ==
  /\ stage[k] = "write-ahead"
  /\ StartOperation(k, asked[k])
  /\ pruned' = [pruned EXCEPT ![k] = FALSE]
  /\ writes' = Tail(writes)
  /\ UNCHANGED <<records, asked, told>>

\* Mutant: the operation starts although its pending receipt was not written.
MutantWriteAheadFails(k) ==
  /\ stage[k] = "write-ahead"
  /\ StartOperation(k, asked[k])
  /\ writes' = Tail(writes)
  /\ UNCHANGED <<records, asked, told, pruned>>

\* The operation will not run: the speculative receipt goes, and a second
\* write cleans the file of it.
WriteAheadFails(k) ==
  /\ stage[k] = "write-ahead"
  /\ records' = [records EXCEPT ![k] = NoReceipt]
  /\ stage' = [stage EXCEPT ![k] = "write-ahead-failed"]
  /\ writes' = Append(Tail(writes), k)
  /\ UNCHANGED <<asked, told, ran, pruned>>

CommitDone(k) ==
  /\ stage[k] = "commit"
  /\ Settle(k, "result")
  /\ writes' = Tail(writes)
  /\ UNCHANGED <<records, ran, pruned>>

\* The effect may have happened: unknown, and a second write says so.
CommitFails(k) ==
  /\ stage[k] = "commit"
  /\ records' = [records EXCEPT ![k] = Receipt(asked[k], "outcome_unknown", 0)]
  /\ stage' = [stage EXCEPT ![k] = "commit-failed"]
  /\ writes' = Append(Tail(writes), k)
  /\ UNCHANGED <<asked, told, ran, pruned>>

\* The last write of a failing call: its own outcome changes nothing more.
CleanupEnds(k) ==
  /\ \/ stage[k] \in {"doubt", "commit-failed"} /\ Settle(k, "unknown")
     \/ stage[k] = "write-ahead-failed" /\ Settle(k, "not run")
  /\ writes' = Tail(writes)
  /\ UNCHANGED <<records, ran, pruned>>

\* Mutant: the turn of a write may end without it, as behind a failed one on a
\* chain that is not caught.
MutantEndWrite ==
  /\ ledger = "open"
  /\ writes # <<>>
  /\ LET k == Head(writes)
     IN  \/ writing /\ Renamed /\ (WriteAheadDone(k) \/ CommitDone(k) \/ CleanupEnds(k))
         \/ /\ (writing /\ Renamed) \/ NotRenamed
            /\ WriteAheadFails(k) \/ CommitFails(k) \/ CleanupEnds(k)
  /\ writing' = FALSE
  /\ snapshot' = NoReceipts
  /\ UNCHANGED <<ledger, clock>>

\* A write may fail after its rename (the directory sync) or before it.
EndWrite ==
  /\ ledger = "open"
  /\ writing
  /\ LET k == Head(writes)
     IN  \/ Renamed /\ (WriteAheadDone(k) \/ CommitDone(k) \/ CleanupEnds(k))
         \/ /\ Renamed \/ NotRenamed
            /\ WriteAheadFails(k) \/ CommitFails(k) \/ CleanupEnds(k)
  /\ writing' = FALSE
  /\ snapshot' = NoReceipts
  /\ UNCHANGED <<ledger, clock>>

(***************************************************************************)
(* Crash and reopen.                                                       *)
(***************************************************************************)
\* The process dies: the map, the promises and the write chain are gone.  A
\* write in progress has replaced the file or not.
Crash ==
  /\ ledger # "closed"
  /\ ledger' = "closed"
  /\ (writing /\ Renamed) \/ NotRenamed
  /\ records' = NoReceipts
  /\ stage' = [k \in Keys |-> "idle"]
  /\ asked' = [k \in Keys |-> None]
  /\ writes' = <<>>
  /\ writing' = FALSE
  /\ snapshot' = NoReceipts
  /\ UNCHANGED <<clock, ran, pruned, told>>

\* Mutant: receipts found pending are dropped.
MutantPromoted(recs) ==
  [k \in Keys |-> IF recs[k].status = "pending" THEN NoReceipt ELSE recs[k]]

\* load(): pending becomes outcome_unknown, prune, persist when it changed.
Promoted(recs) ==
  [k \in Keys |-> IF recs[k].status = "pending"
                    THEN Receipt(recs[k].sha, "outcome_unknown", 0) ELSE recs[k]]

Open ==
  /\ ledger = "closed"
  /\ \E evicted \in Evictions(Promoted(file), {}) :
       LET loaded == Without(Promoted(file), evicted)
       IN  \/ /\ ledger' = "open"
              /\ records' = loaded
              /\ file' = loaded
              /\ pruned' = [k \in Keys |->
                   k \in evicted \/ (pruned[k] /\ loaded[k].sha # ran[k])]
           \/ /\ loaded # file            \* the persist failed: open() rejects
              /\ ledger' = "broken"
              /\ file' \in {file, loaded}
              /\ pruned' = [k \in Keys |->
                   pruned[k] \/ (k \in evicted /\ file' = loaded)]
              /\ UNCHANGED records
  /\ UNCHANGED <<clock, callVars, writes, writing, snapshot, ran, told>>

SetClock ==
  /\ clock' \in Clock
  /\ clock' # clock
  /\ UNCHANGED <<ledger, records, writes, callVars, diskVars, history, told>>

Execute(k, s) ==
  \/ ExecuteJoins(k, s)
  \/ ExecuteAnsweredByReceipt(k, s)
  \/ ExecuteResumes(k, s)
  \/ ExecuteFirst(k, s)

Operation(k) == OperationReturns(k) \/ OperationThrows(k)

Next ==
  \/ \E k \in Keys, s \in Requests : Execute(k, s)
  \/ \E k \in Keys : Operation(k)
  \/ BeginWrite
  \/ EndWrite
  \/ Crash
  \/ Open
  \/ SetClock

Spec == Init /\ [][Next]_vars

-----------------------------------------------------------------------------
(* Types of the ledger's state (MutationLedgerRecord and the class fields). *)
Receipts ==
  {NoReceipt} \union [status : Statuses, sha : Requests \union {None}, at : Nat]
Answers == [key : Keys \union {None},
            answer : {"nothing", "conflict", "result", "unknown", "not run"}]
Stages == {"idle", "write-ahead", "write-ahead-failed", "running", "commit",
           "commit-failed", "doubt"}
TypeOK ==
  /\ ledger \in {"closed", "open", "broken"}
  /\ clock \in Clock
  /\ records \in [Keys -> Receipts]
  /\ file \in [Keys -> Receipts]
  /\ stage \in [Keys -> Stages]
  /\ asked \in [Keys -> Requests \union {None}]
  /\ writes \in Seq(Keys)
  /\ writing \in BOOLEAN
  /\ snapshot \in [Keys -> Receipts]
  /\ ran \in [Keys -> Requests \union {None}]
  /\ pruned \in [Keys -> BOOLEAN]
  /\ told \in Answers

Starts(k) == stage[k] # "running" /\ stage'[k] = "running"
Hears(k, answer) == /\ stage[k] # "idle" /\ stage'[k] = "idle"
                    /\ ledger' = "open" /\ told' = Answer(k, answer)

(* "Execute a mutation at most once for (callerNamespace, requestId)": while *)
(* the receipt has not been pruned an operation never starts a second time,  *)
(* across retries, failed writes, crashes and reopenings, unless it was sent *)
(* as recoverable.                                                           *)
AtMostOnce ==
  [][\A k \in Keys : Starts(k) => ran[k] = None \/ pruned[k]
                                   \/ (ran[k] \in Recoverable /\ ran'[k] = ran[k])]_vars

(* The write-ahead boundary: while a fail-closed operation runs, the file    *)
(* holds a receipt for it, so a crash cannot make the ledger forget it.      *)
WriteAhead ==
  \A k \in Keys : stage[k] = "running" /\ asked[k] \notin Recoverable =>
    file[k].status \in {"pending", "outcome_unknown"} /\ file[k].sha = asked[k]

(* A caller told that the mutation failed without running (the write-ahead   *)
(* failed) may retry: its operation has indeed not run.                      *)
NotRunIsTrue ==
  [][\A k \in Keys : Hears(k, "not run") =>
       ran[k] = None \/ pruned[k] \/ ran[k] \in Recoverable]_vars

(* transitionToOutcomeUnknown throws "pending record disappeared" when the   *)
(* map lost the receipt of a running operation: no pruning or failed write   *)
(* of another key takes it away, and it still names the same request.        *)
RunningHasReceipt ==
  \A k \in Keys : stage[k] = "running" =>
    records[k].status \in {"pending", "outcome_unknown"} /\ records[k].sha = asked[k]

(* The completed receipts in memory never exceed maxCompletedEntries.        *)
BoundedReceipts == Cardinality(Completed(records)) <= MaxCompleted

(* Each caller of persist hears of its own write: a call that waits for its  *)
(* receipt goes on only when a write ends whose payload carried it (or it    *)
(* was pruned since), and goes on as done only when that write replaced the  *)
(* file.  A failed write does not fail those chained behind it, and none is  *)
(* answered for by a payload taken before its receipt was set.               *)
Carried(k) == snapshot[k] = records[k] \/ (stage[k] = "commit" /\ pruned[k])
HearsOfItsOwnWrite ==
  [][\A k \in Keys :
       stage[k] \in {"write-ahead", "commit"} /\ stage'[k] # stage[k] /\ ledger' = "open" =>
         /\ writing /\ Carried(k)
         /\ stage'[k] \in {"running", "idle"} => file' = snapshot]_vars

(* The inductive invariant behind AtMostOnce, WriteAhead and NotRunIsTrue.   *)
Held(k) == ran[k] # None /\ ~pruned[k]      \* its receipt must still exist

Quiet == \* only an open ledger has calls and writes under way
  /\ ledger # "open" => writes = <<>> /\ ~writing /\ \A k \in Keys : stage[k] = "idle"
  /\ writing => writes # <<>>

QueueMatchesCalls == \* a write is queued once, for a call that waits for it
  /\ \A i \in 1..Len(writes) : stage[writes[i]] \notin {"idle", "running"}
  /\ \A i, j \in 1..Len(writes) : writes[i] = writes[j] => i = j

ReceiptOfCall(k) == \* what the map holds for a call in flight
  /\ stage[k] = "write-ahead" =>
       records[k].status = "pending" /\ records[k].sha = asked[k]
  /\ stage[k] = "running" =>
       records[k].status \in {"pending", "outcome_unknown"} /\ records[k].sha = asked[k]
  /\ stage[k] \in {"running", "commit", "commit-failed", "doubt"} => ran[k] = asked[k]
  /\ stage[k] \in {"write-ahead", "write-ahead-failed"} => ~Held(k)
  /\ stage[k] # "idle" => asked[k] # None

ReceiptIsKept(k) == \* a receipt that must exist does, in the map and in the file
  /\ Held(k) /\ ledger = "open" => Has(records, k) /\ records[k].sha = ran[k]
  /\ Held(k) /\ ledger # "open" => Has(file, k) /\ file[k].sha = ran[k]
  /\ Has(records, k) /\ ledger = "open" /\ stage[k] # "write-ahead" /\ ~pruned[k] =>
       Has(file, k) /\ file[k].sha = records[k].sha

SnapshotIsCurrent(k) == \* a write under way carries every receipt it must
  writing =>
    /\ Has(records, k) /\ stage[k] # "write-ahead" =>
         Has(snapshot, k) /\ snapshot[k].sha = records[k].sha
    /\ stage[k] = "write-ahead" /\ Head(writes) = k => snapshot[k] = records[k]
    /\ stage[k] = "running" /\ asked[k] \notin Recoverable =>
         snapshot[k].status \in {"pending", "outcome_unknown"}

ReceiptsAgree ==
  /\ Quiet
  /\ QueueMatchesCalls
  /\ \A k \in Keys : ReceiptOfCall(k) /\ ReceiptIsKept(k) /\ SnapshotIsCurrent(k)
  /\ WriteAhead

(* What HearsOfItsOwnWrite needs besides. *)
HeadIsCarried ==
  \A k \in Keys :
    writing /\ Head(writes) = k /\ stage[k] \in {"write-ahead", "commit"} => Carried(k)

(* What ImplementsOnceOnly needs besides: a completed receipt, wherever it   *)
(* is, comes from an operation that ran; a call whose result is being        *)
(* committed has its completed receipt or lost it to pruning; and only an    *)
(* operation that is being repeated can run with its receipt pruned.         *)
OutcomesAreReal ==
  \A k \in Keys :
    /\ ran[k] = None => \A recs \in {records, file, snapshot} : recs[k].status # "completed"
    /\ stage[k] = "commit" => records[k].status = "completed" \/ pruned[k]
    /\ stage[k] = "running" /\ pruned[k] => ran[k] \in Recoverable

(* The phase of a key as a caller can rely on it: what the map says while    *)
(* the ledger is open, what the file says when it is not.                    *)
PhaseOf(k) ==
  LET recs == IF ledger = "open" THEN records ELSE file
  IN  IF ran[k] = None THEN "fresh"
      ELSE IF stage[k] = "running" THEN "running"
      ELSE IF pruned[k] THEN "forgotten"
      ELSE IF recs[k].status = "completed" THEN "done" ELSE "doubt"

(* The ledger implements OnceOnly: receipts, write-ahead and reopening give  *)
(* callers exactly that promise.                                             *)
phases == [k \in Keys |-> PhaseOf(k)]
Promise == INSTANCE OnceOnly WITH phase <- phases
ImplementsOnceOnly == Promise!Spec
=============================================================================
