------------------------ MODULE MutationLedgerProofs ------------------------
(***************************************************************************)
(* Proofs about MutationLedger for every set of keys and requests, every   *)
(* bound and every set of clock readings.                                  *)
(***************************************************************************)
EXTENDS MutationLedger, FiniteSetTheorems, TLAPS

(* A receipt built from a request, a status and a time has its type.        *)
LEMMA ReceiptType ==
  /\ NoReceipt \in Receipts
  /\ \A s \in Requests \union {None}, status \in Statuses, at \in Nat :
       Receipt(s, status, at) \in Receipts
BY DEF NoReceipt, Receipt, Receipts, Statuses

(* So has an answer.                                                        *)
LEMMA AnswerType ==
  \A k \in Keys \union {None} :
    \A a \in {"nothing", "conflict", "result", "unknown", "not run"} :
      Answer(k, a) \in Answers
BY DEF Answer, Answers

(* Removing receipts leaves a map of receipts.                              *)
LEMMA WithoutType ==
  ASSUME NEW recs \in [Keys -> Receipts], NEW keys
  PROVE  Without(recs, keys) \in [Keys -> Receipts]
BY ReceiptType DEF Without

(* Promotion on load leaves a map of receipts.                              *)
LEMMA PromotedType ==
  ASSUME NEW recs \in [Keys -> Receipts]
  PROVE  Promoted(recs) \in [Keys -> Receipts]
<1>. \A k \in Keys : recs[k].sha \in Requests \union {None}
  BY DEF Receipts, NoReceipt
<1>. \A k \in Keys : Receipt(recs[k].sha, "outcome_unknown", 0) \in Receipts
  BY ReceiptType DEF Statuses
<1>. QED
  BY DEF Promoted

(* Every variable keeps its type: receipts stay well formed through every   *)
(* write, prune, crash and reopening.                                       *)
LEMMA InitTypeOK == Init => TypeOK
<1>. SUFFICES ASSUME Init PROVE TypeOK
  OBVIOUS
<1>1. NoReceipts \in [Keys -> Receipts]
  BY ReceiptType DEF NoReceipts
<1>2. told \in Answers
  BY AnswerType DEF Init
<1>3. writes \in Seq(Keys)
  BY DEF Init
<1>. QED
  BY <1>1, <1>2, <1>3 DEF Init, TypeOK, Stages

\* Each operation of the ledger keeps the types: a call that joins another,
LEMMA JoinsTypeOK ==
  ASSUME TypeOK, NEW k \in Keys, NEW s \in Requests, ExecuteJoins(k, s)
  PROVE  TypeOK'
<1>1. Answer(k, "conflict") \in Answers
  BY AnswerType
<1>2. told' \in Answers
  BY <1>1 DEF ExecuteJoins, TypeOK
<1>. QED
  BY <1>2 DEF ExecuteJoins, TypeOK, callVars, diskVars, history

\* one that is answered by a receipt,
LEMMA AnsweredTypeOK ==
  ASSUME TypeOK, NEW k \in Keys, NEW s \in Requests, ExecuteAnsweredByReceipt(k, s)
  PROVE  TypeOK'
<1>1. \A a \in {"conflict", "result", "unknown"} : Answer(k, a) \in Answers
  BY AnswerType
<1>2. told' \in Answers
  BY <1>1 DEF ExecuteAnsweredByReceipt
<1>. QED
  BY <1>2 DEF ExecuteAnsweredByReceipt, TypeOK, callVars, diskVars, history

\* one that takes up an operation again,
LEMMA ResumesTypeOK ==
  ASSUME TypeOK, NEW k \in Keys, NEW s \in Requests, ExecuteResumes(k, s)
  PROVE  TypeOK'
<1>1. pruned' \in [Keys -> BOOLEAN]
  BY DEF ExecuteResumes, TypeOK
<1>2. /\ asked' \in [Keys -> Requests \union {None}]
      /\ ran' \in [Keys -> Requests \union {None}]
      /\ stage' \in [Keys -> Stages]
  BY DEF ExecuteResumes, StartOperation, TypeOK, Stages
<1>. QED
  BY <1>1, <1>2 DEF ExecuteResumes, TypeOK, diskVars

\* one that is the first for its key,
LEMMA FirstTypeOK ==
  ASSUME TypeOK, NEW k \in Keys, NEW s \in Requests, ExecuteFirst(k, s)
  PROVE  TypeOK'
<1>1. Receipt(s, "pending", 0) \in Receipts
  BY ReceiptType DEF Statuses
<1>2. writes' \in Seq(Keys)
  BY DEF ExecuteFirst, Persist, TypeOK
<1>. QED
  BY <1>1, <1>2 DEF ExecuteFirst, TypeOK, Stages, diskVars

\* an operation that returns,
LEMMA ReturnsTypeOK ==
  ASSUME TypeOK, NEW k \in Keys, OperationReturns(k)
  PROVE  TypeOK'
<1>1. Receipt(asked[k], "completed", clock) \in Receipts
  BY ReceiptType, LedgerAssumption DEF TypeOK, Statuses
<1>. DEFINE done == [records EXCEPT ![k] = Receipt(asked[k], "completed", clock)]
<1>2. done \in [Keys -> Receipts]
  BY <1>1 DEF TypeOK
<1>3. PICK evicted : /\ records' = Without(done, evicted)
                     /\ pruned' = [j \in Keys |-> j \in evicted \/ pruned[j]]
  BY DEF OperationReturns
<1>. HIDE DEF done
<1>4. records' \in [Keys -> Receipts]
  BY <1>2, <1>3, WithoutType
<1>5. pruned' \in [Keys -> BOOLEAN]
  BY <1>3
<1>6. writes' \in Seq(Keys)
  BY DEF OperationReturns, Persist, TypeOK
<1>7. stage' \in [Keys -> Stages]
  BY DEF OperationReturns, TypeOK, Stages
<1>. QED
  BY <1>4, <1>5, <1>6, <1>7 DEF OperationReturns, TypeOK, diskVars

\* one that throws,
LEMMA ThrowsTypeOK ==
  ASSUME TypeOK, NEW k \in Keys, OperationThrows(k)
  PROVE  TypeOK'
<1>1. records[k].sha \in Requests \union {None}
  BY DEF TypeOK, Receipts, NoReceipt
<1>2. Receipt(records[k].sha, "outcome_unknown", 0) \in Receipts
  BY <1>1, ReceiptType DEF Statuses
<1>3. writes' \in Seq(Keys)
  BY DEF OperationThrows, Persist, TypeOK
<1>. QED
  BY <1>2, <1>3 DEF OperationThrows, TypeOK, Stages, diskVars, history

\* a write that ends,
LEMMA EndWriteTypeOK ==
  ASSUME TypeOK, EndWrite, Quiet
  PROVE  TypeOK'
<1>0. PICK k : k = Head(writes)
  OBVIOUS
<1>1. k \in Keys /\ Tail(writes) \in Seq(Keys) /\ Append(Tail(writes), k) \in Seq(Keys)
  BY <1>0 DEF EndWrite, Quiet, TypeOK
<1>2. file' \in [Keys -> Receipts]
  BY DEF EndWrite, Renamed, NotRenamed, TypeOK
<1>3. NoReceipts \in [Keys -> Receipts] /\ NoReceipt \in Receipts
  BY ReceiptType DEF NoReceipts
<1>4. \A a \in {"result", "unknown", "not run"} : Answer(k, a) \in Answers
  BY <1>1, AnswerType
<1>5. /\ ledger' = ledger /\ clock' = clock
      /\ writing' = FALSE /\ snapshot' = NoReceipts
  BY DEF EndWrite
<1>6. CASE WriteAheadDone(k)
  <2>1. pruned' \in [Keys -> BOOLEAN]
    BY <1>6 DEF WriteAheadDone, TypeOK
  <2>. QED
    BY <1>1, <1>2, <1>3, <1>5, <1>6, <2>1 DEF WriteAheadDone, StartOperation, TypeOK, Stages
<1>7. CASE CommitDone(k)
  BY <1>1, <1>2, <1>3, <1>4, <1>5, <1>7 DEF CommitDone, Settle, TypeOK, Stages
<1>8. CASE CleanupEnds(k)
  <2>1. told' \in Answers
    BY <1>4, <1>8 DEF CleanupEnds, Settle
  <2>2. stage' \in [Keys -> Stages] /\ asked' \in [Keys -> Requests \union {None}]
    BY <1>8 DEF CleanupEnds, Settle, TypeOK, Stages
  <2>. QED
    BY <1>1, <1>2, <1>3, <1>5, <1>8, <2>1, <2>2 DEF CleanupEnds, TypeOK
<1>9. CASE WriteAheadFails(k)
  BY <1>1, <1>2, <1>3, <1>5, <1>9 DEF WriteAheadFails, TypeOK, Stages
<1>10. CASE CommitFails(k)
  <2>1. Receipt(asked[k], "outcome_unknown", 0) \in Receipts
    BY <1>1, ReceiptType DEF TypeOK, Statuses
  <2>. QED
    BY <1>1, <1>2, <1>3, <1>5, <1>10, <2>1 DEF CommitFails, TypeOK, Stages
<1>. QED
  BY <1>0, <1>6, <1>7, <1>8, <1>9, <1>10 DEF EndWrite

\* a crash,
LEMMA CrashTypeOK ==
  ASSUME TypeOK, Crash
  PROVE  TypeOK'
<1>1. NoReceipts \in [Keys -> Receipts]
  BY ReceiptType DEF NoReceipts
<1>2. file' \in [Keys -> Receipts]
  BY DEF Crash, Renamed, NotRenamed, TypeOK
<1>3. writes' \in Seq(Keys)
  BY DEF Crash
<1>. QED
  BY <1>1, <1>2, <1>3 DEF Crash, TypeOK, Stages

\* and opening again.
LEMMA OpenTypeOK ==
  ASSUME TypeOK, Open
  PROVE  TypeOK'
<1>1. PICK evicted : LET loaded == Without(Promoted(file), evicted)
                     IN  \/ records' = loaded /\ file' = loaded /\ ledger' = "open"
                         \/ /\ file' \in {file, loaded} /\ ledger' = "broken"
                            /\ UNCHANGED records
  BY DEF Open
<1>2. Without(Promoted(file), evicted) \in [Keys -> Receipts]
  BY PromotedType, WithoutType DEF TypeOK
<1>3. /\ records' \in [Keys -> Receipts]
      /\ file' \in [Keys -> Receipts]
      /\ ledger' \in {"closed", "open", "broken"}
  BY <1>1, <1>2 DEF TypeOK
<1>4. pruned' \in [Keys -> BOOLEAN]
  BY DEF Open, TypeOK
<1>. QED
  BY <1>3, <1>4 DEF Open, TypeOK, callVars

-----------------------------------------------------------------------------
(* Pruning takes only completed receipts, and never a protected one.        *)
LEMMA EvictionsAreCompleted ==
  ASSUME NEW recs, NEW protected, NEW evicted \in Evictions(recs, protected)
  PROVE  evicted \subseteq Completed(recs) \ protected
BY DEF Evictions

(* Steps that touch neither receipts, calls nor writes.                     *)
LEMMA AgreeUnchanged ==
  ASSUME ReceiptsAgree,
         UNCHANGED <<ledger, records, file, stage, asked, writes, writing,
                     snapshot, ran, pruned>>
  PROVE  ReceiptsAgree'
<1>1. Quiet' /\ QueueMatchesCalls'
  BY DEF ReceiptsAgree, Quiet, QueueMatchesCalls
<1>2. ASSUME NEW k \in Keys
      PROVE  ReceiptOfCall(k)' /\ ReceiptIsKept(k)' /\ SnapshotIsCurrent(k)'
  BY DEF ReceiptsAgree, ReceiptOfCall, ReceiptIsKept, SnapshotIsCurrent, Held, Has
<1>3. WriteAhead'
  BY DEF ReceiptsAgree, WriteAhead
<1>. QED
  BY <1>1, <1>2, <1>3 DEF ReceiptsAgree

\* An empty ledger agrees with an empty file.
LEMMA InitAgree == Init => ReceiptsAgree
<1>. SUFFICES ASSUME Init PROVE ReceiptsAgree
  OBVIOUS
<1>1. Quiet /\ QueueMatchesCalls
  BY DEF Init, Quiet, QueueMatchesCalls
<1>2. ASSUME NEW k \in Keys
      PROVE  ReceiptOfCall(k) /\ ReceiptIsKept(k) /\ SnapshotIsCurrent(k)
  BY DEF Init, ReceiptOfCall, ReceiptIsKept, SnapshotIsCurrent, Held, Has,
         NoReceipts, NoReceipt
<1>3. WriteAhead
  BY DEF Init, WriteAhead
<1>. QED
  BY <1>1, <1>2, <1>3 DEF ReceiptsAgree

\* Taking up an operation again replaces a receipt in doubt by a pending
\* one.
LEMMA ResumesAgree ==
  ASSUME TypeOK, ReceiptsAgree, NEW k \in Keys, NEW s \in Requests, ExecuteResumes(k, s)
  PROVE  ReceiptsAgree'
<1>1. /\ UNCHANGED <<ledger, records, writes, file, writing, snapshot>>
      /\ ledger = "open" /\ stage[k] = "idle" /\ s \in Recoverable
      /\ Has(records, k) /\ records[k].sha = s /\ records[k].status # "completed"
      /\ stage' = [stage EXCEPT ![k] = "running"]
      /\ asked' = [asked EXCEPT ![k] = s]
      /\ ran' = [ran EXCEPT ![k] = s]
      /\ pruned' = [pruned EXCEPT ![k] = @ /\ file[k].sha # s]
  BY DEF ExecuteResumes, StartOperation, diskVars
<1>2. k \notin {writes[i] : i \in 1..Len(writes)}
  BY <1>1 DEF ReceiptsAgree, QueueMatchesCalls
<1>3. Quiet' /\ QueueMatchesCalls'
  BY <1>1, <1>2 DEF ReceiptsAgree, Quiet, QueueMatchesCalls, TypeOK
<1>4. records[k].status \in {"pending", "outcome_unknown"}
  BY <1>1 DEF TypeOK, Receipts, NoReceipt, Statuses, Has
<1>5. ASSUME NEW j \in Keys
      PROVE  ReceiptOfCall(j)' /\ ReceiptIsKept(j)' /\ SnapshotIsCurrent(j)'
  <2>1. ReceiptOfCall(j) /\ ReceiptIsKept(j) /\ SnapshotIsCurrent(j)
    BY DEF ReceiptsAgree
  <2>2. CASE j # k
    BY <1>1, <2>1, <2>2 DEF ReceiptOfCall, ReceiptIsKept, SnapshotIsCurrent, Held, Has, TypeOK
  <2>3. CASE j = k
    <3>1. ReceiptOfCall(k)'
      <4>1. stage'[k] = "running" /\ asked'[k] = s /\ ran'[k] = s /\ s # None
        BY <1>1, LedgerAssumption DEF TypeOK
      <4>. QED
        BY <1>1, <1>4, <4>1 DEF ReceiptOfCall
    <3>2. ReceiptIsKept(k)'
      <4>1. file[k].sha = s => Has(file, k)
        BY LedgerAssumption DEF TypeOK, Receipts, NoReceipt, Statuses, Has
      <4>2. pruned'[k] = (pruned[k] /\ file[k].sha # s) /\ stage'[k] = "running" /\ ran'[k] = s
        BY <1>1 DEF TypeOK
      <4>. QED
        BY <1>1, <2>1, <2>3, <4>1, <4>2 DEF ReceiptIsKept, Held, Has
    <3>3. SnapshotIsCurrent(k)'
      BY <1>1, <2>1, <2>3 DEF SnapshotIsCurrent, Has, TypeOK
    <3>. QED
      BY <2>3, <3>1, <3>2, <3>3
  <2>. QED
    BY <2>2, <2>3
<1>6. WriteAhead'
  BY <1>1 DEF ReceiptsAgree, WriteAhead, TypeOK
<1>. QED
  BY <1>3, <1>5, <1>6 DEF ReceiptsAgree

(* A call that begins to wait for a write queues exactly one.               *)
LEMMA QueueAppends ==
  ASSUME TypeOK, ReceiptsAgree, ledger = "open",
         NEW k \in Keys, stage[k] \in {"idle", "running"},
         NEW waits, waits \notin {"idle", "running"},
         stage' = [stage EXCEPT ![k] = waits], writes' = Append(writes, k),
         UNCHANGED <<ledger, writing>>
  PROVE  /\ Quiet' /\ QueueMatchesCalls'
         /\ writing => writes # <<>> /\ Head(writes') = Head(writes) /\ Head(writes) # k
<1>1. writes \in Seq(Keys) /\ Len(writes) \in Nat
  BY DEF TypeOK
<1>2. /\ Len(writes') = Len(writes) + 1
      /\ \A i \in 1..Len(writes) : writes'[i] = writes[i] /\ writes[i] \in Keys /\ writes[i] # k
      /\ writes'[Len(writes) + 1] = k
  BY <1>1 DEF ReceiptsAgree, QueueMatchesCalls
<1>3. Quiet'
  BY <1>1 DEF ReceiptsAgree, Quiet
<1>4. writing => writes # <<>> /\ Head(writes') = Head(writes) /\ Head(writes) # k
  BY <1>1, <1>2 DEF ReceiptsAgree, Quiet
<1>5. \A i \in 1..Len(writes') : stage'[writes'[i]] \notin {"idle", "running"}
  BY <1>1, <1>2 DEF ReceiptsAgree, QueueMatchesCalls, TypeOK
<1>6. \A i, j \in 1..Len(writes') : writes'[i] = writes'[j] => i = j
  BY <1>1, <1>2 DEF ReceiptsAgree, QueueMatchesCalls
<1>. QED
  BY <1>3, <1>4, <1>5, <1>6 DEF QueueMatchesCalls

\* The first call for a key writes its receipt before it runs.
LEMMA FirstAgree ==
  ASSUME TypeOK, ReceiptsAgree, NEW k \in Keys, NEW s \in Requests, ExecuteFirst(k, s)
  PROVE  ReceiptsAgree'
<1>1. /\ UNCHANGED <<ledger, file, writing, snapshot, ran, pruned>>
      /\ ledger = "open" /\ stage[k] = "idle" /\ ~Has(records, k)
      /\ stage' = [stage EXCEPT ![k] = "write-ahead"]
      /\ asked' = [asked EXCEPT ![k] = s]
      /\ records' = [records EXCEPT ![k] = Receipt(s, "pending", 0)]
      /\ writes' = Append(writes, k)
  BY DEF ExecuteFirst, Persist, diskVars
<1>2. /\ Quiet' /\ QueueMatchesCalls'
      /\ writing => writes # <<>> /\ Head(writes') = Head(writes) /\ Head(writes) # k
  BY <1>1, QueueAppends
<1>3. ASSUME NEW j \in Keys
      PROVE  ReceiptOfCall(j)' /\ ReceiptIsKept(j)' /\ SnapshotIsCurrent(j)'
  <2>1. ReceiptOfCall(j) /\ ReceiptIsKept(j) /\ SnapshotIsCurrent(j)
    BY DEF ReceiptsAgree
  <2>2. CASE j # k
    <3>1. stage'[j] = stage[j] /\ asked'[j] = asked[j] /\ records'[j] = records[j]
      BY <1>1, <2>2 DEF TypeOK
    <3>. QED
      BY <1>1, <1>2, <2>1, <3>1 DEF ReceiptOfCall, ReceiptIsKept, SnapshotIsCurrent, Held, Has
  <2>3. CASE j = k
    <3>1. /\ stage'[k] = "write-ahead" /\ asked'[k] = s /\ s # None
          /\ records'[k].status = "pending" /\ records'[k].sha = s
      BY <1>1, LedgerAssumption DEF TypeOK, Receipt
    <3>2. ~Held(k)
      BY <1>1, <2>1, <2>3 DEF ReceiptIsKept
    <3>. QED
      BY <1>1, <1>2, <2>3, <3>1, <3>2 DEF ReceiptOfCall, ReceiptIsKept, SnapshotIsCurrent, Held, Has
  <2>. QED
    BY <2>2, <2>3
<1>4. WriteAhead'
  BY <1>1 DEF ReceiptsAgree, WriteAhead, TypeOK
<1>. QED
  BY <1>2, <1>3, <1>4 DEF ReceiptsAgree

(* The end of an operation: its receipt is replaced, some are pruned.       *)
LEMMA ReturnsAgree ==
  ASSUME TypeOK, ReceiptsAgree, NEW k \in Keys, OperationReturns(k)
  PROVE  ReceiptsAgree'
<1>. DEFINE done == [records EXCEPT ![k] = Receipt(asked[k], "completed", clock)]
<1>1. PICK evicted \in Evictions(done, {k}) :
        /\ records' = Without(done, evicted)
        /\ pruned' = [j \in Keys |-> j \in evicted \/ pruned[j]]
  BY DEF OperationReturns
<1>2. /\ UNCHANGED <<ledger, file, writing, snapshot, asked, ran>>
      /\ stage[k] = "running"
      /\ stage' = [stage EXCEPT ![k] = "commit"]
      /\ writes' = Append(writes, k)
  BY DEF OperationReturns, Persist, diskVars
<1>3. /\ k \notin evicted /\ \A j \in evicted : j \in Keys /\ records[j].status = "completed"
      /\ done[k] = Receipt(asked[k], "completed", clock)
      /\ \A j \in Keys \ {k} : done[j] = records[j]
  <2>1. evicted \subseteq Completed(done) \ {k}
    BY <1>1, EvictionsAreCompleted
  <2>2. /\ done[k] = Receipt(asked[k], "completed", clock)
        /\ \A j \in Keys \ {k} : done[j] = records[j]
    BY DEF TypeOK
  <2>. HIDE DEF done
  <2>. QED
    BY <2>1, <2>2 DEF Completed
<1>. HIDE DEF done
<1>4. records'[k] = Receipt(asked[k], "completed", clock) /\ pruned'[k] = pruned[k]
  <2>1. records'[k] = done[k]
    BY <1>1, <1>3 DEF Without
  <2>. QED
    BY <1>1, <1>3, <2>1 DEF TypeOK
<1>5. ASSUME NEW j \in Keys, j # k
      PROVE  \/ records'[j] = records[j] /\ pruned'[j] = pruned[j]
             \/ records[j].status = "completed" /\ records'[j] = NoReceipt /\ pruned'[j]
  <2>1. CASE j \in evicted
    BY <1>1, <1>3, <2>1 DEF Without
  <2>2. CASE j \notin evicted
    <3>1. records'[j] = records[j]
      BY <1>1, <1>3, <1>5, <2>2 DEF Without
    <3>2. pruned'[j] = pruned[j]
      BY <1>1, <2>2 DEF TypeOK
    <3>. QED
      BY <3>1, <3>2
  <2>. QED
    BY <2>1, <2>2
<1>6. ledger = "open"
  BY <1>2 DEF ReceiptsAgree, Quiet
<1>7. /\ Quiet' /\ QueueMatchesCalls'
      /\ writing => writes # <<>> /\ Head(writes') = Head(writes) /\ Head(writes) # k
  BY <1>2, <1>6, QueueAppends
<1>8. ASSUME NEW j \in Keys
       PROVE  ReceiptOfCall(j)' /\ ReceiptIsKept(j)' /\ SnapshotIsCurrent(j)'
  <2>1. ReceiptOfCall(j) /\ ReceiptIsKept(j) /\ SnapshotIsCurrent(j)
    BY DEF ReceiptsAgree
  <2>2. CASE j # k
    <3>1. stage'[j] = stage[j]
      BY <1>2, <2>2 DEF TypeOK
    <3>2. CASE records'[j] = records[j] /\ pruned'[j] = pruned[j]
      BY <1>2, <1>6, <1>7, <2>1, <3>1, <3>2
         DEF ReceiptOfCall, ReceiptIsKept, SnapshotIsCurrent, Held, Has
    <3>3. CASE records[j].status = "completed" /\ records'[j] = NoReceipt /\ pruned'[j]
      BY <1>2, <1>6, <1>7, <2>1, <3>1, <3>3
         DEF ReceiptOfCall, ReceiptIsKept, SnapshotIsCurrent, Held, Has, NoReceipt
    <3>. QED
      BY <1>5, <2>2, <3>2, <3>3
  <2>3. CASE j = k
    <3>1. /\ stage'[k] = "commit" /\ asked[k] = ran[k] /\ asked[k] # None
          /\ records'[k].status = "completed" /\ records'[k].sha = asked[k]
          /\ records[k].sha = asked[k] /\ Has(records, k)
      BY <1>2, <1>4, <2>1, <2>3 DEF TypeOK, Receipt, ReceiptOfCall, Has
    <3>. QED
      BY <1>2, <1>4, <1>6, <1>7, <2>1, <2>3, <3>1
         DEF ReceiptOfCall, ReceiptIsKept, SnapshotIsCurrent, Held, Has
  <2>. QED
    BY <2>2, <2>3
<1>9. WriteAhead'
  BY <1>2 DEF ReceiptsAgree, WriteAhead, TypeOK
<1>. QED
  BY <1>7, <1>8, <1>9 DEF ReceiptsAgree

\* An operation that throws leaves a receipt in doubt, or none.
LEMMA ThrowsAgree ==
  ASSUME TypeOK, ReceiptsAgree, NEW k \in Keys, OperationThrows(k)
  PROVE  ReceiptsAgree'
<1>1. /\ UNCHANGED <<ledger, file, writing, snapshot, asked, ran, pruned>>
      /\ stage[k] = "running"
      /\ stage' = [stage EXCEPT ![k] = "doubt"]
      /\ records' = [records EXCEPT ![k] = Receipt(records[k].sha, "outcome_unknown", 0)]
      /\ writes' = Append(writes, k)
  BY DEF OperationThrows, Persist, diskVars, history
<1>2. ledger = "open"
  BY <1>1 DEF ReceiptsAgree, Quiet
<1>3. /\ Quiet' /\ QueueMatchesCalls'
      /\ writing => writes # <<>> /\ Head(writes') = Head(writes) /\ Head(writes) # k
  BY <1>1, <1>2, QueueAppends
<1>4. ASSUME NEW j \in Keys
      PROVE  ReceiptOfCall(j)' /\ ReceiptIsKept(j)' /\ SnapshotIsCurrent(j)'
  <2>1. ReceiptOfCall(j) /\ ReceiptIsKept(j) /\ SnapshotIsCurrent(j)
    BY DEF ReceiptsAgree
  <2>2. CASE j # k
    <3>1. stage'[j] = stage[j] /\ records'[j] = records[j]
      BY <1>1, <2>2 DEF TypeOK
    <3>. QED
      BY <1>1, <1>3, <2>1, <3>1 DEF ReceiptOfCall, ReceiptIsKept, SnapshotIsCurrent, Held, Has
  <2>3. CASE j = k
    <3>1. /\ stage'[k] = "doubt" /\ asked[k] = ran[k] /\ asked[k] # None
          /\ records'[k].status = "outcome_unknown" /\ records'[k].sha = records[k].sha
          /\ records[k].sha = asked[k] /\ Has(records, k)
      BY <1>1, <2>1, <2>3 DEF TypeOK, Receipt, ReceiptOfCall, Has
    <3>. QED
      BY <1>1, <1>2, <1>3, <2>1, <2>3, <3>1
         DEF ReceiptOfCall, ReceiptIsKept, SnapshotIsCurrent, Held, Has
  <2>. QED
    BY <2>2, <2>3
<1>5. WriteAhead'
  BY <1>1 DEF ReceiptsAgree, WriteAhead, TypeOK
<1>. QED
  BY <1>3, <1>4, <1>5 DEF ReceiptsAgree

\* A write takes the map of the moment it begins.
LEMMA BeginWriteAgree ==
  ASSUME TypeOK, ReceiptsAgree, BeginWrite
  PROVE  ReceiptsAgree'
<1>1. /\ UNCHANGED <<ledger, records, writes, stage, asked, file, ran, pruned>>
      /\ ledger = "open" /\ writes # <<>> /\ writing' /\ snapshot' = records
  BY DEF BeginWrite, callVars, history
<1>2. Quiet' /\ QueueMatchesCalls'
  BY <1>1 DEF ReceiptsAgree, Quiet, QueueMatchesCalls
<1>3. ASSUME NEW k \in Keys
      PROVE  ReceiptOfCall(k)' /\ ReceiptIsKept(k)' /\ SnapshotIsCurrent(k)'
  BY <1>1 DEF ReceiptsAgree, ReceiptOfCall, ReceiptIsKept, SnapshotIsCurrent, Held, Has
<1>4. WriteAhead'
  BY <1>1 DEF ReceiptsAgree, WriteAhead
<1>. QED
  BY <1>2, <1>3, <1>4 DEF ReceiptsAgree

(* When the process dies the file holds every receipt that must exist,      *)
(* whether or not the write under way replaced it.                          *)
LEMMA CrashAgree ==
  ASSUME TypeOK, ReceiptsAgree, Crash
  PROVE  ReceiptsAgree'
<1>1. /\ ledger # "closed" /\ ledger' = "closed"
      /\ file' = file \/ (writing /\ file' = snapshot)
      /\ records' = NoReceipts /\ writes' = <<>> /\ writing' = FALSE
      /\ stage' = [k \in Keys |-> "idle"]
      /\ UNCHANGED <<ran, pruned>>
  BY DEF Crash, Renamed, NotRenamed
<1>2. Quiet' /\ QueueMatchesCalls' /\ WriteAhead'
  BY <1>1 DEF Quiet, QueueMatchesCalls, WriteAhead
<1>3. ASSUME NEW k \in Keys
      PROVE  ReceiptOfCall(k)' /\ ReceiptIsKept(k)' /\ SnapshotIsCurrent(k)'
  <2>1. ReceiptOfCall(k) /\ ReceiptIsKept(k) /\ SnapshotIsCurrent(k)
    BY DEF ReceiptsAgree
  <2>2. stage'[k] = "idle"
    BY <1>1
  <2>3. writing => ledger = "open"
    BY DEF ReceiptsAgree, Quiet
  <2>4. Held(k) /\ ledger = "open" => stage[k] # "write-ahead"
    BY <2>1 DEF ReceiptOfCall
  <2>5. Held(k) => /\ Has(file, k) /\ file[k].sha = ran[k]
                   /\ writing => Has(snapshot, k) /\ snapshot[k].sha = ran[k]
    BY <2>1, <2>3, <2>4 DEF ReceiptIsKept, SnapshotIsCurrent, Held
  <2>. QED
    BY <1>1, <2>2, <2>5 DEF ReceiptOfCall, ReceiptIsKept, SnapshotIsCurrent, Held, Has
<1>. QED
  BY <1>2, <1>3 DEF ReceiptsAgree

\* Opening again reads what the file kept, and promotes what was pending.
LEMMA OpenAgree ==
  ASSUME TypeOK, ReceiptsAgree, Open
  PROVE  ReceiptsAgree'
<1>. DEFINE loaded(evicted) == Without(Promoted(file), evicted)
<1>1. PICK evicted \in Evictions(Promoted(file), {}) :
        \/ /\ ledger' = "open" /\ records' = loaded(evicted) /\ file' = loaded(evicted)
           /\ pruned' = [k \in Keys |->
                k \in evicted \/ (pruned[k] /\ loaded(evicted)[k].sha # ran[k])]
        \/ /\ ledger' = "broken" /\ file' \in {file, loaded(evicted)} /\ UNCHANGED records
           /\ pruned' = [k \in Keys |->
                pruned[k] \/ (k \in evicted /\ file' = loaded(evicted))]
  BY DEF Open
<1>2. ledger = "closed" /\ UNCHANGED <<stage, asked, writes, writing, ran>>
  BY DEF Open, callVars
<1>3. writes = <<>> /\ ~writing /\ \A k \in Keys : stage[k] = "idle"
  BY <1>2 DEF ReceiptsAgree, Quiet
<1>4. Quiet' /\ QueueMatchesCalls' /\ WriteAhead'
  BY <1>2, <1>3 DEF Quiet, QueueMatchesCalls, WriteAhead
<1>5. ASSUME NEW k \in Keys
      PROVE  ReceiptOfCall(k)' /\ ReceiptIsKept(k)' /\ SnapshotIsCurrent(k)'
  <2>1. Held(k) => Has(file, k) /\ file[k].sha = ran[k]
    BY <1>2 DEF ReceiptsAgree, ReceiptIsKept
  <2>2. k \notin evicted => /\ loaded(evicted)[k].sha = file[k].sha
                            /\ Has(loaded(evicted), k) <=> Has(file, k)
    BY DEF Without, Promoted, Receipt, Has
  <2>3. ~Has(loaded(evicted), k) => k \in evicted \/ ~Has(file, k)
    BY <2>2
  <2>4. loaded(evicted)[k].sha # None => Has(loaded(evicted), k)
    <3>1. loaded(evicted) \in [Keys -> Receipts]
      BY PromotedType, WithoutType DEF TypeOK
    <3>. QED
      BY <3>1 DEF Receipts, NoReceipt, Statuses, Has
  <2>. HIDE DEF loaded
  <2>5. Held(k)' /\ ledger' = "open" =>
          Has(loaded(evicted), k) /\ loaded(evicted)[k].sha = ran[k]
    BY <1>1, <1>2, <2>1, <2>2, <2>4 DEF Held
  <2>6. Held(k)' /\ ledger' = "broken" => Has(file', k) /\ file'[k].sha = ran[k]
    BY <1>1, <1>2, <2>1, <2>2 DEF Held
  <2>. QED
    BY <1>1, <1>2, <1>3, <2>5, <2>6 DEF ReceiptOfCall, ReceiptIsKept, SnapshotIsCurrent, Held
<1>. QED
  BY <1>4, <1>5 DEF ReceiptsAgree

(* The write at the head of the queue ends; its call may queue another.     *)
LEMMA QueueAdvances ==
  ASSUME TypeOK, ReceiptsAgree, ledger = "open", writing,
         NEW k \in Keys, k = Head(writes),
         \A j \in Keys \ {k} : stage'[j] = stage[j],
         \/ writes' = Tail(writes)
         \/ writes' = Append(Tail(writes), k) /\ stage'[k] \notin {"idle", "running"},
         writing' = FALSE, ledger' = ledger
  PROVE  Quiet' /\ QueueMatchesCalls'
<1>1. writes \in Seq(Keys) /\ writes # <<>> /\ Len(writes) \in Nat \ {0}
  BY DEF TypeOK, ReceiptsAgree, Quiet
<1>2. Quiet'
  BY DEF Quiet
<1>3. \A i \in 1..Len(Tail(writes)) :
        Tail(writes)[i] = writes[i + 1] /\ Tail(writes)[i] \in Keys /\ Tail(writes)[i] # k
  BY <1>1 DEF ReceiptsAgree, QueueMatchesCalls
<1>4. \A i \in 1..Len(Tail(writes)) : stage'[Tail(writes)[i]] \notin {"idle", "running"}
  BY <1>1, <1>3 DEF ReceiptsAgree, QueueMatchesCalls
<1>5. \A i, j \in 1..Len(Tail(writes)) : Tail(writes)[i] = Tail(writes)[j] => i = j
  BY <1>1, <1>3 DEF ReceiptsAgree, QueueMatchesCalls
<1>6. CASE writes' = Tail(writes)
  BY <1>2, <1>4, <1>5, <1>6 DEF QueueMatchesCalls
<1>7. CASE writes' = Append(Tail(writes), k) /\ stage'[k] \notin {"idle", "running"}
  <2>1. Tail(writes) \in Seq(Keys)
    BY <1>1
  <2>. DEFINE rest == Tail(writes)
  <2>. HIDE DEF rest
  <2>2. /\ Len(writes') = Len(rest) + 1 /\ Len(rest) \in Nat
        /\ \A i \in 1..Len(rest) : writes'[i] = rest[i] /\ rest[i] # k
        /\ writes'[Len(rest) + 1] = k
    BY <1>3, <1>7, <2>1 DEF rest
  <2>3. \A i \in 1..Len(writes') : stage'[writes'[i]] \notin {"idle", "running"}
    BY <1>4, <1>7, <2>2 DEF rest
  <2>4. \A i, j \in 1..Len(rest) : rest[i] = rest[j] => i = j
    BY <1>5 DEF rest
  <2>5. \A i, j \in 1..Len(writes') : writes'[i] = writes'[j] => i = j
    BY <2>2, <2>4
  <2>. QED
    BY <1>2, <2>3, <2>5 DEF QueueMatchesCalls
<1>. QED
  BY <1>6, <1>7

\* A write that ends, well or badly, lets its call go on from where the
\* receipt is.
LEMMA EndWriteAgree ==
  ASSUME TypeOK, ReceiptsAgree, EndWrite
  PROVE  ReceiptsAgree'
<1>0. PICK k : k = Head(writes)
  OBVIOUS
<1>1. /\ ledger = "open" /\ writing /\ writing' = FALSE /\ ledger' = ledger
      /\ file' = file \/ file' = snapshot
      /\ \/ WriteAheadDone(k) /\ file' = snapshot
         \/ CommitDone(k)
         \/ CleanupEnds(k)
         \/ WriteAheadFails(k)
         \/ CommitFails(k)
  BY <1>0 DEF EndWrite, Renamed, NotRenamed, TypeOK
<1>2. k \in Keys
  BY <1>0, <1>1 DEF ReceiptsAgree, Quiet, TypeOK
<1>3. ASSUME NEW j \in Keys
      PROVE  /\ Has(records, j) /\ stage[j] # "write-ahead" /\ ~pruned[j] =>
                  Has(file', j) /\ file'[j].sha = records[j].sha
             /\ stage[j] = "running" /\ asked[j] \notin Recoverable =>
                  /\ file'[j].status \in {"pending", "outcome_unknown"}
                  /\ file'[j].sha = asked[j]
  <2>1. ReceiptOfCall(j) /\ ReceiptIsKept(j) /\ SnapshotIsCurrent(j) /\ WriteAhead
    BY DEF ReceiptsAgree
  <2>2. CASE file' = file
    BY <1>1, <2>1, <2>2 DEF ReceiptIsKept, WriteAhead, Has
  <2>3. CASE file' = snapshot
    BY <1>1, <2>1, <2>3 DEF ReceiptOfCall, SnapshotIsCurrent, Has
  <2>. QED
    BY <1>1, <2>2, <2>3
<1>4. /\ Quiet' /\ QueueMatchesCalls'
      /\ \A j \in Keys \ {k} : /\ stage'[j] = stage[j] /\ asked'[j] = asked[j]
                               /\ records'[j] = records[j] /\ ran'[j] = ran[j]
                               /\ pruned'[j] = pruned[j]
  <2>1. /\ \A j \in Keys \ {k} : /\ stage'[j] = stage[j] /\ asked'[j] = asked[j]
                                 /\ records'[j] = records[j] /\ ran'[j] = ran[j]
                                 /\ pruned'[j] = pruned[j]
        /\ \/ writes' = Tail(writes)
           \/ writes' = Append(Tail(writes), k) /\ stage'[k] \notin {"idle", "running"}
    BY <1>1, <1>2 DEF WriteAheadDone, StartOperation, CommitDone, CleanupEnds, Settle,
                      WriteAheadFails, CommitFails, TypeOK
  <2>. QED
    BY <1>0, <1>1, <1>2, <2>1, QueueAdvances
<1>5. ASSUME NEW j \in Keys, j # k
      PROVE  ReceiptOfCall(j)' /\ ReceiptIsKept(j)' /\ SnapshotIsCurrent(j)'
  <2>1. ReceiptOfCall(j) /\ ReceiptIsKept(j)
    BY DEF ReceiptsAgree
  <2>. QED
    BY <1>1, <1>3, <1>4, <1>5, <2>1 DEF ReceiptOfCall, ReceiptIsKept, SnapshotIsCurrent, Held, Has
<1>6. ledger = "open" /\ ledger' = "open"
  BY <1>1
<1>7. /\ ReceiptOfCall(k)' /\ ReceiptIsKept(k)' /\ SnapshotIsCurrent(k)'
      /\ stage'[k] = "running" /\ asked'[k] \notin Recoverable =>
           file'[k].status \in {"pending", "outcome_unknown"} /\ file'[k].sha = asked'[k]
  <2>1. ReceiptOfCall(k) /\ ReceiptIsKept(k) /\ SnapshotIsCurrent(k)
    BY <1>2 DEF ReceiptsAgree
  <2>2. SnapshotIsCurrent(k)'
    BY <1>1 DEF SnapshotIsCurrent
  <2>3. CASE WriteAheadDone(k) /\ file' = snapshot
    <3>1. /\ stage'[k] = "running" /\ asked' = asked /\ records' = records
          /\ ran'[k] = asked[k] /\ pruned'[k] = FALSE /\ stage[k] = "write-ahead"
      BY <1>2, <2>3 DEF WriteAheadDone, StartOperation, TypeOK
    <3>2. snapshot[k] = records[k]
      BY <1>0, <1>1, <2>1, <3>1 DEF SnapshotIsCurrent
    <3>3. ReceiptOfCall(k)'
      BY <2>1, <3>1 DEF ReceiptOfCall
    <3>4. ReceiptIsKept(k)'
      BY <1>6, <2>1, <2>3, <3>1, <3>2 DEF ReceiptOfCall, ReceiptIsKept, Held, Has
    <3>5. file'[k].status = "pending" /\ file'[k].sha = asked'[k]
      BY <2>1, <2>3, <3>1, <3>2 DEF ReceiptOfCall
    <3>. QED
      BY <2>2, <3>3, <3>4, <3>5
  <2>4. CASE CommitDone(k) \/ CleanupEnds(k)
    <3>1. /\ stage'[k] = "idle" /\ UNCHANGED <<records, ran, pruned>>
          /\ stage[k] # "write-ahead"
      BY <1>2, <2>4 DEF CommitDone, CleanupEnds, Settle, TypeOK
    <3>2. ReceiptOfCall(k)'
      BY <3>1 DEF ReceiptOfCall
    <3>3. ReceiptIsKept(k)'
      BY <1>6, <1>2, <1>3, <2>1, <3>1 DEF ReceiptIsKept, Held, Has
    <3>. QED
      BY <2>2, <3>1, <3>2, <3>3
  <2>5. CASE WriteAheadFails(k)
    <3>1. /\ stage'[k] = "write-ahead-failed" /\ records'[k] = NoReceipt
          /\ UNCHANGED <<asked, ran, pruned>> /\ stage[k] = "write-ahead"
      BY <1>2, <2>5 DEF WriteAheadFails, TypeOK
    <3>2. ~Held(k)' /\ asked[k] # None
      BY <2>1, <3>1 DEF ReceiptOfCall, Held
    <3>3. ReceiptOfCall(k)'
      BY <3>1, <3>2 DEF ReceiptOfCall
    <3>4. ReceiptIsKept(k)'
      BY <1>6, <3>1, <3>2 DEF ReceiptIsKept, Has, NoReceipt
    <3>. QED
      BY <2>2, <3>1, <3>3, <3>4
  <2>6. CASE CommitFails(k)
    <3>1. /\ stage'[k] = "commit-failed" /\ UNCHANGED <<asked, ran, pruned>>
          /\ stage[k] = "commit"
          /\ records'[k].status = "outcome_unknown" /\ records'[k].sha = asked[k]
      BY <1>2, <2>6 DEF CommitFails, TypeOK, Receipt
    <3>2. ran[k] = asked[k] /\ asked[k] # None
      BY <2>1, <3>1 DEF ReceiptOfCall
    <3>3. ~pruned[k] => Has(records, k) /\ records[k].sha = asked[k]
      BY <1>6, <2>1, <3>2 DEF ReceiptIsKept, Held
    <3>4. ~pruned[k] => Has(file', k) /\ file'[k].sha = asked[k]
      BY <1>2, <1>3, <3>1, <3>3
    <3>5. ReceiptOfCall(k)'
      BY <3>1, <3>2 DEF ReceiptOfCall
    <3>6. ReceiptIsKept(k)'
      BY <1>6, <3>1, <3>2, <3>4 DEF ReceiptIsKept, Held, Has
    <3>. QED
      BY <2>2, <3>1, <3>5, <3>6
  <2>. QED
    BY <1>1, <2>3, <2>4, <2>5, <2>6
<1>8. WriteAhead'
  BY <1>3, <1>4, <1>7 DEF WriteAhead
<1>9. \A j \in Keys : (ReceiptOfCall(j) /\ ReceiptIsKept(j) /\ SnapshotIsCurrent(j))'
  BY <1>5, <1>7
<1>. QED
  BY <1>4, <1>8, <1>9 DEF ReceiptsAgree

-----------------------------------------------------------------------------
\* Type and agreement together are inductive.
LEMMA NextInductive ==
  ASSUME TypeOK, ReceiptsAgree, [Next]_vars
  PROVE  TypeOK' /\ ReceiptsAgree'
<1>1. ASSUME NEW k \in Keys, NEW s \in Requests, ExecuteJoins(k, s)
      PROVE  TypeOK' /\ ReceiptsAgree'
  BY <1>1, JoinsTypeOK, AgreeUnchanged DEF ExecuteJoins, callVars, diskVars, history
<1>2. ASSUME NEW k \in Keys, NEW s \in Requests, ExecuteAnsweredByReceipt(k, s)
      PROVE  TypeOK' /\ ReceiptsAgree'
  BY <1>2, AnsweredTypeOK, AgreeUnchanged
     DEF ExecuteAnsweredByReceipt, callVars, diskVars, history
<1>3. ASSUME NEW k \in Keys, NEW s \in Requests, ExecuteResumes(k, s)
      PROVE  TypeOK' /\ ReceiptsAgree'
  BY <1>3, ResumesTypeOK, ResumesAgree
<1>4. ASSUME NEW k \in Keys, NEW s \in Requests, ExecuteFirst(k, s)
      PROVE  TypeOK' /\ ReceiptsAgree'
  BY <1>4, FirstTypeOK, FirstAgree
<1>5. ASSUME NEW k \in Keys, OperationReturns(k)
      PROVE  TypeOK' /\ ReceiptsAgree'
  BY <1>5, ReturnsTypeOK, ReturnsAgree
<1>6. ASSUME NEW k \in Keys, OperationThrows(k)
      PROVE  TypeOK' /\ ReceiptsAgree'
  BY <1>6, ThrowsTypeOK, ThrowsAgree
<1>7. CASE BeginWrite
  <2>1. TypeOK'
    BY <1>7 DEF BeginWrite, TypeOK, callVars, history
  <2>. QED
    BY <1>7, <2>1, BeginWriteAgree
<1>8. CASE EndWrite
  BY <1>8, EndWriteTypeOK, EndWriteAgree DEF ReceiptsAgree
<1>9. CASE Crash
  BY <1>9, CrashTypeOK, CrashAgree
<1>10. CASE Open
  BY <1>10, OpenTypeOK, OpenAgree
<1>11. CASE SetClock
  <2>1. TypeOK'
    BY <1>11 DEF SetClock, TypeOK, callVars, diskVars, history
  <2>. QED
    BY <1>11, <2>1, AgreeUnchanged DEF SetClock, callVars, diskVars, history
<1>12. CASE UNCHANGED vars
  <2>1. TypeOK'
    BY <1>12 DEF vars, TypeOK, callVars, diskVars, history
  <2>. QED
    BY <1>12, <2>1, AgreeUnchanged DEF vars, callVars, diskVars, history
<1>. QED
  BY <1>1, <1>2, <1>3, <1>4, <1>5, <1>6, <1>7, <1>8, <1>9, <1>10, <1>11, <1>12
  DEF Next, Execute, Operation

(* Every variable keeps its type, through every write, prune, crash and     *)
(* reopening of the ledger.                                                 *)
THEOREM TypeCorrect == Spec => []TypeOK
<1>1. Init => TypeOK /\ ReceiptsAgree
  BY InitTypeOK, InitAgree
<1>2. TypeOK /\ ReceiptsAgree /\ [Next]_vars => (TypeOK /\ ReceiptsAgree)'
  BY NextInductive
<1>. QED
  BY <1>1, <1>2, PTL DEF Spec

(* The receipts in the map, in the file, in a write under way and in the    *)
(* calls in flight always agree on what must not be forgotten.              *)
THEOREM ReceiptsAlwaysAgree == Spec => []ReceiptsAgree
<1>1. Init => TypeOK /\ ReceiptsAgree
  BY InitTypeOK, InitAgree
<1>2. TypeOK /\ ReceiptsAgree /\ [Next]_vars => (TypeOK /\ ReceiptsAgree)'
  BY NextInductive
<1>. QED
  BY <1>1, <1>2, PTL DEF Spec

(* The write-ahead boundary of executeOnce: while a fail-closed operation   *)
(* runs, the file names it.                                                 *)
THEOREM WriteAheadAlways == Spec => []WriteAhead
<1>1. ReceiptsAgree => WriteAhead
  BY DEF ReceiptsAgree
<1>. QED
  BY <1>1, ReceiptsAlwaysAgree, PTL

(* transitionToOutcomeUnknown never meets "pending record disappeared".     *)
THEOREM RunningAlwaysHasReceipt == Spec => []RunningHasReceipt
<1>1. ReceiptsAgree => RunningHasReceipt
  BY DEF ReceiptsAgree, RunningHasReceipt, ReceiptOfCall
<1>. QED
  BY <1>1, ReceiptsAlwaysAgree, PTL

(* A step that starts an operation finds no receipt that forbids it.        *)
LEMMA StartIsFirst ==
  ASSUME TypeOK, ReceiptsAgree, [Next]_vars, NEW k \in Keys, Starts(k)
  PROVE  ran[k] = None \/ pruned[k] \/ (ran[k] \in Recoverable /\ ran'[k] = ran[k])
<1>1. stage'[k] = "running" /\ stage[k] # "running"
  BY DEF Starts
<1>2. ReceiptOfCall(k) /\ ReceiptIsKept(k)
  BY DEF ReceiptsAgree
<1>3. ASSUME NEW j \in Keys, NEW s \in Requests, ExecuteResumes(j, s)
      PROVE  ran[k] = None \/ pruned[k] \/ (ran[k] \in Recoverable /\ ran'[k] = ran[k])
  <2>1. j = k
    BY <1>1, <1>3 DEF ExecuteResumes, StartOperation, TypeOK
  <2>2. records[k].sha = s /\ s \in Recoverable /\ ran'[k] = s /\ ledger = "open"
    BY <1>3, <2>1 DEF ExecuteResumes, StartOperation, TypeOK
  <2>. QED
    BY <1>2, <2>2 DEF ReceiptIsKept, Held
<1>4. ASSUME EndWrite
      PROVE  stage[k] = "write-ahead"
  BY <1>1, <1>4 DEF EndWrite, WriteAheadDone, StartOperation, CommitDone, CleanupEnds,
                    Settle, WriteAheadFails, CommitFails, TypeOK
<1>5. ASSUME NEW j \in Keys, NEW s \in Requests,
             ExecuteJoins(j, s) \/ ExecuteAnsweredByReceipt(j, s) \/ ExecuteFirst(j, s)
      PROVE  FALSE
  BY <1>1, <1>5 DEF ExecuteJoins, ExecuteAnsweredByReceipt, ExecuteFirst, callVars, TypeOK
<1>6. ASSUME NEW j \in Keys, OperationReturns(j) \/ OperationThrows(j)
      PROVE  FALSE
  BY <1>1, <1>6 DEF OperationReturns, OperationThrows, TypeOK
<1>7. ASSUME BeginWrite \/ Crash \/ Open \/ SetClock \/ UNCHANGED vars
      PROVE  FALSE
  BY <1>1, <1>7 DEF BeginWrite, Crash, Open, SetClock, vars, callVars, TypeOK
<1>. QED
  BY <1>2, <1>3, <1>4, <1>5, <1>6, <1>7 DEF Next, Execute, Operation, ReceiptOfCall, Held

(* "Execute a mutation at most once": no retry, failed write, crash or      *)
(* reopening starts an operation again while its receipt is not pruned.     *)
THEOREM AtMostOnceAlways == Spec => AtMostOnce
<1>1. TypeOK /\ ReceiptsAgree /\ [Next]_vars =>
        [\A k \in Keys : Starts(k) => ran[k] = None \/ pruned[k]
                                       \/ (ran[k] \in Recoverable /\ ran'[k] = ran[k])]_vars
  BY StartIsFirst
<1>. QED
  BY <1>1, TypeCorrect, ReceiptsAlwaysAgree, PTL DEF Spec, AtMostOnce

(* A step that reports that nothing ran tells the truth.                    *)
LEMMA NotRunIsFirst ==
  ASSUME TypeOK, ReceiptsAgree, [Next]_vars, NEW k \in Keys, Hears(k, "not run")
  PROVE  ran[k] = None \/ pruned[k] \/ ran[k] \in Recoverable
<1>1. stage[k] # "idle" /\ stage'[k] = "idle" /\ told' = Answer(k, "not run") /\ ledger' = "open"
  BY DEF Hears
<1>2. ReceiptOfCall(k)
  BY DEF ReceiptsAgree
<1>3. ASSUME EndWrite
      PROVE  stage[k] = "write-ahead-failed"
  BY <1>1, <1>3 DEF EndWrite, WriteAheadDone, StartOperation, CommitDone, CleanupEnds,
                    Settle, WriteAheadFails, CommitFails, TypeOK, Answer
<1>4. ASSUME NEW j \in Keys, NEW s \in Requests, Execute(j, s)
      PROVE  FALSE
  BY <1>1, <1>4 DEF Execute, ExecuteJoins, ExecuteAnsweredByReceipt, ExecuteResumes,
                    ExecuteFirst, StartOperation, callVars, TypeOK
<1>5. ASSUME NEW j \in Keys, Operation(j)
      PROVE  FALSE
  BY <1>1, <1>5 DEF Operation, OperationReturns, OperationThrows, TypeOK
<1>6. ASSUME BeginWrite \/ Crash \/ Open \/ SetClock \/ UNCHANGED vars
      PROVE  FALSE
  BY <1>1, <1>6 DEF BeginWrite, Crash, Open, SetClock, vars, callVars, TypeOK
<1>. QED
  BY <1>2, <1>3, <1>4, <1>5, <1>6 DEF Next, ReceiptOfCall, Held

(* A caller told that its mutation failed before it ran may retry.          *)
THEOREM NotRunIsAlwaysTrue == Spec => NotRunIsTrue
<1>1. TypeOK /\ ReceiptsAgree /\ [Next]_vars =>
        [\A k \in Keys : Hears(k, "not run") =>
           ran[k] = None \/ pruned[k] \/ ran[k] \in Recoverable]_vars
  BY NotRunIsFirst
<1>. QED
  BY <1>1, TypeCorrect, ReceiptsAlwaysAgree, PTL DEF Spec, NotRunIsTrue

(* A completed operation touches other receipts only by pruning them.       *)
LEMMA ReturnsPrunesOthers ==
  ASSUME TypeOK, NEW k \in Keys, OperationReturns(k), NEW j \in Keys \ {k}
  PROVE  \/ records'[j] = records[j] /\ pruned'[j] = pruned[j]
         \/ records[j].status = "completed" /\ pruned'[j]
<1>. DEFINE done == [records EXCEPT ![k] = Receipt(asked[k], "completed", clock)]
<1>1. PICK evicted \in Evictions(done, {k}) :
        /\ records' = Without(done, evicted)
        /\ pruned' = [i \in Keys |-> i \in evicted \/ pruned[i]]
  BY DEF OperationReturns
<1>2. evicted \subseteq Completed(done) \ {k}
  BY <1>1, EvictionsAreCompleted
<1>3. done[j] = records[j]
  BY DEF TypeOK
<1>. HIDE DEF done
<1>4. CASE j \in evicted
  BY <1>1, <1>2, <1>3, <1>4 DEF Completed
<1>5. CASE j \notin evicted
  <2>1. records'[j] = records[j]
    BY <1>1, <1>3, <1>5 DEF Without
  <2>2. pruned'[j] = pruned[j]
    BY <1>1, <1>5 DEF TypeOK
  <2>. QED
    BY <2>1, <2>2
<1>. QED
  BY <1>4, <1>5

(* While a write is under way, nothing but pruning parts its payload from   *)
(* the receipt of the call it is for.                                       *)
LEMMA NextCarried ==
  ASSUME TypeOK, ReceiptsAgree, HeadIsCarried, [Next]_vars
  PROVE  HeadIsCarried'
<1>. SUFFICES ASSUME NEW k \in Keys, writing', Head(writes') = k,
                     stage'[k] \in {"write-ahead", "commit"}
              PROVE  Carried(k)'
  BY DEF HeadIsCarried
<1>. USE DEF Carried
<1>1. ASSUME writing, UNCHANGED <<snapshot, writes>>, stage'[k] = stage[k],
             records'[k] = records[k], pruned'[k] = pruned[k]
      PROVE  Carried(k)'
  BY <1>1 DEF HeadIsCarried
<1>2. ASSUME NEW j \in Keys, NEW s \in Requests,
             ExecuteJoins(j, s) \/ ExecuteAnsweredByReceipt(j, s)
      PROVE  Carried(k)'
  BY <1>1, <1>2 DEF ExecuteJoins, ExecuteAnsweredByReceipt, callVars, diskVars, history
<1>3. ASSUME NEW j \in Keys, NEW s \in Requests, ExecuteResumes(j, s)
      PROVE  Carried(k)'
  <2>1. /\ UNCHANGED <<snapshot, writes, records, writing>>
        /\ stage' = [stage EXCEPT ![j] = "running"]
        /\ pruned' = [pruned EXCEPT ![j] = @ /\ file[j].sha # s]
    BY <1>3 DEF ExecuteResumes, StartOperation, diskVars
  <2>2. j # k
    BY <2>1 DEF TypeOK
  <2>3. stage'[k] = stage[k] /\ pruned'[k] = pruned[k]
    BY <2>1, <2>2 DEF TypeOK
  <2>. QED
    BY <1>1, <2>1, <2>3
<1>4. ASSUME NEW j \in Keys, NEW s \in Requests, ExecuteFirst(j, s)
      PROVE  Carried(k)'
  <2>1. /\ UNCHANGED <<snapshot, pruned, writing, ledger>> /\ stage[j] = "idle"
        /\ ledger = "open"
        /\ stage' = [stage EXCEPT ![j] = "write-ahead"]
        /\ records' = [records EXCEPT ![j] = Receipt(s, "pending", 0)]
        /\ writes' = Append(writes, j)
    BY <1>4 DEF ExecuteFirst, Persist, diskVars
  <2>2. Head(writes') = Head(writes) /\ Head(writes) # j
    BY <2>1, QueueAppends DEF ReceiptsAgree
  <2>3. stage'[k] = stage[k] /\ records'[k] = records[k]
    BY <2>1, <2>2 DEF TypeOK
  <2>. QED
    BY <2>1, <2>2, <2>3 DEF HeadIsCarried
<1>5. ASSUME NEW j \in Keys, Operation(j)
      PROVE  Carried(k)'
  <2>1. /\ UNCHANGED <<snapshot, writing, ledger>> /\ stage[j] = "running"
        /\ stage' = [stage EXCEPT ![j] = stage'[j]]
        /\ stage'[j] \in {"commit", "doubt"}
        /\ writes' = Append(writes, j)
    BY <1>5 DEF Operation, OperationReturns, OperationThrows, Persist, diskVars, TypeOK
  <2>2. ledger = "open"
    BY <2>1 DEF ReceiptsAgree, Quiet
  <2>3. Head(writes') = Head(writes) /\ Head(writes) # j
    BY <2>1, <2>2, QueueAppends DEF ReceiptsAgree
  <2>4. stage'[k] = stage[k] /\ k # j /\ Carried(k)
    BY <2>1, <2>3 DEF TypeOK, HeadIsCarried
  <2>5. CASE OperationReturns(j)
    <3>1. \/ records'[k] = records[k] /\ pruned'[k] = pruned[k]
          \/ records[k].status = "completed" /\ pruned'[k]
      BY <2>4, <2>5, ReturnsPrunesOthers
    <3>2. ReceiptOfCall(k)
      BY DEF ReceiptsAgree
    <3>. QED
      BY <2>1, <2>4, <3>1, <3>2 DEF ReceiptOfCall
  <2>6. CASE OperationThrows(j)
    <3>1. UNCHANGED pruned /\ records'[k] = records[k]
      BY <2>4, <2>6 DEF OperationThrows, history, TypeOK
    <3>. QED
      BY <2>1, <2>4, <3>1
  <2>. QED
    BY <1>5, <2>5, <2>6 DEF Operation
<1>6. CASE BeginWrite
  BY <1>6 DEF BeginWrite
<1>7. ASSUME EndWrite \/ Crash
      PROVE  FALSE
  BY <1>7 DEF EndWrite, Crash
<1>8. ASSUME Open
      PROVE  FALSE
  BY <1>8 DEF Open, ReceiptsAgree, Quiet
<1>9. ASSUME SetClock \/ UNCHANGED vars
      PROVE  Carried(k)'
  BY <1>1, <1>9 DEF SetClock, vars, callVars, diskVars, history
<1>. QED
  BY <1>2, <1>3, <1>4, <1>5, <1>6, <1>7, <1>8, <1>9 DEF Next, Execute

(* A step that lets a waiting call go on ends the write of its receipt.     *)
LEMMA WriteAnswersItsCaller ==
  ASSUME TypeOK, ReceiptsAgree, HeadIsCarried, [Next]_vars, NEW k \in Keys,
         stage[k] \in {"write-ahead", "commit"}, stage'[k] # stage[k], ledger' = "open"
  PROVE  /\ writing /\ Carried(k)
         /\ stage'[k] \in {"running", "idle"} => file' = snapshot
<1>1. ASSUME EndWrite
      PROVE  /\ writing /\ Carried(k)
             /\ stage'[k] \in {"running", "idle"} => file' = snapshot
  <2>1. writing /\ Head(writes) = k
    BY <1>1 DEF EndWrite, WriteAheadDone, StartOperation, CommitDone, CleanupEnds,
                Settle, WriteAheadFails, CommitFails, TypeOK
  <2>2. stage'[k] \in {"running", "idle"} => Renamed
    BY <1>1, <2>1 DEF EndWrite, CleanupEnds, WriteAheadFails, CommitFails, TypeOK
  <2>. QED
    BY <2>1, <2>2 DEF HeadIsCarried, Renamed
<1>2. ASSUME NEW j \in Keys, NEW s \in Requests, Execute(j, s)
      PROVE  FALSE
  BY <1>2 DEF Execute, ExecuteJoins, ExecuteAnsweredByReceipt, ExecuteResumes,
              ExecuteFirst, StartOperation, callVars, TypeOK
<1>3. ASSUME NEW j \in Keys, Operation(j)
      PROVE  FALSE
  BY <1>3 DEF Operation, OperationReturns, OperationThrows, TypeOK
<1>4. ASSUME BeginWrite \/ Crash \/ Open \/ SetClock \/ UNCHANGED vars
      PROVE  FALSE
  BY <1>4 DEF BeginWrite, Crash, Open, SetClock, vars, callVars, TypeOK
<1>. QED
  BY <1>1, <1>2, <1>3, <1>4 DEF Next

(* Every caller of persist hears of its own write: neither the failure of   *)
(* one before it nor the success of one that did not carry its receipt.     *)
THEOREM HearsOfItsOwnWriteAlways == Spec => HearsOfItsOwnWrite
<1>1. Init => HeadIsCarried
  BY DEF Init, HeadIsCarried
<1>2. TypeOK /\ ReceiptsAgree /\ HeadIsCarried /\ [Next]_vars => HeadIsCarried'
  BY NextCarried
<1>3. TypeOK /\ ReceiptsAgree /\ HeadIsCarried /\ [Next]_vars =>
        [\A k \in Keys :
           stage[k] \in {"write-ahead", "commit"} /\ stage'[k] # stage[k] /\ ledger' = "open" =>
             /\ writing /\ Carried(k)
             /\ stage'[k] \in {"running", "idle"} => file' = snapshot]_vars
  BY WriteAnswersItsCaller
<1>. QED
  BY <1>1, <1>2, <1>3, TypeCorrect, ReceiptsAlwaysAgree, PTL DEF Spec, HearsOfItsOwnWrite

-----------------------------------------------------------------------------
(* pruneCompleted leaves at most maxCompletedEntries completed receipts.    *)
LEMMA EvictionsBound ==
  ASSUME NEW recs, NEW protected, NEW evicted \in Evictions(recs, protected)
  PROVE  Cardinality(Completed(Without(recs, evicted))) <= MaxCompleted
<1>. DEFINE expired  == {k \in Completed(recs) \ protected :
                           recs[k].at < clock - Retention}
            retained == Completed(recs) \ expired
            excess   == Cardinality(retained) - MaxCompleted
<1>1. PICK oldest \in SUBSET retained :
        /\ evicted = expired \union oldest
        /\ Cardinality(oldest) = IF excess > 0 THEN excess ELSE 0
  BY DEF Evictions
<1>2. Completed(Without(recs, evicted)) = retained \ oldest
  BY <1>1 DEF Completed, Without, NoReceipt
<1>3. IsFiniteSet(retained) /\ Cardinality(retained) \in Nat
  <2>1. retained \subseteq Keys
    BY DEF Completed
  <2>. QED
    BY <2>1, LedgerAssumption, FS_Subset, FS_CardinalityType
<1>. HIDE DEF retained
<1>4. Cardinality(retained \ oldest) = Cardinality(retained) - Cardinality(oldest)
  <2>1. retained \intersect oldest = oldest
    BY <1>1
  <2>. QED
    BY <1>3, <2>1, FS_Difference
<1>5. MaxCompleted \in Nat
  BY LedgerAssumption
<1>. HIDE DEF expired
<1>6. Cardinality(oldest) = (IF excess > 0 THEN excess ELSE 0)
  BY <1>1
<1>. QED
  BY <1>2, <1>3, <1>4, <1>5, <1>6

\* Where no receipt is completed, the bound is kept.
LEMMA FewerCompleted ==
  ASSUME BoundedReceipts, Completed(records') \subseteq Completed(records)
  PROVE  BoundedReceipts'
<1>1. IsFiniteSet(Completed(records))
  BY LedgerAssumption, FS_Subset DEF Completed
<1>2. /\ Cardinality(Completed(records')) <= Cardinality(Completed(records))
      /\ Cardinality(Completed(records')) \in Nat /\ Cardinality(Completed(records)) \in Nat
  BY <1>1, FS_Subset, FS_CardinalityType
<1>. QED
  BY <1>2, LedgerAssumption DEF BoundedReceipts

\* Every step keeps the bound: pruning follows each completion.
LEMMA NextBounded ==
  ASSUME TypeOK, BoundedReceipts, [Next]_vars
  PROVE  BoundedReceipts'
<1>1. ASSUME NEW k \in Keys, OperationReturns(k)
      PROVE  BoundedReceipts'
  BY <1>1, EvictionsBound DEF OperationReturns, BoundedReceipts
<1>2. CASE Open
  <2>1. PICK evicted \in Evictions(Promoted(file), {}) :
          records' = Without(Promoted(file), evicted) \/ records' = records
    BY <1>2 DEF Open
  <2>2. CASE records' = Without(Promoted(file), evicted)
    BY <2>1, <2>2, EvictionsBound DEF BoundedReceipts
  <2>3. CASE records' = records
    BY <2>3 DEF BoundedReceipts
  <2>. QED
    BY <2>1, <2>2, <2>3
<1>3. ASSUME NEW k \in Keys, NEW s \in Requests, Execute(k, s)
      PROVE  BoundedReceipts'
  <2>1. records' = records \/ records' = [records EXCEPT ![k] = Receipt(s, "pending", 0)]
    BY <1>3 DEF Execute, ExecuteJoins, ExecuteAnsweredByReceipt, ExecuteResumes, ExecuteFirst
  <2>2. Completed(records') \subseteq Completed(records)
    BY <2>1 DEF Completed, Receipt, TypeOK
  <2>. QED
    BY <2>2, FewerCompleted
<1>4. ASSUME NEW k \in Keys, OperationThrows(k)
      PROVE  BoundedReceipts'
  <2>1. Completed(records') \subseteq Completed(records)
    BY <1>4 DEF OperationThrows, Completed, Receipt, TypeOK
  <2>. QED
    BY <2>1, FewerCompleted
<1>5. CASE EndWrite
  <2>1. PICK k : records' = records \/ records' = [records EXCEPT ![k] = NoReceipt]
                 \/ records' = [records EXCEPT ![k] = Receipt(asked[k], "outcome_unknown", 0)]
    BY <1>5 DEF EndWrite, WriteAheadDone, CommitDone, CleanupEnds, WriteAheadFails, CommitFails
  <2>2. Completed(records') \subseteq Completed(records)
    BY <2>1 DEF Completed, Receipt, NoReceipt, TypeOK
  <2>. QED
    BY <2>2, FewerCompleted
<1>6. CASE Crash
  <2>1. Completed(records') \subseteq Completed(records)
    BY <1>6 DEF Crash, Completed, NoReceipts, NoReceipt
  <2>. QED
    BY <2>1, FewerCompleted
<1>7. CASE BeginWrite \/ SetClock \/ UNCHANGED vars
  BY <1>7 DEF BeginWrite, SetClock, vars, BoundedReceipts
<1>. QED
  BY <1>1, <1>2, <1>3, <1>4, <1>5, <1>6, <1>7 DEF Next, Operation

(* The map never holds more completed receipts than maxCompletedEntries,    *)
(* whatever the clock does and whatever is in flight.                       *)
THEOREM ReceiptsBounded == Spec => []BoundedReceipts
<1>1. Init => BoundedReceipts
  <2>1. Init => Completed(records) = {}
    BY DEF Init, Completed, NoReceipts, NoReceipt
  <2>. QED
    BY <2>1, FS_EmptySet, LedgerAssumption DEF BoundedReceipts
<1>2. TypeOK /\ BoundedReceipts /\ [Next]_vars => BoundedReceipts'
  BY NextBounded
<1>. QED
  BY <1>1, <1>2, TypeCorrect, PTL DEF Spec

-----------------------------------------------------------------------------
(* The refinement of OnceOnly.  First the invariant it needs besides        *)
(* ReceiptsAgree: completed receipts come from operations that ran.         *)
LEMMA InitReal == Init => OutcomesAreReal
BY DEF Init, OutcomesAreReal, NoReceipts, NoReceipt

\* An operation that returns tells what became of it,
LEMMA ReturnsReal ==
  ASSUME TypeOK, ReceiptsAgree, OutcomesAreReal, NEW k \in Keys, OperationReturns(k)
  PROVE  OutcomesAreReal'
<1>. DEFINE done == [records EXCEPT ![k] = Receipt(asked[k], "completed", clock)]
<1>1. PICK evicted \in Evictions(done, {k}) :
        /\ records' = Without(done, evicted)
        /\ pruned' = [j \in Keys |-> j \in evicted \/ pruned[j]]
  BY DEF OperationReturns
<1>2. /\ UNCHANGED <<file, snapshot, ran>> /\ stage[k] = "running"
      /\ stage' = [stage EXCEPT ![k] = "commit"]
  BY DEF OperationReturns, diskVars
<1>3. k \notin evicted /\ evicted \subseteq Completed(done)
  BY <1>1, EvictionsAreCompleted
<1>4. done[k].status = "completed" /\ \A j \in Keys \ {k} : done[j] = records[j]
  BY DEF TypeOK, Receipt
<1>. HIDE DEF done
<1>5. ran[k] # None
  BY <1>2 DEF ReceiptsAgree, ReceiptOfCall
<1>6. ASSUME NEW j \in Keys
      PROVE  /\ ran[j] = None => records'[j].status # "completed"
             /\ stage'[j] = "commit" => records'[j].status = "completed" \/ pruned'[j]
             /\ stage'[j] = "running" /\ pruned'[j] => ran[j] \in Recoverable
  <2>1. CASE j = k
    <3>1. records'[k] = done[k] /\ stage'[k] = "commit"
      BY <1>1, <1>2, <1>3 DEF Without, TypeOK
    <3>. QED
      BY <1>4, <1>5, <2>1, <3>1
  <2>2. CASE j # k
    <3>1. stage'[j] = stage[j] /\ done[j] = records[j]
      BY <1>2, <1>4, <2>2 DEF TypeOK
    <3>2. CASE j \in evicted
      <4>1. records'[j] = NoReceipt /\ pruned'[j] /\ records[j].status = "completed"
        BY <1>1, <1>3, <3>1, <3>2 DEF Without, Completed
      <4>2. stage[j] # "running"
        BY <4>1 DEF ReceiptsAgree, ReceiptOfCall
      <4>. QED
        BY <3>1, <4>1, <4>2 DEF NoReceipt
    <3>3. CASE j \notin evicted
      <4>1. records'[j] = records[j] /\ (pruned[j] <=> pruned'[j])
        BY <1>1, <3>1, <3>3 DEF Without, TypeOK
      <4>. QED
        BY <3>1, <4>1 DEF OutcomesAreReal
    <3>. QED
      BY <3>2, <3>3
  <2>. QED
    BY <2>1, <2>2
<1>. QED
  BY <1>2, <1>6 DEF OutcomesAreReal

\* and so does a call that goes on when a write ends,
LEMMA EndWriteReal ==
  ASSUME TypeOK, ReceiptsAgree, OutcomesAreReal, EndWrite
  PROVE  OutcomesAreReal'
<1>1. PICK k : /\ k = Head(writes)
               /\ \/ WriteAheadDone(k) \/ CommitDone(k) \/ CleanupEnds(k)
                  \/ WriteAheadFails(k) \/ CommitFails(k)
  BY DEF EndWrite
<1>2. file' \in {file, snapshot} /\ snapshot' = NoReceipts
  BY DEF EndWrite, Renamed, NotRenamed
<1>3. k \in Keys
  BY <1>1 DEF EndWrite, ReceiptsAgree, Quiet, TypeOK
<1>4. ReceiptOfCall(k)
  BY <1>3 DEF ReceiptsAgree
<1>5. \A j \in Keys \ {k} : /\ stage'[j] = stage[j] /\ records'[j] = records[j]
                            /\ ran'[j] = ran[j] /\ pruned'[j] = pruned[j]
  BY <1>1, <1>3 DEF WriteAheadDone, StartOperation, CommitDone, CleanupEnds, Settle,
                    WriteAheadFails, CommitFails, TypeOK
<1>6. /\ ran'[k] = None => ran[k] = None
      /\ records'[k].status = "completed" => records[k].status = "completed"
      /\ stage'[k] # "commit"
      /\ stage'[k] = "running" => ~pruned'[k]
  <2>1. CASE WriteAheadDone(k)
    <3>1. /\ ran'[k] = asked[k] /\ records'[k] = records[k]
          /\ stage'[k] = "running" /\ pruned'[k] = FALSE /\ stage[k] = "write-ahead"
      BY <1>3, <2>1 DEF WriteAheadDone, StartOperation, TypeOK
    <3>. QED
      BY <1>4, <3>1 DEF ReceiptOfCall
  <2>2. CASE CommitDone(k) \/ CleanupEnds(k)
    BY <1>3, <2>2 DEF CommitDone, CleanupEnds, Settle, TypeOK
  <2>3. CASE WriteAheadFails(k)
    BY <1>3, <2>3 DEF WriteAheadFails, TypeOK, NoReceipt
  <2>4. CASE CommitFails(k)
    BY <1>3, <2>4 DEF CommitFails, TypeOK, Receipt
  <2>. QED
    BY <1>1, <2>1, <2>2, <2>3, <2>4
<1>7. ASSUME NEW j \in Keys
      PROVE  /\ ran'[j] = None => /\ records'[j].status # "completed"
                                  /\ file'[j].status # "completed"
                                  /\ snapshot'[j].status # "completed"
             /\ stage'[j] = "commit" => records'[j].status = "completed" \/ pruned'[j]
             /\ stage'[j] = "running" /\ pruned'[j] => ran'[j] \in Recoverable
  <2>1. snapshot'[j].status # "completed"
    BY <1>2 DEF NoReceipts, NoReceipt
  <2>2. ran[j] = None => /\ records[j].status # "completed" /\ file[j].status # "completed"
                         /\ snapshot[j].status # "completed"
    BY DEF OutcomesAreReal
  <2>3. CASE j = k
    BY <1>2, <1>6, <2>1, <2>2, <2>3
  <2>4. CASE j # k
    BY <1>2, <1>5, <2>1, <2>2, <2>4 DEF OutcomesAreReal
  <2>. QED
    BY <2>3, <2>4
<1>. QED
  BY <1>7 DEF OutcomesAreReal

\* and opening again makes nothing up.
LEMMA OpenReal ==
  ASSUME TypeOK, ReceiptsAgree, OutcomesAreReal, Open
  PROVE  OutcomesAreReal'
<1>1. PICK evicted : LET loaded == Without(Promoted(file), evicted)
                     IN  \/ records' = loaded /\ file' = loaded
                         \/ file' \in {file, loaded} /\ UNCHANGED records
  BY DEF Open
<1>2. \A k \in Keys : Without(Promoted(file), evicted)[k].status = "completed" =>
                       file[k].status = "completed"
  BY DEF Without, Promoted, Receipt, NoReceipt
<1>3. UNCHANGED <<stage, snapshot, ran>> /\ \A k \in Keys : stage[k] = "idle"
  BY DEF Open, ReceiptsAgree, Quiet, callVars
<1>. QED
  BY <1>1, <1>2, <1>3 DEF OutcomesAreReal

\* Every step tells only what is so.
LEMMA NextReal ==
  ASSUME TypeOK, ReceiptsAgree, OutcomesAreReal, [Next]_vars
  PROVE  OutcomesAreReal'
<1>1. ASSUME NEW k \in Keys, NEW s \in Requests, Execute(k, s)
      PROVE  OutcomesAreReal'
  <2>1. CASE ExecuteJoins(k, s) \/ ExecuteAnsweredByReceipt(k, s)
    BY <2>1 DEF ExecuteJoins, ExecuteAnsweredByReceipt, OutcomesAreReal,
                callVars, diskVars, history
  <2>2. CASE ExecuteResumes(k, s)
    <3>1. s # None
      BY LedgerAssumption
    <3>. QED
      BY <2>2, <3>1 DEF ExecuteResumes, StartOperation, OutcomesAreReal, TypeOK, diskVars
  <2>3. CASE ExecuteFirst(k, s)
    BY <2>3 DEF ExecuteFirst, OutcomesAreReal, TypeOK, Receipt, diskVars
  <2>. QED
    BY <1>1, <2>1, <2>2, <2>3 DEF Execute
<1>2. ASSUME NEW k \in Keys, OperationThrows(k)
      PROVE  OutcomesAreReal'
  BY <1>2 DEF OperationThrows, OutcomesAreReal, TypeOK, Receipt, diskVars, history
<1>3. CASE BeginWrite
  BY <1>3 DEF BeginWrite, OutcomesAreReal, callVars, history
<1>4. CASE Crash
  BY <1>4 DEF Crash, Renamed, NotRenamed, OutcomesAreReal, NoReceipts, NoReceipt
<1>5. CASE SetClock \/ UNCHANGED vars
  BY <1>5 DEF SetClock, vars, OutcomesAreReal, callVars, diskVars, history
<1>. QED
  BY <1>1, <1>2, <1>3, <1>4, <1>5, ReturnsReal, EndWriteReal, OpenReal DEF Next, Operation

(* A completed receipt is never the receipt of an operation that did not    *)
(* run, wherever a crash or a failed write leaves it.                       *)
THEOREM OutcomesAlwaysReal == Spec => []OutcomesAreReal
<1>1. TypeOK /\ ReceiptsAgree /\ OutcomesAreReal /\ [Next]_vars => OutcomesAreReal'
  BY NextReal
<1>. QED
  BY <1>1, InitReal, TypeCorrect, ReceiptsAlwaysAgree, PTL DEF Spec

(* How the phase of a key follows from the state.                           *)
LEMMA PhaseCases ==
  ASSUME NEW k \in Keys
  PROVE  LET receipt == IF ledger = "open" THEN records[k] ELSE file[k]
         IN  /\ phases[k] = PhaseOf(k)
             /\ phases[k] \in Promise!Phases
             /\ ran[k] = None => phases[k] = "fresh"
             /\ ran[k] # None /\ stage[k] = "running" => phases[k] = "running"
             /\ ran[k] # None /\ stage[k] # "running" =>
                  /\ pruned[k] => phases[k] = "forgotten"
                  /\ ~pruned[k] => phases[k] = IF receipt.status = "completed"
                                                THEN "done" ELSE "doubt"
BY DEF phases, PhaseOf, Promise!Phases

(* A step that changes no phase and tells nothing is a stutter, one that    *)
(* answers a caller is an Answer.                                           *)
LEMMA PhasesKept ==
  ASSUME \A k \in Keys : PhaseOf(k)' = PhaseOf(k)
  PROVE  phases' = phases
BY DEF phases

(* The phase of a key depends on the ledger being open, its receipt, stage, *)
(* and history.                                                             *)
LEMMA SamePhase ==
  ASSUME NEW k \in Keys, UNCHANGED ledger,
         ledger = "open" => records'[k] = records[k],
         ledger # "open" => file'[k] = file[k],
         stage[k] = "running" <=> stage'[k] = "running",
         ran'[k] = ran[k], pruned[k] <=> pruned'[k]
  PROVE  PhaseOf(k)' = PhaseOf(k)
BY DEF PhaseOf

\* At first the promise has nothing to keep.
LEMMA InitPromise == Init => Promise!Init
BY DEF Init, Promise!Init, phases, PhaseOf, Answer

\* A call that arrives is a step of the promise: it starts, or is told what
\* is known.
LEMMA ExecuteKeepsPromise ==
  ASSUME TypeOK, ReceiptsAgree, OutcomesAreReal,
         NEW k \in Keys, NEW s \in Requests, Execute(k, s)
  PROVE  [Promise!Next]_<<phases, ran, told>>
<1>0. ReceiptOfCall(k) /\ ReceiptIsKept(k)
  BY DEF ReceiptsAgree
<1>1. CASE ExecuteJoins(k, s)
  <2>1. phases' = phases /\ UNCHANGED ran
    BY <1>1 DEF ExecuteJoins, callVars, diskVars, history, phases, PhaseOf
  <2>2. told' = told \/ told' = Answer(k, "conflict")
    BY <1>1 DEF ExecuteJoins
  <2>. QED
    BY <2>1, <2>2 DEF Promise!Next, Promise!Answer, Answer
<1>2. CASE ExecuteAnsweredByReceipt(k, s)
  <2>1. phases' = phases /\ UNCHANGED ran
    BY <1>2 DEF ExecuteAnsweredByReceipt, callVars, diskVars, history, phases, PhaseOf
  <2>2. \/ told' = Answer(k, "conflict") \/ told' = Answer(k, "unknown")
        \/ told' = Answer(k, "result") /\ records[k].status = "completed"
    BY <1>2 DEF ExecuteAnsweredByReceipt
  <2>3. records[k].status = "completed" => phases[k] \in {"done", "forgotten"}
    <3>1. ledger = "open" /\ stage[k] = "idle"
      BY <1>2 DEF ExecuteAnsweredByReceipt
    <3>. QED
      BY <3>1, PhaseCases DEF OutcomesAreReal
  <2>4. Promise!Answer(k)
    BY <2>1, <2>2, <2>3 DEF Promise!Answer, Answer
  <2>. QED
    BY <2>4 DEF Promise!Next
<1>3. CASE ExecuteResumes(k, s)
  <2>1. /\ stage' = [stage EXCEPT ![k] = "running"] /\ ran' = [ran EXCEPT ![k] = s]
        /\ pruned' = [pruned EXCEPT ![k] = @ /\ file[k].sha # s]
        /\ UNCHANGED <<ledger, records, told>>
        /\ ledger = "open" /\ stage[k] = "idle" /\ records[k].sha = s
        /\ records[k].status # "completed" /\ s \in Recoverable
    BY <1>3 DEF ExecuteResumes, StartOperation
  <2>2. \/ phases[k] \in {"fresh", "forgotten"}
        \/ phases[k] = "doubt" /\ s = ran[k] /\ s \in Recoverable
    BY <1>0, <2>1, PhaseCases DEF ReceiptIsKept, Held
  <2>3. PhaseOf(k)' = "running"
    <3>1. ran'[k] # None /\ stage'[k] = "running"
      BY <2>1, LedgerAssumption DEF TypeOK
    <3>. QED
      BY <3>1 DEF PhaseOf
  <2>4. \A j \in Keys \ {k} : PhaseOf(j)' = PhaseOf(j)
    <3>1. \A j \in Keys \ {k} : stage'[j] = stage[j] /\ ran'[j] = ran[j]
                                /\ (pruned[j] <=> pruned'[j]) /\ records'[j] = records[j]
      BY <2>1 DEF TypeOK
    <3>. QED
      BY <2>1, <3>1, SamePhase
  <2>5. phases' = [phases EXCEPT ![k] = "running"]
    BY <2>3, <2>4 DEF phases
  <2>6. Promise!Start(k, s)
    BY <2>1, <2>2, <2>5 DEF Promise!Start
  <2>. QED
    BY <2>6 DEF Promise!Next
<1>4. CASE ExecuteFirst(k, s)
  <2>1. /\ UNCHANGED <<ledger, ran, pruned, told>> /\ ledger = "open" /\ ~Has(records, k)
        /\ stage[k] = "idle" /\ stage' = [stage EXCEPT ![k] = "write-ahead"]
        /\ \A j \in Keys \ {k} : records'[j] = records[j]
    BY <1>4 DEF ExecuteFirst, TypeOK
  <2>2. stage'[k] = "write-ahead" /\ \A j \in Keys \ {k} : stage'[j] = stage[j]
    BY <2>1 DEF TypeOK
  <2>3. ran[k] = None \/ pruned[k]
    BY <1>0, <2>1 DEF ReceiptIsKept, Held
  <2>4. PhaseOf(k)' = PhaseOf(k)
    BY <2>1, <2>2, <2>3 DEF PhaseOf
  <2>5. \A j \in Keys \ {k} : PhaseOf(j)' = PhaseOf(j)
    BY <2>1, <2>2, SamePhase
  <2>. QED
    BY <2>1, <2>4, <2>5, PhasesKept
<1>. QED
  BY <1>1, <1>2, <1>3, <1>4 DEF Execute

(* The end of an operation, with the receipts it prunes to make room.       *)
LEMMA ReturnsKeepsPromise ==
  ASSUME TypeOK, ReceiptsAgree, OutcomesAreReal, NEW k \in Keys, OperationReturns(k)
  PROVE  [Promise!Next]_<<phases, ran, told>>
<1>. DEFINE done == [records EXCEPT ![k] = Receipt(asked[k], "completed", clock)]
<1>1. PICK evicted \in Evictions(done, {k}) :
        /\ records' = Without(done, evicted)
        /\ pruned' = [j \in Keys |-> j \in evicted \/ pruned[j]]
  BY DEF OperationReturns
<1>2. /\ UNCHANGED <<ledger, ran, told>> /\ stage[k] = "running"
      /\ stage' = [stage EXCEPT ![k] = "commit"]
  BY DEF OperationReturns
<1>3. k \notin evicted /\ evicted \subseteq Completed(done)
  BY <1>1, EvictionsAreCompleted
<1>4. done[k].status = "completed" /\ \A j \in Keys \ {k} : done[j] = records[j]
  BY DEF TypeOK, Receipt
<1>. HIDE DEF done
<1>5. ledger = "open" /\ ran[k] # None
  BY <1>2 DEF ReceiptsAgree, Quiet, ReceiptOfCall
<1>6. phases[k] = "running"
  BY <1>2, <1>5, PhaseCases
<1>7. phases'[k] = IF pruned[k] THEN "forgotten" ELSE "done"
  <2>1. /\ records'[k].status = "completed" /\ stage'[k] = "commit"
        /\ (pruned[k] <=> pruned'[k])
    BY <1>1, <1>2, <1>3, <1>4 DEF Without, TypeOK
  <2>. QED
    BY <1>2, <1>5, <2>1 DEF phases, PhaseOf
<1>. DEFINE gone == {j \in evicted : ~pruned[j]}
<1>8. gone \in SUBSET {j \in Keys : phases[j] = "done"}
  <2>. SUFFICES ASSUME NEW j \in evicted, ~pruned[j] PROVE j \in Keys /\ phases[j] = "done"
    OBVIOUS
  <2>1. j \in Keys /\ j # k /\ records[j].status = "completed"
    BY <1>3, <1>4 DEF Completed
  <2>2. stage[j] # "running" /\ ran[j] # None
    BY <2>1 DEF ReceiptsAgree, ReceiptOfCall, OutcomesAreReal
  <2>. QED
    BY <1>5, <2>1, <2>2, PhaseCases
<1>9. ASSUME NEW j \in Keys \ {k}
      PROVE  phases'[j] = IF j \in gone THEN "forgotten" ELSE phases[j]
  <2>1. stage'[j] = stage[j]
    BY <1>2 DEF TypeOK
  <2>2. CASE j \in evicted
    <3>1. records[j].status = "completed" /\ pruned'[j]
      BY <1>1, <1>3, <1>4, <2>2 DEF Completed
    <3>2. stage[j] # "running" /\ ran[j] # None
      BY <3>1 DEF ReceiptsAgree, ReceiptOfCall, OutcomesAreReal
    <3>3. phases'[j] = "forgotten"
      BY <1>2, <2>1, <3>1, <3>2 DEF phases, PhaseOf
    <3>4. pruned[j] => phases[j] = "forgotten"
      BY <3>2, PhaseCases
    <3>. QED
      BY <2>2, <3>3, <3>4
  <2>3. CASE j \notin evicted
    <3>1. records'[j] = records[j] /\ (pruned[j] <=> pruned'[j])
      BY <1>1, <1>4, <2>3 DEF Without, TypeOK
    <3>2. PhaseOf(j)' = PhaseOf(j)
      BY <1>2, <1>5, <2>1, <3>1, SamePhase
    <3>. QED
      BY <2>3, <3>2 DEF phases
  <2>. QED
    BY <2>2, <2>3
<1>. HIDE DEF gone
<1>10. k \notin gone
  BY <1>3 DEF gone
<1>11. CASE ~pruned[k]
  <2>1. phases' = [j \in Keys |-> IF j = k THEN "done"
                                  ELSE IF j \in gone THEN "forgotten" ELSE phases[j]]
    BY <1>7, <1>9, <1>11 DEF phases
  <2>2. Promise!Finish(k)
    BY <1>2, <1>6, <1>8, <2>1 DEF Promise!Finish
  <2>. QED
    BY <2>2 DEF Promise!Next
<1>12. CASE pruned[k]
  <2>1. phases' = [j \in Keys |-> IF j \in gone \union {k} THEN "forgotten" ELSE phases[j]]
    BY <1>7, <1>9, <1>12 DEF phases
  <2>2. ran[k] \in Recoverable
    BY <1>2, <1>12 DEF OutcomesAreReal
  <2>3. Promise!FinishForgotten(k)
    BY <1>2, <1>6, <1>8, <2>1, <2>2 DEF Promise!FinishForgotten
  <2>. QED
    BY <2>3 DEF Promise!Next
<1>. QED
  BY <1>11, <1>12

\* An operation that throws is in doubt, or fresh again if it says that
\* nothing ran.
LEMMA ThrowsKeepsPromise ==
  ASSUME TypeOK, ReceiptsAgree, OutcomesAreReal, NEW k \in Keys, OperationThrows(k)
  PROVE  [Promise!Next]_<<phases, ran, told>>
<1>1. /\ UNCHANGED <<ledger, ran, pruned, told>> /\ stage[k] = "running"
      /\ stage'[k] = "doubt" /\ records'[k].status = "outcome_unknown"
      /\ \A j \in Keys \ {k} : stage'[j] = stage[j] /\ records'[j] = records[j]
  BY DEF OperationThrows, TypeOK, Receipt, history
<1>2. ledger = "open" /\ ran[k] # None
  BY <1>1 DEF ReceiptsAgree, Quiet, ReceiptOfCall
<1>3. phases[k] = "running"
  BY <1>1, <1>2, PhaseCases
<1>4. phases'[k] = IF pruned[k] THEN "forgotten" ELSE "doubt"
  BY <1>1, <1>2 DEF phases, PhaseOf
<1>5. \A j \in Keys \ {k} : PhaseOf(j)' = PhaseOf(j)
  BY <1>1, <1>2, SamePhase
<1>6. CASE ~pruned[k]
  <2>1. phases' = [phases EXCEPT ![k] = "doubt"]
    BY <1>4, <1>5, <1>6 DEF phases
  <2>2. Promise!Doubt(k)
    BY <1>1, <1>3, <2>1 DEF Promise!Doubt
  <2>. QED
    BY <2>2 DEF Promise!Next
<1>7. CASE pruned[k]
  <2>1. phases' = [j \in Keys |-> IF j \in {} \union {k} THEN "forgotten" ELSE phases[j]]
    BY <1>4, <1>5, <1>7 DEF phases
  <2>2. ran[k] \in Recoverable
    BY <1>1, <1>7 DEF OutcomesAreReal
  <2>3. Promise!FinishForgotten(k)
    BY <1>1, <1>3, <2>1, <2>2 DEF Promise!FinishForgotten
  <2>. QED
    BY <2>3 DEF Promise!Next
<1>. QED
  BY <1>6, <1>7

(* The end of a write starts an operation, commits a result, or gives up:   *)
(* the phase of no other key changes, since memory rules while it is open.  *)
LEMMA EndWriteKeepsPromise ==
  ASSUME TypeOK, ReceiptsAgree, OutcomesAreReal, EndWrite
  PROVE  [Promise!Next]_<<phases, ran, told>>
<1>1. PICK k : /\ k = Head(writes)
               /\ \/ WriteAheadDone(k) \/ CommitDone(k) \/ CleanupEnds(k)
                  \/ WriteAheadFails(k) \/ CommitFails(k)
  BY DEF EndWrite
<1>2. ledger = "open" /\ UNCHANGED ledger
  BY DEF EndWrite
<1>3. k \in Keys
  BY <1>1 DEF EndWrite, ReceiptsAgree, Quiet, TypeOK
<1>4. ReceiptOfCall(k) /\ ReceiptIsKept(k)
  BY <1>3 DEF ReceiptsAgree
<1>5. \A j \in Keys \ {k} : PhaseOf(j)' = PhaseOf(j)
  <2>1. \A j \in Keys \ {k} : /\ stage'[j] = stage[j] /\ records'[j] = records[j]
                              /\ ran'[j] = ran[j] /\ (pruned[j] <=> pruned'[j])
    BY <1>1, <1>3 DEF WriteAheadDone, StartOperation, CommitDone, CleanupEnds, Settle,
                      WriteAheadFails, CommitFails, TypeOK
  <2>. QED
    BY <1>2, <2>1, SamePhase
<1>6. CASE WriteAheadDone(k)
  <2>1. /\ stage[k] = "write-ahead" /\ stage'[k] = "running"
        /\ ran' = [ran EXCEPT ![k] = asked[k]] /\ ran'[k] = asked[k] /\ UNCHANGED told
    BY <1>3, <1>6 DEF WriteAheadDone, StartOperation, TypeOK
  <2>2. asked[k] \in Requests /\ asked[k] # None
    BY <1>3, <1>4, <2>1 DEF ReceiptOfCall, TypeOK
  <2>3. phases[k] \in {"fresh", "forgotten"}
    BY <1>3, <1>4, <2>1, PhaseCases DEF ReceiptOfCall, Held
  <2>4. PhaseOf(k)' = "running"
    BY <2>1, <2>2 DEF PhaseOf
  <2>5. phases' = [phases EXCEPT ![k] = "running"]
    BY <1>3, <1>5, <2>4 DEF phases
  <2>6. Promise!Start(k, asked[k])
    BY <2>1, <2>3, <2>5 DEF Promise!Start
  <2>. QED
    BY <1>3, <2>2, <2>6 DEF Promise!Next
<1>7. CASE CommitDone(k) \/ CleanupEnds(k)
  <2>1. /\ UNCHANGED <<records, ran, pruned>> /\ stage'[k] = "idle"
        /\ stage[k] \in {"commit", "doubt", "commit-failed", "write-ahead-failed"}
        /\ \/ told' = Answer(k, "result") /\ stage[k] = "commit"
           \/ told' = Answer(k, "unknown")
           \/ told' = Answer(k, "not run") /\ stage[k] = "write-ahead-failed"
    BY <1>3, <1>7 DEF CommitDone, CleanupEnds, Settle, TypeOK
  <2>2. PhaseOf(k)' = PhaseOf(k)
    BY <1>2, <1>3, <2>1, SamePhase
  <2>3. phases' = phases
    BY <1>5, <2>2, PhasesKept
  <2>4. stage[k] = "commit" => phases[k] \in {"done", "forgotten"}
    <3>1. stage[k] = "commit" => ran[k] # None /\ (records[k].status = "completed" \/ pruned[k])
      BY <1>3, <1>4 DEF OutcomesAreReal, ReceiptOfCall
    <3>. QED
      BY <1>2, <1>3, <3>1, PhaseCases
  <2>5. stage[k] = "write-ahead-failed" => phases[k] \in {"fresh", "forgotten"}
    BY <1>3, <1>4, PhaseCases DEF ReceiptOfCall, Held
  <2>6. Promise!Answer(k)
    BY <2>1, <2>3, <2>4, <2>5 DEF Promise!Answer, Answer
  <2>. QED
    BY <1>3, <2>6 DEF Promise!Next
<1>8. CASE WriteAheadFails(k)
  <2>1. /\ UNCHANGED <<ran, pruned, told>> /\ stage[k] = "write-ahead"
        /\ stage'[k] = "write-ahead-failed"
    BY <1>3, <1>8 DEF WriteAheadFails, TypeOK
  <2>2. PhaseOf(k)' = PhaseOf(k)
    BY <1>4, <2>1 DEF ReceiptOfCall, Held, PhaseOf
  <2>. QED
    BY <1>5, <2>1, <2>2, PhasesKept
<1>9. CASE CommitFails(k)
  <2>1. /\ UNCHANGED <<ran, pruned, told>> /\ stage[k] = "commit"
        /\ stage'[k] = "commit-failed" /\ records'[k].status = "outcome_unknown"
    BY <1>3, <1>9 DEF CommitFails, TypeOK, Receipt
  <2>2. ran[k] # None /\ (records[k].status = "completed" \/ pruned[k])
    BY <1>3, <1>4, <2>1 DEF OutcomesAreReal, ReceiptOfCall
  <2>3. CASE pruned[k]
    <3>1. PhaseOf(k)' = PhaseOf(k)
      BY <2>1, <2>2, <2>3 DEF PhaseOf
    <3>. QED
      BY <1>5, <2>1, <3>1, PhasesKept
  <2>4. CASE ~pruned[k]
    <3>1. phases[k] = "done"
      BY <1>2, <1>3, <2>1, <2>2, <2>4, PhaseCases
    <3>2. PhaseOf(k)' = "doubt"
      BY <1>2, <2>1, <2>2, <2>4 DEF PhaseOf
    <3>3. phases' = [phases EXCEPT ![k] = "doubt"]
      BY <1>3, <1>5, <3>2 DEF phases
    <3>4. Promise!Doubt(k)
      BY <2>1, <3>1, <3>3 DEF Promise!Doubt
    <3>. QED
      BY <1>3, <3>4 DEF Promise!Next
  <2>. QED
    BY <2>3, <2>4
<1>. QED
  BY <1>1, <1>6, <1>7, <1>8, <1>9

(* A crash is a Restart: the file decides what became of each key.          *)
LEMMA CrashKeepsPromise ==
  ASSUME TypeOK, ReceiptsAgree, OutcomesAreReal, Crash
  PROVE  Promise!Restart
<1>1. /\ ledger' = "closed" /\ \A k \in Keys : stage'[k] = "idle"
      /\ UNCHANGED <<ran, pruned, told>>
      /\ file' = file \/ (writing /\ file' = snapshot)
  BY DEF Crash, Renamed, NotRenamed
<1>2. phases' \in [Keys -> Promise!Phases]
  BY DEF phases, PhaseOf, Promise!Phases
<1>3. ASSUME NEW k \in Keys
      PROVE  \/ phases'[k] = phases[k]
             \/ phases[k] = "running" /\ phases'[k] = "doubt"
             \/ /\ phases[k] = "running" /\ ran[k] \in Recoverable
                /\ phases'[k] \in {"done", "forgotten"}
             \/ phases[k] = "done" /\ phases'[k] \in {"doubt", "forgotten"}
             \/ phases[k] = "doubt" /\ phases'[k] = "done"
  <2>1. phases'[k] = IF ran[k] = None THEN "fresh"
                     ELSE IF pruned[k] THEN "forgotten"
                     ELSE IF file'[k].status = "completed" THEN "done" ELSE "doubt"
    BY <1>1 DEF phases, PhaseOf
  <2>2. CASE ran[k] = None \/ stage[k] # "running"
    BY <2>1, <2>2, PhaseCases
  <2>3. CASE ran[k] # None /\ stage[k] = "running" /\ ran[k] \in Recoverable
    BY <2>1, <2>3, PhaseCases
  <2>4. CASE ran[k] # None /\ stage[k] = "running" /\ ran[k] \notin Recoverable
    <3>1. ran[k] = asked[k] /\ ~pruned[k]
      BY <2>4 DEF ReceiptsAgree, ReceiptOfCall, OutcomesAreReal
    <3>2. file'[k].status # "completed"
      BY <1>1, <2>4, <3>1 DEF ReceiptsAgree, WriteAhead, SnapshotIsCurrent
    <3>. QED
      BY <2>1, <2>4, <3>1, <3>2, PhaseCases
  <2>. QED
    BY <2>2, <2>3, <2>4
<1>. QED
  BY <1>1, <1>2, <1>3 DEF Promise!Restart

(* So is a reopening, with or without a file it could write.                *)
LEMMA OpenKeepsPromise ==
  ASSUME TypeOK, ReceiptsAgree, OutcomesAreReal, Open
  PROVE  Promise!Restart
<1>. DEFINE loaded(evicted) == Without(Promoted(file), evicted)
<1>1. PICK evicted \in Evictions(Promoted(file), {}) :
        \/ /\ ledger' = "open" /\ records' = loaded(evicted)
           /\ pruned' = [k \in Keys |->
                k \in evicted \/ (pruned[k] /\ loaded(evicted)[k].sha # ran[k])]
        \/ /\ ledger' = "broken" /\ file' \in {file, loaded(evicted)}
           /\ pruned' = [k \in Keys |->
                pruned[k] \/ (k \in evicted /\ file' = loaded(evicted))]
  BY DEF Open
<1>2. /\ ledger = "closed" /\ \A k \in Keys : stage[k] = "idle" /\ stage'[k] = "idle"
      /\ UNCHANGED <<ran, told>>
  BY DEF Open, ReceiptsAgree, Quiet, callVars
<1>3. ASSUME NEW k \in Keys
      PROVE  /\ k \in evicted => file[k].status = "completed"
             /\ k \notin evicted => (loaded(evicted)[k].status = "completed"
                                       <=> file[k].status = "completed")
  <2>1. k \in evicted => k \in Completed(Promoted(file))
    BY EvictionsAreCompleted
  <2>2. Promoted(file)[k].status = "completed" <=> file[k].status = "completed"
    BY DEF Promoted, Receipt
  <2>. QED
    BY <2>1, <2>2 DEF Completed, Without
<1>. HIDE DEF loaded
<1>4. phases' \in [Keys -> Promise!Phases]
  BY DEF phases, PhaseOf, Promise!Phases
<1>5. ASSUME NEW k \in Keys
      PROVE  \/ phases'[k] = phases[k]
             \/ phases[k] = "done" /\ phases'[k] \in {"doubt", "forgotten"}
             \/ phases[k] = "forgotten" /\ phases'[k] \in {"doubt", "done"}
  <2>1. phases[k] = IF ran[k] = None THEN "fresh"
                    ELSE IF pruned[k] THEN "forgotten"
                    ELSE IF file[k].status = "completed" THEN "done" ELSE "doubt"
    BY <1>2, PhaseCases
  <2>2. CASE ledger' = "open" /\ records' = loaded(evicted)
    <3>1. phases'[k] = IF ran[k] = None THEN "fresh"
                       ELSE IF pruned'[k] THEN "forgotten"
                       ELSE IF loaded(evicted)[k].status = "completed" THEN "done" ELSE "doubt"
      BY <1>2, <2>2 DEF phases, PhaseOf
    <3>2. pruned'[k] <=> k \in evicted \/ (pruned[k] /\ loaded(evicted)[k].sha # ran[k])
      BY <1>1, <2>2
    <3>. QED
      BY <1>3, <2>1, <3>1, <3>2
  <2>3. CASE ledger' = "broken" /\ file' \in {file, loaded(evicted)}
    <3>1. phases'[k] = IF ran[k] = None THEN "fresh"
                       ELSE IF pruned'[k] THEN "forgotten"
                       ELSE IF file'[k].status = "completed" THEN "done" ELSE "doubt"
      BY <1>2, <2>3 DEF phases, PhaseOf
    <3>2. pruned'[k] <=> pruned[k] \/ (k \in evicted /\ file' = loaded(evicted))
      BY <1>1, <2>3
    <3>. QED
      BY <1>3, <2>1, <2>3, <3>1, <3>2
  <2>. QED
    BY <1>1, <2>2, <2>3
<1>. QED
  BY <1>2, <1>4, <1>5 DEF Promise!Restart

\* Every step of the ledger is one of the promise, or a stutter.
LEMMA NextKeepsPromise ==
  ASSUME TypeOK, ReceiptsAgree, OutcomesAreReal, [Next]_vars
  PROVE  [Promise!Next]_<<phases, ran, told>>
<1>1. CASE BeginWrite
  BY <1>1 DEF BeginWrite, callVars, history, phases, PhaseOf
<1>2. CASE SetClock \/ UNCHANGED vars
  BY <1>2 DEF SetClock, vars, callVars, diskVars, history, phases, PhaseOf
<1>3. CASE Crash
  BY <1>3, CrashKeepsPromise DEF Promise!Next
<1>4. CASE Open
  BY <1>4, OpenKeepsPromise DEF Promise!Next
<1>. QED
  BY <1>1, <1>2, <1>3, <1>4, ExecuteKeepsPromise, ReturnsKeepsPromise, ThrowsKeepsPromise,
     EndWriteKeepsPromise DEF Next, Operation

(* The ledger implements OnceOnly: with its files, write-ahead, pruning,    *)
(* failed writes, crashes and reopenings hidden, callers see an operation   *)
(* that runs once per key, is in doubt when the process lost track of it,   *)
(* and runs again only when it is recoverable or its receipt is forgotten.  *)
THEOREM KeepsItsPromise == Spec => ImplementsOnceOnly
<1>1. TypeOK /\ ReceiptsAgree /\ OutcomesAreReal /\ [Next]_vars
        => [Promise!Next]_<<phases, ran, told>>
  BY NextKeepsPromise
<1>. QED
  BY <1>1, InitPromise, TypeCorrect, ReceiptsAlwaysAgree, OutcomesAlwaysReal, PTL
     DEF Spec, ImplementsOnceOnly, Promise!Spec
=============================================================================
