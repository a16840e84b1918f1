------------------------------ MODULE OnceOnly ------------------------------
(***************************************************************************)
(* What the mutation ledger promises a retrying phone, without files,      *)
(* writes or promises.  Under every key an operation runs once.  When the  *)
(* process loses track of it the outcome is in doubt, and an operation in  *)
(* doubt never runs again unless it is recoverable.  The promise ends when *)
(* the receipt of a completed operation is pruned ("forgotten").           *)
(***************************************************************************)
CONSTANTS Keys, Requests, Recoverable, None

VARIABLES
  phase,  \* what happened under each key
  ran,    \* the request that ran last
  told    \* the last answer, with its key

Phases == {"fresh", "running", "done", "doubt", "forgotten"}

Init ==
  /\ phase = [k \in Keys |-> "fresh"]
  /\ ran = [k \in Keys |-> None]
  /\ told = [key |-> None, answer |-> "nothing"]

(* The operation starts: for the first time, after its receipt was          *)
(* forgotten, or again because it can be repeated safely.                   *)
Start(k, s) ==
  /\ \/ phase[k] \in {"fresh", "forgotten"}
     \/ phase[k] = "doubt" /\ s = ran[k] /\ s \in Recoverable
  /\ phase' = [phase EXCEPT ![k] = "running"]
  /\ ran' = [ran EXCEPT ![k] = s]
  /\ UNCHANGED told

(* The operation of k ends well; older receipts may be forgotten to make    *)
(* room, never this one and never one in doubt.                             *)
Finish(k) ==
  /\ phase[k] = "running"
  /\ \E gone \in SUBSET {j \in Keys : phase[j] = "done"} :
       phase' = [j \in Keys |-> IF j = k THEN "done"
                                ELSE IF j \in gone THEN "forgotten" ELSE phase[j]]
  /\ UNCHANGED <<ran, told>>

(* The operation threw, or its receipt could not be made durable.           *)
Doubt(k) ==
  /\ phase[k] \in {"running", "done"}
  /\ phase' = [phase EXCEPT ![k] = "doubt"]
  /\ UNCHANGED <<ran, told>>

(* A repeated operation writes no new receipt, so it may end with the       *)
(* receipt of its first run already forgotten.                              *)
FinishForgotten(k) ==
  /\ phase[k] = "running"
  /\ ran[k] \in Recoverable
  /\ \E gone \in SUBSET {j \in Keys : phase[j] = "done"} :
       phase' = [j \in Keys |-> IF j \in gone \union {k} THEN "forgotten" ELSE phase[j]]
  /\ UNCHANGED <<ran, told>>

(* A crash interrupts what runs, may lose a receipt that was not durable,   *)
(* and may bring back a durable receipt that memory had given up; for an    *)
(* operation that is being repeated that is the receipt of its first run.   *)
Restart ==
  /\ phase' \in [Keys -> Phases]
  /\ \A k \in Keys :
       \/ phase'[k] = phase[k]
       \/ phase[k] = "running" /\ phase'[k] = "doubt"
       \/ /\ phase[k] = "running" /\ ran[k] \in Recoverable
          /\ phase'[k] \in {"done", "forgotten"}
       \/ phase[k] = "done" /\ phase'[k] \in {"doubt", "forgotten"}
       \/ phase[k] = "doubt" /\ phase'[k] = "done"
       \/ phase[k] = "forgotten" /\ phase'[k] \in {"doubt", "done"}
  /\ UNCHANGED <<ran, told>>

(* A caller hears of key k.  "result" means the operation ran to its end,   *)
(* "not run" that this call started nothing.                                *)
Answer(k) ==
  /\ \/ told' = [key |-> k, answer |-> "result"] /\ phase[k] \in {"done", "forgotten"}
     \/ told' = [key |-> k, answer |-> "not run"] /\ phase[k] \in {"fresh", "forgotten"}
     \/ \E a \in {"unknown", "conflict"} : told' = [key |-> k, answer |-> a]
  /\ UNCHANGED <<phase, ran>>

Next ==
  \/ \E k \in Keys, s \in Requests : Start(k, s)
  \/ \E k \in Keys : Finish(k) \/ FinishForgotten(k) \/ Doubt(k) \/ Answer(k)
  \/ Restart

Spec == Init /\ [][Next]_<<phase, ran, told>>
=============================================================================
