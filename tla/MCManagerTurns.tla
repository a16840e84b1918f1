---------------------------- MODULE MCManagerTurns ----------------------------
(* Instances of ManagerTurns for TLC. *)
EXTENDS ManagerTurns, TLC
Symmetry == Permutations(Messages)

\* One message meets all presses and failures; two meet two presses, no call of
\* theirs fails by itself, and no more calls failed than there were Stops.
Sent == {m \in Messages : msgs[m].state # "unsent"}
Failed == {c \in DOMAIN calls : calls[c].state = "failed"}
OneOrTheOther ==
  \/ Cardinality(Sent) <= 1
  \/ /\ clicks <= 2 /\ Cardinality(Failed) <= epoch
     /\ turn.account /\ turn.result \notin {"startup", "failed"}
===============================================================================
