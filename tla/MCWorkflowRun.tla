---------------------------- MODULE MCWorkflowRun ----------------------------
(* Small instances of WorkflowRun for TLC. *)
EXTENDS WorkflowRun

CONSTANT v1

MCKeys == {"a", "b", "b2", "c", "check"}

\* Version 1 races a and b, and has b checked if it wins.  Version 2 words b in
\* another way, adds c and takes the first answer.  Version 3 asks in turn.
BWins(sent) == sent[1].key = "b"
MCFirst == <<<<"a", "b">>, <<"a", "b2", "c">>, <<"a">>>>
MCCalls(v, sent) ==
  CASE sent = <<>>                             -> MCFirst[v]
    [] Len(sent) = 1 /\ v = 1 /\ BWins(sent) -> <<"check">>
    [] Len(sent) = 1 /\ v = 3                 -> <<"b">>
    [] OTHER                                 -> <<>>

\* It returns when it has the answers it wants.  A thrown answer fails version
\* 1, and makes the others wait for something that never comes.
MCOver(v, sent) ==
  LET wanted == CASE v = 1 -> IF sent # <<>> /\ BWins(sent) THEN 3 ELSE 2
                  [] v = 2 -> 1
                  [] v = 3 -> 2
  IN IF \E i \in DOMAIN sent : sent[i].thrown
     THEN IF v = 1 THEN "failed" ELSE "no"
     ELSE IF Len(sent) >= wanted THEN "complete" ELSE "no"
==============================================================================
