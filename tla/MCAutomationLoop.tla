--------------------------- MODULE MCAutomationLoop ---------------------------
(* Automations of each kind: with a check before or after a pass, in a copy. *)
EXTENDS AutomationLoop

Plain(kind) == [kind |-> kind, until |-> FALSE, precheck |-> FALSE, own |-> FALSE]
Kinds ==
  {Plain("continuous"),
   [Plain("cadence") EXCEPT !.precheck = TRUE],
   [Plain("continuous") EXCEPT !.until = TRUE],
   [Plain("count") EXCEPT !.precheck = TRUE, !.own = TRUE]}
=============================================================================
