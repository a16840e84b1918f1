-------------------------- MODULE MCTerminalLeases --------------------------
(* Instances of TerminalLeases for TLC. *)
EXTENDS TerminalLeases, TLC

CONSTANTS phone, tablet, c1, c2, c3, r1, r2, t1, t2, q1

\* The phone has two sessions (it reconnects), the tablet one.
MCOwnerOf == [c \in Connections |-> IF c = c3 THEN tablet ELSE phone]
=============================================================================
