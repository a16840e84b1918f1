------------------------------ MODULE OwedTimes ------------------------------
(***************************************************************************)
(* What the scheduler promises about the times of a schedule, without      *)
(* timers, checks, chains or files: a time that comes is owed a decision,  *)
(* one decision settles every time owed so far and is never made where     *)
(* nothing is owed.  What somebody did by hand may excuse a time.  When    *)
(* the process dies, times may be owed again, but none of those the file   *)
(* already knows to be settled.                                            *)
(*                                                                         *)
(* There is one exception: an edit does not wait for the decisions that    *)
(* are under way.  One that an edit overtook may be made although nothing  *)
(* is owed, and may leave the file ahead of what it is written from, which *)
(* then may make it forget that a time was settled.                        *)
(***************************************************************************)
EXTENDS Naturals

VARIABLES
  owed,       \* times that came and are not settled
  excused,    \* times that may be settled, or not
  known,      \* times the file knows to be settled
  made,       \* the number of decisions
  overtaken,  \* is a decision under way that an edit has overtaken?
  ahead       \* did such a decision leave the file ahead?

vars == <<owed, excused, known, made, overtaken, ahead>>

Init ==
  /\ owed = {} /\ excused = {} /\ known = {} /\ made = 0
  /\ overtaken = FALSE /\ ahead = FALSE

\* Only an edit overtakes a decision.
NoneOvertaken == overtaken' \in BOOLEAN /\ (overtaken' => overtaken)
NotAhead      == ahead' \in BOOLEAN /\ (ahead' => ahead)

\* Time goes on: later times are added.
Come ==
  /\ owed \subseteq owed' /\ owed' \subseteq Nat
  /\ \A t \in owed' \ owed : \A u \in owed \cup excused \cup known : t > u
  /\ UNCHANGED <<excused, known, made, overtaken, ahead>>

\* One decision for all the times that came until some moment; for none of
\* them, if an edit has overtaken it.
Settle ==
  /\ \E last \in owed \cup excused \cup (IF overtaken THEN {0} ELSE {}) :
       /\ owed' = {t \in owed : t > last}
       /\ excused' = {t \in excused : t > last}
  /\ made' = made + 1
  /\ UNCHANGED known /\ NoneOvertaken
  /\ ahead' \in BOOLEAN /\ (ahead' => ahead \/ overtaken)

\* What is owed need not be settled any more.
Excuses ==
  /\ owed' \subseteq owed /\ excused' = excused \cup (owed \ owed')
  /\ UNCHANGED <<known, made>> /\ NotAhead

\* A run by hand, the start of a pass.
Excuse == Excuses /\ NoneOvertaken

\* An edit, a switch, and what they arm.
Edit == Excuses /\ overtaken' \in BOOLEAN

\* The file is written.
Write ==
  /\ known \subseteq known' \/ ahead
  /\ UNCHANGED <<owed, excused, made>> /\ NoneOvertaken /\ NotAhead

Crash ==
  /\ owed' \cap known' = {} /\ excused' = {} /\ known \subseteq known'
  /\ ~overtaken' /\ ~ahead' /\ UNCHANGED made

Next == Come \/ Settle \/ Excuse \/ Edit \/ Write \/ Crash
Spec == Init /\ [][Next]_vars
=============================================================================
