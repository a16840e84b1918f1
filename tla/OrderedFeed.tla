----------------------------- MODULE OrderedFeed -----------------------------
(***************************************************************************)
(* What the event log promises a subscriber, without buffers, queues,      *)
(* files or restarts: a feed that tells what happened in the order it was  *)
(* emitted, each event at most once, under numbers that only grow.  An     *)
(* event may be lost, but it is never told late.                           *)
(***************************************************************************)
EXTENDS Naturals, Sequences, SequencesExt

VARIABLES
  emitted,  \* how many events were emitted; event e is the e-th of them
  feed      \* the events told so far, each with its number

Ordered(f) ==
  \A i, j \in DOMAIN f : i < j => f[i].ev < f[j].ev /\ f[i].seq < f[j].seq

Init == emitted = 0 /\ feed = <<>>

Emit == emitted' \in Nat /\ emitted' > emitted /\ UNCHANGED feed

\* Some events follow those that were told.
Tell ==
  /\ IsStrictPrefix(feed, feed')
  /\ Ordered(feed')
  /\ \A i \in DOMAIN feed' : feed'[i].ev <= emitted
  /\ UNCHANGED emitted

Next == Emit \/ Tell
Spec == Init /\ [][Next]_<<emitted, feed>>
=============================================================================
