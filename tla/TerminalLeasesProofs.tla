------------------------ MODULE TerminalLeasesProofs ------------------------
(***************************************************************************)
(* Proofs about TerminalLeases for every set of devices, sessions,         *)
(* requests and terminals and every cap.                                   *)
(***************************************************************************)
EXTENDS TerminalLeases, TLAPS

(***************************************************************************)
(* What the invariants say of one terminal, by its lease and its shell.    *)
(***************************************************************************)
LeaseFits(l, shell) ==
  /\ l \in Lease
  /\ shell = "open" <=> l.phase = "live"
  /\ shell = "opening" <=> l.phase = "starting"
  /\ l.phase # "starting" /\ DetachedOrEnded(l) => l.timer
  /\ l.timer => DetachedOrEnded(l)

TerminalFits(t) ==
  /\ leases[t] # None => LeaseFits(leases[t], pty[t])
  /\ leases[t] = None => pty[t] # "open"

AllFit == \A t \in Terminals : TerminalFits(t)

(* The invariants of the runs are that every terminal fits.                 *)
LEMMA FitIsInvariant ==
  ASSUME TypeOK
  PROVE  AllFit <=> ShellsAreLeased /\ UnwatchedHasTimer /\ StartingIsOpening
<1>1. ASSUME NEW t \in Terminals, leases[t] # None
      PROVE  leases[t] \in Lease
  BY <1>1 DEF TypeOK
<1>. QED
  BY <1>1 DEF AllFit, TerminalFits, LeaseFits, ShellsAreLeased, UnwatchedHasTimer,
              StartingIsOpening, Present

-----------------------------------------------------------------------------
(* The pieces of handlers, on one lease.                                    *)

(* Attaching a connection clears the timer of a live lease and leaves that  *)
(* of an ended one.                                                         *)
LEMMA AttachedFits ==
  ASSUME NEW l, NEW shell, LeaseFits(l, shell), NEW c \in Connections
  PROVE  LeaseFits(Attached(l, c), shell)
<1>1. /\ Attached(l, c).phase = l.phase /\ Attached(l, c).subscriber = c
      /\ Attached(l, c).timer = (l.timer /\ l.phase = "ended")
  BY DEF Attached, LeaseFits, Lease
<1>2. Attached(l, c) \in Lease
  BY DEF Attached, LeaseFits, Lease
<1>3. c # None
  BY LeaseAssumption
<1>. QED
  BY <1>1, <1>2, <1>3 DEF LeaseFits, DetachedOrEnded

(* Scheduling sets the timer exactly when it is due.                        *)
LEMMA ScheduledFits ==
  ASSUME NEW l \in Lease, NEW shell,
         shell = "open" <=> l.phase = "live", shell = "opening" <=> l.phase = "starting",
         l.timer => DetachedOrEnded(l)
  PROVE  LeaseFits(Scheduled(l), shell)
<1>1. /\ Scheduled(l).phase = l.phase /\ Scheduled(l).subscriber = l.subscriber
      /\ Scheduled(l).timer = (l.timer \/ DetachedOrEnded(l))
  BY DEF Scheduled, Lease
<1>2. Scheduled(l) \in Lease
  BY DEF Scheduled, Lease, DetachedOrEnded
<1>. QED
  BY <1>1, <1>2 DEF LeaseFits, DetachedOrEnded

(* A released lease has no subscriber, so its timer runs.                   *)
LEMMA ReleasedFits ==
  ASSUME NEW l, NEW shell, LeaseFits(l, shell)
  PROVE  LeaseFits(Released(l), shell)
<1>. DEFINE m == [l EXCEPT !.subscriber = None]
<1>1. m \in Lease /\ m.phase = l.phase /\ m.subscriber = None
  BY DEF LeaseFits, Lease
<1>2. DetachedOrEnded(m)
  BY <1>1 DEF DetachedOrEnded
<1>. HIDE DEF m
<1>3. LeaseFits(Scheduled(m), shell)
  BY <1>1, <1>2, ScheduledFits DEF LeaseFits
<1>. QED
  BY <1>3 DEF Released, m

(* The end of a shell ends its lease.                                       *)
LEMMA EndedFits ==
  ASSUME NEW l \in Lease
  PROVE  LeaseFits(Ended(l), "none")
<1>. DEFINE m == [l EXCEPT !.phase = "ended", !.timer = FALSE]
<1>1. m \in Lease /\ m.phase = "ended"
  BY DEF Lease, Phases
<1>2. DetachedOrEnded(m)
  BY <1>1 DEF DetachedOrEnded
<1>. HIDE DEF m
<1>3. LeaseFits(Scheduled(m), "none")
  BY <1>1, <1>2, ScheduledFits
<1>. QED
  BY <1>3 DEF Ended, m

(* The handle of its shell makes a starting lease live.                     *)
LEMMA LiveFits ==
  ASSUME NEW l, LeaseFits(l, "opening")
  PROVE  LeaseFits(Scheduled([l EXCEPT !.phase = "live"]), "open")
<1>. DEFINE m == [l EXCEPT !.phase = "live"]
<1>1. m \in Lease /\ m.phase = "live" /\ m.subscriber = l.subscriber /\ (m.timer <=> l.timer)
  BY DEF LeaseFits, Lease, Phases
<1>2. m.timer => DetachedOrEnded(m)
  BY <1>1 DEF LeaseFits, DetachedOrEnded
<1>. HIDE DEF m
<1>3. LeaseFits(Scheduled(m), "open")
  BY <1>1, <1>2, ScheduledFits
<1>. QED
  BY <1>3 DEF m

-----------------------------------------------------------------------------
(* Steps on the registry.  A step that changes the lease of one terminal    *)
(* and its shell keeps every terminal fit when it keeps that one fit.       *)
LEMMA OneChanges ==
  ASSUME TypeOK, AllFit, NEW t \in Terminals, NEW l, NEW shell,
         leases' = [leases EXCEPT ![t] = l], pty' = [pty EXCEPT ![t] = shell],
         l = None => shell # "open", l # None => LeaseFits(l, shell),
         shell \in {"none", "opening", "open", "stray"}
  PROVE  /\ AllFit'
         /\ leases' \in [Terminals -> Lease \cup {None}]
         /\ pty' \in [Terminals -> {"none", "opening", "open", "stray"}]
<1>1. l \in Lease \cup {None}
  BY DEF LeaseFits
<1>2. leases'[t] = l /\ pty'[t] = shell
  BY DEF TypeOK
<1>3. \A u \in Terminals \ {t} : leases'[u] = leases[u] /\ pty'[u] = pty[u]
  BY DEF TypeOK
<1>4. AllFit'
  BY <1>2, <1>3 DEF AllFit, TerminalFits
<1>. QED
  BY <1>1, <1>4 DEF TypeOK

(* Removing leases closes the shells whose handles they hold.               *)
LEMMA RemovedFits ==
  ASSUME TypeOK, AllFit, NEW S, Removed(S)
  PROVE  /\ AllFit'
         /\ leases' \in [Terminals -> Lease \cup {None}]
         /\ pty' \in [Terminals -> {"none", "opening", "open", "stray"}]
<1>1. \A t \in Terminals : TerminalFits(t)'
  BY DEF AllFit, TerminalFits, Removed
<1>. QED
  BY <1>1 DEF AllFit, Removed, TypeOK

(* A step that leaves leases and shells alone.                              *)
LEMMA NoneChanges ==
  ASSUME AllFit, UNCHANGED <<leases, pty>>
  PROVE  AllFit'
BY DEF AllFit, TerminalFits

(* Dropping receipts leaves receipts.                                       *)
LEMMA PrunedType ==
  ASSUME TypeOK, NEW o
  PROVE  Pruned(o) \in [Keys -> Terminals \cup {None}]
BY DEF Pruned, TypeOK

-----------------------------------------------------------------------------
(* Every step keeps types and keeps every terminal fit.                     *)
LEMMA InitFits == Init => TypeOK /\ AllFit
<1>. SUFFICES ASSUME Init PROVE TypeOK /\ AllFit
  OBVIOUS
<1>1. TypeOK
  BY DEF Init, TypeOK
<1>2. AllFit
  BY DEF Init, AllFit, TerminalFits
<1>. QED
  BY <1>1, <1>2

\* Every operation keeps each terminal fit: a session that ends,
LEMMA TeardownFits ==
  ASSUME TypeOK, AllFit, NEW c \in Connections, Teardown(c)
  PROVE  TypeOK' /\ AllFit'
<1>1. ASSUME NEW t \in Terminals
      PROVE  TerminalFits(t)'
  <2>1. CASE t \in Present /\ leases[t].subscriber = c
    <3>1. leases'[t] = Released(leases[t]) /\ pty'[t] = pty[t]
      BY <2>1 DEF Teardown
    <3>2. LeaseFits(Released(leases[t]), pty[t])
      BY <2>1, ReleasedFits DEF AllFit, TerminalFits, Present
    <3>3. leases'[t] # None
      BY <3>1, <3>2, LeaseAssumption DEF LeaseFits
    <3>. QED
      BY <3>1, <3>2, <3>3 DEF TerminalFits
  <2>2. CASE ~(t \in Present /\ leases[t].subscriber = c)
    <3>1. leases'[t] = leases[t] /\ pty'[t] = pty[t]
      BY <2>2 DEF Teardown
    <3>. QED
      BY <3>1 DEF AllFit, TerminalFits
  <2>. QED
    BY <2>1, <2>2
<1>2. leases' \in [Terminals -> Lease \cup {None}]
  <2>1. \A t \in Terminals : leases'[t] \in Lease \cup {None}
    BY <1>1 DEF TerminalFits, LeaseFits
  <2>. QED
    BY <2>1 DEF Teardown
<1>. QED
  BY <1>1, <1>2 DEF AllFit, Teardown, TypeOK

\* a create that is a retry,
LEMMA CreateAgainFits ==
  ASSUME TypeOK, AllFit, NEW c \in Connections, NEW r \in Requests, CreateAgain(c, r)
  PROVE  TypeOK' /\ AllFit'
<1>. DEFINE t == Pruned(OwnerOf[c])[<<OwnerOf[c], r>>]
<1>1. /\ c \in open /\ t # None
      /\ created' = Pruned(OwnerOf[c]) /\ aged' = aged \ Prunable(OwnerOf[c])
      /\ waiting' = IF pty[t] = "opening" THEN [waiting EXCEPT ![t] = @ \cup {c}]
                                          ELSE waiting
      /\ \/ UNCHANGED leases
         \/ leases[t] # None /\ leases' = [leases EXCEPT ![t] = Attached(leases[t], c)]
      /\ UNCHANGED <<closed, pty, open>>
  BY DEF CreateAgain
<1>2. Pruned(OwnerOf[c]) \in [Keys -> Terminals \cup {None}]
  BY PrunedType
<1>3. t \in Terminals
  <2>1. <<OwnerOf[c], r>> \in Keys
    BY LeaseAssumption DEF Keys
  <2>. QED
    BY <1>1, <1>2, <2>1
<1>. HIDE DEF t
<1>4. waiting' \in [Terminals -> SUBSET Connections]
  BY <1>1, <1>3 DEF TypeOK
<1>5. AllFit' /\ leases' \in [Terminals -> Lease \cup {None}]
  <2>1. CASE UNCHANGED leases
    BY <1>1, <2>1, NoneChanges DEF TypeOK
  <2>2. CASE leases[t] # None /\ leases' = [leases EXCEPT ![t] = Attached(leases[t], c)]
    <3>1. LeaseFits(Attached(leases[t], c), pty[t])
      BY <1>3, <2>2, AttachedFits DEF AllFit, TerminalFits
    <3>2. pty' = [pty EXCEPT ![t] = pty[t]] /\ pty[t] \in {"none", "opening", "open", "stray"}
      BY <1>1, <1>3 DEF TypeOK
    <3>3. Attached(leases[t], c) # None
      BY <3>1, LeaseAssumption DEF LeaseFits
    <3>. QED
      BY <1>3, <2>2, <3>1, <3>2, <3>3, OneChanges
  <2>. QED
    BY <1>1, <2>1, <2>2
<1>. QED
  BY <1>1, <1>2, <1>4, <1>5 DEF TypeOK

\* one that is refused,
LEMMA CreateRefusedFits ==
  ASSUME TypeOK, AllFit, NEW c \in Connections, NEW r \in Requests, CreateRefused(c, r)
  PROVE  TypeOK' /\ AllFit'
<1>1. AllFit'
  BY NoneChanges DEF CreateRefused
<1>2. created' \in [Keys -> Terminals \cup {None}]
  BY PrunedType DEF CreateRefused
<1>. QED
  BY <1>1, <1>2 DEF CreateRefused, TypeOK

\* one that registers a lease that starts,
LEMMA CreateFirstFits ==
  ASSUME TypeOK, AllFit, NEW c \in Connections, NEW r \in Requests, CreateFirst(c, r)
  PROVE  TypeOK' /\ AllFit'
<1>. DEFINE new == [owner |-> OwnerOf[c], request |-> r, phase |-> "starting",
                    subscriber |-> None, timer |-> FALSE]
<1>1. PICK t \in Terminals :
        /\ leases' = [leases EXCEPT ![t] = new]
        /\ created' = [Pruned(OwnerOf[c]) EXCEPT ![<<OwnerOf[c], r>>] = t]
        /\ pty' = [pty EXCEPT ![t] = "opening"]
        /\ waiting' = [waiting EXCEPT ![t] = {c}]
  BY DEF CreateFirst
<1>2. aged' \subseteq aged /\ UNCHANGED <<closed, open>>
  BY DEF CreateFirst
<1>3. new \in Lease
  BY LeaseAssumption DEF Lease, Phases
<1>4. LeaseFits(new, "opening")
  BY <1>3 DEF LeaseFits
<1>. HIDE DEF new
<1>5. new # None
  BY <1>3, LeaseAssumption
<1>6. /\ AllFit' /\ leases' \in [Terminals -> Lease \cup {None}]
      /\ pty' \in [Terminals -> {"none", "opening", "open", "stray"}]
  BY <1>1, <1>4, <1>5, OneChanges
<1>7. created' \in [Keys -> Terminals \cup {None}]
  BY <1>1, PrunedType
<1>8. waiting' \in [Terminals -> SUBSET Connections]
  BY <1>1 DEF TypeOK
<1>. QED
  BY <1>2, <1>6, <1>7, <1>8 DEF TypeOK

\* a shell that comes up, for a lease of any phase or none,
LEMMA ShellReadyFits ==
  ASSUME TypeOK, AllFit, NEW t \in Terminals, ShellReady(t)
  PROVE  TypeOK' /\ AllFit'
<1>. DEFINE live == Scheduled([leases[t] EXCEPT !.phase = "live"])
<1>1. /\ pty[t] = "opening" /\ leases[t] # None
      /\ \/ leases' = [leases EXCEPT ![t] = live]
         \/ \E c \in ReadyFor(t) : leases' = [leases EXCEPT ![t] = Attached(live, c)]
      /\ pty' = [pty EXCEPT ![t] = "open"] /\ waiting' = [waiting EXCEPT ![t] = {}]
      /\ UNCHANGED <<created, aged, closed, open>>
  BY DEF ShellReady
<1>2. LeaseFits(live, "open")
  BY <1>1, LiveFits DEF AllFit, TerminalFits
<1>. HIDE DEF live
<1>3. PICK l : leases' = [leases EXCEPT ![t] = l] /\ LeaseFits(l, "open")
  <2>1. \A c \in ReadyFor(t) : LeaseFits(Attached(live, c), "open")
    BY <1>2, AttachedFits DEF ReadyFor, TypeOK
  <2>. QED
    BY <1>1, <1>2, <2>1
<1>4. /\ AllFit' /\ leases' \in [Terminals -> Lease \cup {None}]
      /\ pty' \in [Terminals -> {"none", "opening", "open", "stray"}]
  <2>1. l # None
    BY <1>3, LeaseAssumption DEF LeaseFits
  <2>. QED
    BY <1>1, <1>3, <2>1, OneChanges
<1>5. waiting' \in [Terminals -> SUBSET Connections]
  BY <1>1 DEF TypeOK
<1>. QED
  BY <1>1, <1>4, <1>5 DEF TypeOK

\* a shell that fails or does not answer in time,
LEMMA ShellLostFits ==
  ASSUME TypeOK, AllFit, NEW t \in Terminals, ShellFailed(t) \/ ShellUnknown(t)
  PROVE  TypeOK' /\ AllFit'
<1>1. /\ leases' = [leases EXCEPT ![t] = None]
      /\ pty' = [pty EXCEPT ![t] = "none"] \/ pty' = [pty EXCEPT ![t] = "stray"]
      /\ created' = WithoutReceipt(t) \/ UNCHANGED created
      /\ aged' \subseteq aged
      /\ waiting' = [waiting EXCEPT ![t] = {}]
      /\ UNCHANGED <<closed, open>>
  BY DEF ShellFailed, ShellUnknown
<1>2. /\ AllFit' /\ leases' \in [Terminals -> Lease \cup {None}]
      /\ pty' \in [Terminals -> {"none", "opening", "open", "stray"}]
  BY <1>1, OneChanges
<1>3. created' \in [Keys -> Terminals \cup {None}]
  BY <1>1 DEF WithoutReceipt, TypeOK
<1>. QED
  BY <1>1, <1>2, <1>3 DEF TypeOK

\* a subscriber that comes or goes,
LEMMA AttachDetachFits ==
  ASSUME TypeOK, AllFit, NEW c \in Connections, NEW t \in Terminals,
         Attach(c, t) \/ Detach(c, t)
  PROVE  TypeOK' /\ AllFit'
<1>1. /\ leases[t] # None
      /\ \/ leases' = [leases EXCEPT ![t] = Attached(leases[t], c)]
         \/ leases' = [leases EXCEPT ![t] = Released(leases[t])]
         \/ leases' = [leases EXCEPT ![t] = Scheduled(leases[t])]
      /\ UNCHANGED <<created, aged, closed, pty, waiting, open>>
  BY DEF Attach, Detach, OwnedBy, LeasesOf, Present
<1>2. LeaseFits(leases[t], pty[t])
  BY <1>1 DEF AllFit, TerminalFits
<1>3. PICK l : leases' = [leases EXCEPT ![t] = l] /\ LeaseFits(l, pty[t])
  <2>1. LeaseFits(Attached(leases[t], c), pty[t])
    BY <1>2, AttachedFits
  <2>2. LeaseFits(Released(leases[t]), pty[t])
    BY <1>2, ReleasedFits
  <2>3. LeaseFits(Scheduled(leases[t]), pty[t])
    BY <1>2, ScheduledFits DEF LeaseFits
  <2>. QED
    BY <1>1, <2>1, <2>2, <2>3
<1>4. l # None
  BY <1>3, LeaseAssumption DEF LeaseFits
<1>5. pty' = [pty EXCEPT ![t] = pty[t]] /\ pty[t] \in {"none", "opening", "open", "stray"}
  BY <1>1 DEF TypeOK
<1>6. AllFit' /\ leases' \in [Terminals -> Lease \cup {None}]
  BY <1>3, <1>4, <1>5, OneChanges
<1>. QED
  BY <1>1, <1>6 DEF TypeOK

\* a close,
LEMMA CloseFits ==
  ASSUME TypeOK, AllFit, NEW c \in Connections, NEW t \in Terminals, NEW q \in CloseIds,
         Close(c, t, q)
  PROVE  TypeOK' /\ AllFit'
<1>1. PICK old :
        LET kept == [x \in CloseKeys |-> IF x \in old THEN None ELSE closed[x]]
        IN  \/ closed' = [kept EXCEPT ![<<OwnerOf[c], q>>] = t] /\ Removed({t})
            \/ closed' = kept /\ UNCHANGED <<leases, pty>>
  BY DEF Close
<1>2. closed' \in [CloseKeys -> Terminals \cup {None}]
  BY <1>1 DEF TypeOK
<1>3. /\ AllFit' /\ leases' \in [Terminals -> Lease \cup {None}]
      /\ pty' \in [Terminals -> {"none", "opening", "open", "stray"}]
  BY <1>1, RemovedFits, NoneChanges DEF TypeOK
<1>. QED
  BY <1>2, <1>3 DEF Close, TypeOK

\* a shell that exits and a timer that fires,
LEMMA TerminalEndsFits ==
  ASSUME TypeOK, AllFit, NEW t \in Terminals, StrayEnds(t) \/ PtyExits(t) \/ TimerFires(t)
  PROVE  TypeOK' /\ AllFit'
<1>1. CASE StrayEnds(t)
  <2>1. AllFit'
    BY <1>1 DEF StrayEnds, AllFit, TerminalFits, LeaseFits, TypeOK
  <2>. QED
    BY <1>1, <2>1 DEF StrayEnds, TypeOK
<1>2. CASE PtyExits(t)
  <2>1. /\ pty[t] = "open" /\ pty' = [pty EXCEPT ![t] = "none"]
        /\ UNCHANGED <<created, aged, closed, waiting, open>>
    BY <1>2 DEF PtyExits
  <2>2. leases[t] # None /\ LeaseFits(leases[t], "open")
    BY <2>1 DEF AllFit, TerminalFits
  <2>3. leases' = [leases EXCEPT ![t] = Ended(leases[t])]
    BY <1>2, <2>2 DEF PtyExits, LeaseFits
  <2>4. LeaseFits(Ended(leases[t]), "none")
    BY <2>2, EndedFits DEF LeaseFits
  <2>5. Ended(leases[t]) # None
    BY <2>4, LeaseAssumption DEF LeaseFits
  <2>6. /\ AllFit' /\ leases' \in [Terminals -> Lease \cup {None}]
        /\ pty' \in [Terminals -> {"none", "opening", "open", "stray"}]
    BY <2>1, <2>3, <2>4, <2>5, OneChanges
  <2>. QED
    BY <2>1, <2>6 DEF TypeOK
<1>3. CASE TimerFires(t)
  <2>1. /\ AllFit' /\ leases' \in [Terminals -> Lease \cup {None}]
        /\ pty' \in [Terminals -> {"none", "opening", "open", "stray"}]
    BY <1>3, RemovedFits DEF TimerFires
  <2>. QED
    BY <1>3, <2>1 DEF TimerFires, TypeOK
<1>. QED
  BY <1>1, <1>2, <1>3

\* and owners that are revoked, or the host that stops.
LEMMA ForgottenFits ==
  ASSUME TypeOK, AllFit, NEW owners, Forgotten(owners)
  PROVE  TypeOK' /\ AllFit'
<1>1. /\ AllFit' /\ leases' \in [Terminals -> Lease \cup {None}]
      /\ pty' \in [Terminals -> {"none", "opening", "open", "stray"}]
  BY RemovedFits DEF Forgotten
<1>2. /\ created' \in [Keys -> Terminals \cup {None}]
      /\ closed' \in [CloseKeys -> Terminals \cup {None}]
  BY DEF Forgotten, TypeOK
<1>. QED
  BY <1>1, <1>2 DEF Forgotten, TypeOK

\* So every step does.
LEMMA NextFits ==
  ASSUME TypeOK, AllFit, [Next]_vars
  PROVE  TypeOK' /\ AllFit'
<1>1. ASSUME NEW c \in Connections, Connect(c)
      PROVE  TypeOK' /\ AllFit'
  BY <1>1, NoneChanges DEF Connect, TypeOK
<1>2. ASSUME NEW k \in Keys, ReceiptAges(k)
      PROVE  TypeOK' /\ AllFit'
  BY <1>2, NoneChanges DEF ReceiptAges, TypeOK
<1>3. CASE UNCHANGED vars
  BY <1>3, NoneChanges DEF vars, TypeOK
<1>4. ASSUME NEW o \in Owners, Revoke(o)
      PROVE  TypeOK' /\ AllFit'
  BY <1>4, ForgottenFits DEF Revoke
<1>5. CASE Shutdown
  BY <1>5, ForgottenFits DEF Shutdown
<1>6. ASSUME NEW c \in Connections, Request(c)
      PROVE  TypeOK' /\ AllFit'
  BY <1>1, <1>6, TeardownFits, CreateAgainFits, CreateRefusedFits, CreateFirstFits,
     AttachDetachFits, CloseFits DEF Request, Create
<1>7. ASSUME NEW t \in Terminals, Terminal(t)
      PROVE  TypeOK' /\ AllFit'
  BY <1>7, ShellReadyFits, ShellLostFits, TerminalEndsFits DEF Terminal, CreateSettles
<1>. QED
  BY <1>2, <1>3, <1>4, <1>5, <1>6, <1>7 DEF Next

-----------------------------------------------------------------------------
(* Every variable keeps its type.                                           *)
THEOREM TypeCorrect == Spec => []TypeOK
<1>1. TypeOK /\ AllFit /\ [Next]_vars => (TypeOK /\ AllFit)'
  BY NextFits
<1>. QED
  BY <1>1, InitFits, PTL DEF Spec

(* Every lease fits its shell.                                              *)
LEMMA AlwaysFit == Spec => []AllFit
<1>1. TypeOK /\ AllFit /\ [Next]_vars => (TypeOK /\ AllFit)'
  BY NextFits
<1>. QED
  BY <1>1, InitFits, PTL DEF Spec

(* No shell leaks and no lease is hollow, however creation, closing,        *)
(* expiry, revocation and exit race.                                        *)
THEOREM ShellsAlwaysLeased == Spec => []ShellsAreLeased
<1>1. TypeOK /\ AllFit => ShellsAreLeased
  BY FitIsInvariant
<1>. QED
  BY <1>1, TypeCorrect, AlwaysFit, PTL

(* A terminal nobody watches has its expiry timer, and a timer only pends   *)
(* on a terminal that is detached or ended.                                 *)
THEOREM UnwatchedAlwaysTimed == Spec => []UnwatchedHasTimer
<1>1. TypeOK /\ AllFit => UnwatchedHasTimer
  BY FitIsInvariant
<1>. QED
  BY <1>1, TypeCorrect, AlwaysFit, PTL

(* A lease is starting exactly while its shell is being spawned.            *)
THEOREM StartingAlwaysOpening == Spec => []StartingIsOpening
<1>1. TypeOK /\ AllFit => StartingIsOpening
  BY FitIsInvariant
<1>. QED
  BY <1>1, TypeCorrect, AlwaysFit, PTL

-----------------------------------------------------------------------------
(* A receipt that a create prunes is old, and its terminal has no lease.    *)
LEMMA PrunedReceiptIsOld ==
  ASSUME TypeOK, NEW o, NEW k \in Keys, created[k] # None, Pruned(o)[k] # created[k]
  PROVE  k \in aged /\ leases[created[k]] = None
BY DEF Pruned, Prunable

\* A step that drops or replaces a receipt had one of the three reasons.
LEMMA StepKeepsReceipts ==
  ASSUME TypeOK, [Next]_vars, NEW k \in Keys, created[k] # None, created'[k] # created[k]
  PROVE  \/ pty'[created[k]] = "none" /\ leases'[created[k]] = None
         \/ k \in aged /\ leases[created[k]] = None
         \/ ReceiptsOf(created', k[1]) = {}
<1>1. ASSUME NEW c \in Connections, NEW r \in Requests, CreateAgain(c, r) \/ CreateRefused(c, r)
      PROVE  k \in aged /\ leases[created[k]] = None
  BY <1>1, PrunedReceiptIsOld DEF CreateAgain, CreateRefused
<1>2. ASSUME NEW c \in Connections, NEW r \in Requests, CreateFirst(c, r)
      PROVE  k \in aged /\ leases[created[k]] = None
  <2>1. PICK t : created' = [Pruned(OwnerOf[c]) EXCEPT ![<<OwnerOf[c], r>>] = t]
    BY <1>2 DEF CreateFirst
  <2>2. Pruned(OwnerOf[c])[<<OwnerOf[c], r>>] = None
    BY <1>2 DEF CreateFirst
  <2>3. Pruned(OwnerOf[c]) \in [Keys -> Terminals \cup {None}]
    BY PrunedType
  <2>4. Pruned(OwnerOf[c])[k] # created[k]
    BY <2>1, <2>2, <2>3
  <2>. QED
    BY <2>4, PrunedReceiptIsOld
<1>3. ASSUME NEW t \in Terminals, ShellFailed(t)
      PROVE  pty'[created[k]] = "none" /\ leases'[created[k]] = None
  <2>1. created[k] = t
    BY <1>3 DEF ShellFailed, WithoutReceipt
  <2>. QED
    BY <1>3, <2>1 DEF ShellFailed, TypeOK
<1>4. ASSUME NEW owners, Forgotten(owners)
      PROVE  ReceiptsOf(created', k[1]) = {}
  <2>1. created' = [x \in Keys |-> IF x[1] \in owners THEN None ELSE created[x]]
    BY <1>4 DEF Forgotten
  <2>2. k[1] \in owners
    BY <2>1
  <2>. QED
    BY <2>1, <2>2 DEF ReceiptsOf
<1>5. ASSUME NEW c \in Connections, NEW t \in Terminals, NEW q \in CloseIds, Close(c, t, q)
      PROVE  FALSE
  BY <1>5 DEF Close
<1>6. ASSUME NEW c \in Connections, Connect(c) \/ Teardown(c)
      PROVE  FALSE
  BY <1>6 DEF Connect, Teardown
<1>7. ASSUME NEW c \in Connections, NEW t \in Terminals, Attach(c, t) \/ Detach(c, t)
      PROVE  FALSE
  BY <1>7 DEF Attach, Detach
<1>8. ASSUME NEW t \in Terminals,
             ShellReady(t) \/ ShellUnknown(t) \/ StrayEnds(t) \/ PtyExits(t) \/ TimerFires(t)
      PROVE  FALSE
  BY <1>8 DEF ShellReady, ShellUnknown, StrayEnds, PtyExits, TimerFires
<1>9. ASSUME NEW x \in Keys, ReceiptAges(x)
      PROVE  FALSE
  BY <1>9 DEF ReceiptAges
<1>10. CASE UNCHANGED vars
  BY <1>10 DEF vars
<1>. QED
  BY <1>1, <1>2, <1>3, <1>4, <1>5, <1>6, <1>7, <1>8, <1>9, <1>10
     DEF Next, Request, Create, Terminal, CreateSettles, Revoke, Shutdown

(* A create whose outcome is unknown is never retried into a second shell:  *)
(* its receipt stays until the terminal left nothing behind, the receipt is *)
(* old and its lease is gone, or the device is forgotten.                   *)
THEOREM ReceiptAlwaysOutlives == Spec => ReceiptOutlivesShell
<1>1. TypeOK /\ [Next]_vars =>
        [\A k \in Keys :
           LET t == created[k]
           IN  t # None /\ created'[k] # t =>
                 \/ pty'[t] = "none" /\ leases'[t] = None
                 \/ k \in aged /\ leases[t] = None
                 \/ ReceiptsOf(created', k[1]) = {}]_vars
  BY StepKeepsReceipts
<1>. QED
  BY <1>1, TypeCorrect, PTL DEF Spec, ReceiptOutlivesShell
=============================================================================
