--------------------------- MODULE TerminalLeases ---------------------------
(***************************************************************************)
(* The terminals a paired phone opens on the desktop                       *)
(* (src/main/remote-access/terminal-leases.ts, driven by rpc.ts and        *)
(* index.ts).  A terminal belongs to the device (the owner), not to the    *)
(* connection that created it: connections come and go, and the lease      *)
(* keeps the shell until the phone closes it, the device is revoked,       *)
(* remote access stops, or a timer finds it detached or ended.             *)
(*                                                                         *)
(* Only creating a terminal is asynchronous.  While the desktop spawns the *)
(* shell the lease is "starting": it can be listed, attached to, closed,   *)
(* expired and revoked before the handle of its shell exists.              *)
(*                                                                         *)
(* What flows through an attached terminal (output, input, sizes) is not   *)
(* modelled here.  Names of terminals and connections are reused           *)
(* once nothing refers to them; the code draws fresh UUIDs.  An attachment *)
(* id only says whether a request names the current attachment.            *)
(***************************************************************************)
EXTENDS Naturals, FiniteSets

CONSTANTS
  Owners,       \* paired devices, by public key
  Connections,  \* rpc sessions, by subscriber id
  OwnerOf,      \* the device a session authenticated as
  Requests,     \* request ids of terminal.create
  CloseIds,     \* request ids of terminal.close
  Terminals,    \* terminal ids
  None,         \* no lease, no subscriber, no receipt
  MaxPerOwner,  \* maxPerOwner
  MaxTotal,     \* maxTotal
  MaxReceipts   \* MAX_TERMINAL_CREATE_RECEIPTS_PER_OWNER

Phases == {"starting", "live", "ended"}
Lease == [owner : Owners, request : Requests, phase : Phases,
          subscriber : Connections \cup {None}, timer : BOOLEAN]

ASSUME LeaseAssumption ==
  /\ OwnerOf \in [Connections -> Owners]
  /\ None \notin Connections \cup Terminals
  /\ None \notin Lease
  /\ MaxPerOwner \in Nat /\ MaxTotal \in Nat /\ MaxReceipts \in Nat
  /\ IsFiniteSet(Terminals)

VARIABLES
  leases,   \* the registry: the lease of a terminal, or None
  created,  \* createReceipts: the terminal a request was answered with
  aged,     \* the create receipts older than their 24 hours
  closed,   \* closeReceipts: the terminal a close request named
  pty,      \* the shell: "none", "opening", "open", or "stray" (it may exist,
            \* its creation timed out and no lease holds it)
  waiting,  \* the connections whose terminal.create awaits this terminal
  open      \* the sessions that are not destroyed

vars == <<leases, created, aged, closed, pty, waiting, open>>

Keys == Owners \X Requests
CloseKeys == Owners \X CloseIds

Present == {t \in Terminals : leases[t] # None}
LeasesOf(o) == {t \in Present : leases[t].owner = o}
OwnedBy(c) == LeasesOf(OwnerOf[c])
ReceiptsOf(f, o) == {k \in DOMAIN f : k[1] = o /\ f[k] # None}

\* A terminal id nothing refers to any more, as a new UUID is.
Fresh(t) == /\ leases[t] = None /\ pty[t] = "none"
            /\ \A k \in Keys : created[k] # t
            /\ \A k \in CloseKeys : closed[k] # t

TypeOK ==
  /\ leases \in [Terminals -> Lease \cup {None}]
  /\ created \in [Keys -> Terminals \cup {None}]
  /\ aged \subseteq Keys
  /\ closed \in [CloseKeys -> Terminals \cup {None}]
  /\ pty \in [Terminals -> {"none", "opening", "open", "stray"}]
  /\ waiting \in [Terminals -> SUBSET Connections]
  /\ open \subseteq Connections

Init ==
  /\ leases = [t \in Terminals |-> None]
  /\ created = [k \in Keys |-> None]
  /\ aged = {}
  /\ closed = [k \in CloseKeys |-> None]
  /\ pty = [t \in Terminals |-> "none"]
  /\ waiting = [t \in Terminals |-> {}]
  /\ open = {}

----------------------------------------------------------------------------
(* Pieces of handlers.                                                     *)

\* The condition under which a lease is given an expiry timer.
DetachedOrEnded(l) == l.subscriber = None \/ l.phase = "ended"

\* scheduleExpiryIfDetached
Scheduled(l) == [l EXCEPT !.timer = @ \/ DetachedOrEnded(l)]

\* attach: the timer of an ended terminal keeps running.
Attached(l, c) ==
  [l EXCEPT !.subscriber = c, !.timer = @ /\ l.phase = "ended"]

\* Mutant: the subscriber goes, and the timer is not started.
MutantReleased(l) == [l EXCEPT !.subscriber = None]

Released(l) == Scheduled([l EXCEPT !.subscriber = None])

\* recordExit
Ended(l) == Scheduled([l EXCEPT !.phase = "ended", !.timer = FALSE])

(***************************************************************************)
(* removeLease(lease, true): the lease leaves the registry and its handle, *)
(* if it has one, closes the shell.  A shell still spawning has no handle. *)
(***************************************************************************)
Removed(S) ==
  /\ leases' = [t \in Terminals |-> IF t \in S THEN None ELSE leases[t]]
  /\ pty' = [t \in Terminals |->
               IF t \in S /\ pty[t] = "open" THEN "none" ELSE pty[t]]

\* pruneReceipts: the receipts of an owner that a create drops first.
Prunable(o) ==
  {k \in aged : k[1] = o /\ (created[k] # None => leases[created[k]] = None)}

Pruned(o) == [k \in Keys |-> IF k \in Prunable(o) THEN None ELSE created[k]]

\* assertCreateCapacity
HasCapacity(o) == /\ Cardinality(LeasesOf(o)) < MaxPerOwner
                  /\ Cardinality(Present) < MaxTotal
----------------------------------------------------------------------------
(* Sessions.                                                               *)

Connect(c) ==
  /\ c \notin open
  /\ \A t \in Terminals : c \notin waiting[t]
  /\ open' = open \cup {c}
  /\ UNCHANGED <<leases, created, aged, closed, pty, waiting>>

\* Mutant: the session is destroyed and stays subscribed.
MutantTeardown(c) ==
  /\ c \in open
  /\ open' = open \ {c}
  /\ UNCHANGED <<leases, created, aged, closed, pty, waiting>>

\* teardown: detachSubscriber.  The creates it awaits go on without it.
Teardown(c) ==
  /\ c \in open
  /\ open' = open \ {c}
  /\ leases' = [t \in Terminals |->
       IF t \in Present /\ leases[t].subscriber = c THEN Released(leases[t])
                                                    ELSE leases[t]]
  /\ UNCHANGED <<created, aged, closed, pty, waiting>>
----------------------------------------------------------------------------
(* terminal.create: createInteractive, then attachTerminalLease.           *)

\* The request id was used: join the pending create, attach to its terminal,
\* or learn that it is gone.
CreateAgain(c, r) ==
  LET k == <<OwnerOf[c], r>>
      kept == Pruned(OwnerOf[c])
      t == kept[k]
  IN  /\ c \in open
      /\ t # None
      /\ created' = kept
      /\ aged' = aged \ Prunable(OwnerOf[c])
      /\ waiting' = IF pty[t] = "opening" THEN [waiting EXCEPT ![t] = @ \cup {c}]
                                          ELSE waiting
      /\ leases' = IF pty[t] # "opening" /\ leases[t] # None
                   THEN [leases EXCEPT ![t] = Attached(@, c)] ELSE leases
      /\ UNCHANGED <<closed, pty, open>>

\* A receipt or terminal cap refuses it: the pruning stays.
CreateRefused(c, r) ==
  LET o == OwnerOf[c]
      kept == Pruned(o)
  IN  /\ c \in open
      /\ kept[<<o, r>>] = None
      /\ \/ Cardinality(ReceiptsOf(kept, o)) >= MaxReceipts
         \/ ~ HasCapacity(o)
      /\ created' = kept
      /\ aged' = aged \ Prunable(o)
      /\ UNCHANGED <<leases, closed, pty, waiting, open>>

\* A first request: a starting lease, a receipt, and a shell being spawned.
CreateFirst(c, r) ==
  LET o == OwnerOf[c]
      kept == Pruned(o)
  IN  /\ c \in open
      /\ kept[<<o, r>>] = None
      /\ Cardinality(ReceiptsOf(kept, o)) < MaxReceipts
      /\ HasCapacity(o)
      /\ aged' = aged \ Prunable(o)
      /\ \E t \in {u \in Terminals : Fresh(u)} :
           /\ leases' = [leases EXCEPT ![t] =
                           [owner |-> o, request |-> r, phase |-> "starting",
                            subscriber |-> None, timer |-> FALSE]]
           /\ created' = [kept EXCEPT ![<<o, r>>] = t]
           /\ pty' = [pty EXCEPT ![t] = "opening"]
           /\ waiting' = [waiting EXCEPT ![t] = {c}]
      /\ UNCHANGED <<closed, open>>

\* Mutant: the renderer's answer is taken for a lease that may be gone.
MutantShellReady(t) ==
  /\ pty[t] = "opening"
  /\ pty' = [pty EXCEPT ![t] = "open"]
  /\ waiting' = [waiting EXCEPT ![t] = {}]
  /\ leases' = IF leases[t] = None THEN leases ELSE
       [leases EXCEPT ![t] = Scheduled([@ EXCEPT !.phase = "live"])]
  /\ UNCHANGED <<created, aged, closed, open>>

\* The creates that awaited the terminal and whose session is still alive.
ReadyFor(t) == waiting[t] \cap open

(***************************************************************************)
(* createTerminal resolved and the lease is still there: it goes live, and *)
(* every create that awaited it attaches if its session is still alive.    *)
(* These continuations are microtasks of one macrotask, in an order that   *)
(* depends on how the promises are nested: any of them may attach last.    *)
(***************************************************************************)
ShellReady(t) ==
  LET live == Scheduled([leases[t] EXCEPT !.phase = "live"])
  IN  /\ pty[t] = "opening"
      /\ leases[t] # None
      /\ \/ /\ ReadyFor(t) = {}
            /\ leases' = [leases EXCEPT ![t] = live]
         \/ \E c \in ReadyFor(t) : leases' = [leases EXCEPT ![t] = Attached(live, c)]
      /\ pty' = [pty EXCEPT ![t] = "open"]
      /\ waiting' = [waiting EXCEPT ![t] = {}]
      /\ UNCHANGED <<created, aged, closed, open>>

\* The receipts that do not name t.
WithoutReceipt(t) ==
  [k \in Keys |-> IF created[k] = t THEN None ELSE created[k]]

(***************************************************************************)
(* createTerminal threw a plain error, or it resolved for a lease that is  *)
(* no longer there and the handle is closed at once: nothing was kept, so  *)
(* the request id may be used again.                                       *)
(***************************************************************************)
ShellFailed(t) ==
  /\ pty[t] = "opening"
  /\ leases' = [leases EXCEPT ![t] = None]
  /\ pty' = [pty EXCEPT ![t] = "none"]
  /\ created' = WithoutReceipt(t)
  /\ aged' = {k \in aged : created[k] # t}
  /\ waiting' = [waiting EXCEPT ![t] = {}]
  /\ UNCHANGED <<closed, open>>

\* Mutant: an unknown outcome frees the request id like a failure.
MutantShellUnknown(t) ==
  /\ pty[t] = "opening"
  /\ leases' = [leases EXCEPT ![t] = None]
  /\ pty' = [pty EXCEPT ![t] = "stray"]
  /\ created' = WithoutReceipt(t)
  /\ aged' = {k \in aged : created[k] # t}
  /\ waiting' = [waiting EXCEPT ![t] = {}]
  /\ UNCHANGED <<closed, open>>

\* REMOTE_TERMINAL_CREATE_OUTCOME_UNKNOWN: the renderer did not answer and may
\* have acted.  The lease goes and the receipt of the rejected create stays.
ShellUnknown(t) ==
  /\ pty[t] = "opening"
  /\ leases' = [leases EXCEPT ![t] = None]
  /\ pty' = [pty EXCEPT ![t] = "stray"]
  /\ waiting' = [waiting EXCEPT ![t] = {}]
  /\ UNCHANGED <<created, aged, closed, open>>

\* The user closes the tab nobody leases.
StrayEnds(t) ==
  /\ pty[t] = "stray"
  /\ pty' = [pty EXCEPT ![t] = "none"]
  /\ UNCHANGED <<leases, created, aged, closed, waiting, open>>

CreateSettles(t) == ShellReady(t) \/ ShellFailed(t) \/ ShellUnknown(t)
----------------------------------------------------------------------------
(* Requests on a terminal.                                                 *)

\* terminal.attach, also while the terminal is starting or ended.
Attach(c, t) ==
  /\ c \in open
  /\ t \in OwnedBy(c)
  /\ leases' = [leases EXCEPT ![t] = Attached(@, c)]
  /\ UNCHANGED <<created, aged, closed, pty, waiting, open>>

\* terminal.detach, naming the current attachment or an older one.
Detach(c, t) ==
  /\ c \in open
  /\ t \in OwnedBy(c)
  /\ \/ /\ leases[t].subscriber = c
        /\ leases' = [leases EXCEPT ![t] = Released(@)]
     \/ leases' = [leases EXCEPT ![t] = Scheduled(@)]
  /\ UNCHANGED <<created, aged, closed, pty, waiting, open>>

(***************************************************************************)
(* terminal.close by the current attachment: a receipt, the end of the     *)
(* terminal, and its removal.  A request id that was used is answered or   *)
(* refused without a change.  Receipts past their 24 hours go first, even  *)
(* when the request is refused.                                            *)
(***************************************************************************)
Close(c, t, q) ==
  LET o == OwnerOf[c]
      k == <<o, q>>
  IN  /\ c \in open
      /\ \E old \in SUBSET ReceiptsOf(closed, o) :
           LET kept == [x \in CloseKeys |-> IF x \in old THEN None ELSE closed[x]]
               accepted == /\ kept[k] = None
                           /\ Cardinality(ReceiptsOf(kept, o)) < MaxReceipts
                           /\ t \in OwnedBy(c)
                           /\ leases[t].subscriber = c
           IN  \/ /\ accepted
                  /\ closed' = [kept EXCEPT ![k] = t]
                  /\ Removed({t})
               \/ /\ ~ accepted
                  /\ closed' = kept
                  /\ UNCHANGED <<leases, pty>>
      /\ UNCHANGED <<created, aged, waiting, open>>
----------------------------------------------------------------------------
(* What happens to a terminal by itself.                                   *)

\* onExit: the shell ends.  The desktop removes its tab.
PtyExits(t) ==
  /\ pty[t] = "open"
  /\ pty' = [pty EXCEPT ![t] = "none"]
  /\ leases' = IF leases[t] # None /\ leases[t].phase # "ended"
               THEN [leases EXCEPT ![t] = Ended(@)] ELSE leases
  /\ UNCHANGED <<created, aged, closed, waiting, open>>

\* The expiry timer.  A lease that is attached again and live is left alone.
TimerFires(t) ==
  LET expired == {u \in {t} : DetachedOrEnded(leases[u])}
  IN  /\ leases[t] # None
      /\ leases[t].timer
      /\ Removed(expired)
      /\ UNCHANGED <<created, aged, closed, waiting, open>>

\* The clock passes the 24 hours of a receipt (the desktop may have slept).
ReceiptAges(k) ==
  /\ created[k] # None
  /\ k \notin aged
  /\ aged' = aged \cup {k}
  /\ UNCHANGED <<leases, created, closed, pty, waiting, open>>
----------------------------------------------------------------------------
(* The registry as a whole.                                                *)

(***************************************************************************)
(* The leases, receipts and sessions of some owners go together.  Removing *)
(* the leases first or the sessions first is the same: a removed lease has *)
(* no subscriber, and a detached lease is removed with its timer.          *)
(***************************************************************************)
Forgotten(owners) ==
  /\ Removed({t \in Present : leases[t].owner \in owners})
  /\ created' = [k \in Keys |-> IF k[1] \in owners THEN None ELSE created[k]]
  /\ aged' = {k \in aged : k[1] \notin owners}
  /\ closed' = [k \in CloseKeys |-> IF k[1] \in owners THEN None ELSE closed[k]]
  /\ open' = {c \in open : OwnerOf[c] \notin owners}
  /\ UNCHANGED waiting

\* revokeDevice
Revoke(o) == Forgotten({o})

\* stop
Shutdown == Forgotten(Owners)
----------------------------------------------------------------------------
Create(c, r) == CreateAgain(c, r) \/ CreateRefused(c, r) \/ CreateFirst(c, r)

Request(c) ==
  \/ Connect(c)
  \/ Teardown(c)
  \/ \E r \in Requests : Create(c, r)
  \/ \E t \in Terminals :
       \/ Attach(c, t)
       \/ Detach(c, t)
       \/ \E q \in CloseIds : Close(c, t, q)

Terminal(t) == CreateSettles(t) \/ StrayEnds(t) \/ PtyExits(t) \/ TimerFires(t)

Next ==
  \/ \E c \in Connections : Request(c)
  \/ \E t \in Terminals : Terminal(t)
  \/ \E k \in Keys : ReceiptAges(k)
  \/ \E o \in Owners : Revoke(o)
  \/ Shutdown

(***************************************************************************)
(* Creating a terminal always settles: every wait in createTerminal has a  *)
(* timeout (15 s for the renderer).  A timer that is set fires unless it   *)
(* is cleared.  Nothing else is fair: a phone may never come back, a user  *)
(* never leave, a shell never end.                                         *)
(***************************************************************************)
Fairness == \A t \in Terminals : /\ WF_vars(CreateSettles(t))
                                 /\ WF_vars(TimerFires(t))

Spec == Init /\ [][Next]_vars
FairSpec == Spec /\ Fairness
----------------------------------------------------------------------------
(* Safety.                                                                 *)

(***************************************************************************)
(* No shell leaks and no lease is hollow: a shell whose creation succeeded *)
(* runs exactly while a live lease holds its handle, however creation,     *)
(* closing, expiry, revocation and exit race (createInteractive 258-268,   *)
(* removeLease).                                                           *)
(***************************************************************************)
ShellsAreLeased ==
  \A t \in Terminals :
    pty[t] = "open" <=> t \in Present /\ leases[t].phase = "live"

(***************************************************************************)
(* A terminal nobody watches is never forgotten: when it is ended, or live *)
(* without a subscriber, its expiry timer is set; and a timer is only ever *)
(* pending on a terminal that is detached or ended.                        *)
(***************************************************************************)
UnwatchedHasTimer ==
  \A t \in Present :
    LET l == leases[t]
    IN  /\ l.phase # "starting" /\ DetachedOrEnded(l) => l.timer
        /\ l.timer => DetachedOrEnded(l)

(***************************************************************************)
(* A create receipt is dropped only when its terminal left nothing behind, *)
(* when it is older than 24 hours and its lease is gone, or with all the   *)
(* receipts of its owner: a create whose outcome is unknown is not retried *)
(* into a second shell.                                                    *)
(***************************************************************************)
ReceiptOutlivesShell ==
  [][\A k \in Keys :
       LET t == created[k]
       IN  t # None /\ created'[k] # t =>
             \/ pty'[t] = "none" /\ leases'[t] = None
             \/ k \in aged /\ leases[t] = None
             \/ ReceiptsOf(created', k[1]) = {}]_vars
(***************************************************************************)
(* What makes the two invariants inductive: while the desktop spawns a     *)
(* shell its lease is starting, and it is starting at no other time, so an *)
(* exit or an answer of the renderer never meets a lease of another phase. *)
(***************************************************************************)
StartingIsOpening ==
  \A t \in Present : leases[t].phase = "starting" <=> pty[t] = "opening"
----------------------------------------------------------------------------
(* Liveness, under Fairness.                                               *)

\* Once the phones are away for good, every shell they opened is closed.
AbandonedShellsClose ==
  (<>[](open = {})) => <>[](\A t \in Terminals : pty[t] \notin {"opening", "open"})
=============================================================================
