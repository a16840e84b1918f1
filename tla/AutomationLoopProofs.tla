------------------------ MODULE AutomationLoopProofs ------------------------
(***************************************************************************)
(* Proofs about AutomationLoop for every kind of automation, every cap and *)
(* every number of fires, presses, faults and runs.  The steps of the      *)
(* model share the operators through which the code enters a pass (Stay,   *)
(* Finalize, Begin, Proceed, AskPrecheck, Enter, Continue, Decide): each   *)
(* of them has one lemma, which says that it keeps the invariants however  *)
(* it is called, and the actions cite these lemmas.                        *)
(***************************************************************************)
EXTENDS AutomationLoop, FiniteSetTheorems, SequenceTheorems,
        WellFoundedInduction, TLAPS

\* The types of what starting and ending a pass changes, and those of the rest.
CoreType ==
  /\ job \in Jobs /\ job.current \in RunIds \cup {None} /\ job.own \in open \cup {None}
  /\ runner \in [timer : BOOLEAN, sub : RunIds \cup {None}]
  /\ calls \subseteq CallRecords /\ IsFiniteSet(calls)
  /\ \A c \in calls : c.copy \in 1..copies \cup {None} /\ c.run \in RunIds \cup {None}
  /\ watch \subseteq RunIds /\ RunIds \subseteq Nat
  /\ closing \in open \cup {None} /\ open \subseteq 1..copies /\ copies \in Nat
  /\ overtaken \in BOOLEAN

RestType ==
  /\ setup \in Setups
  /\ runs \in Seq([status : {"live", "killed", "complete", "failed"},
                   copy : Nat \cup {None}])
  /\ told \in Seq(RunIds)
  /\ checks \in [RunIds -> Nat]
  /\ hand = None \/ hand \in [what : {"stop", "restart"},
                              at : {"kill", "settle"},
                              run : RunIds \cup {None}]
  /\ lapsed \in BOOLEAN

Core == CoreType /\ OwnershipInv /\ PassInv
Inv  == RestType /\ Core

-----------------------------------------------------------------------------
(* Numbers of calls.                                                        *)

(* A set of numbers that is not empty has a least one.                      *)
LEMMA LeastNumber ==
  ASSUME NEW S, S \subseteq Nat, S # {}
  PROVE  Min(S) \in S /\ \A y \in S : Min(S) <= y
<1>. DEFINE R == {ss \in Nat \X Nat : ss[1] < ss[2]}
<1>1. IsWellFoundedOn(R, Nat)
  BY NatLessThanWellFounded DEF OpToRel
<1>2. PICK x \in S : \A y \in S : ~ (<<y, x>> \in R)
  BY <1>1, WFMin
<1>3. ASSUME NEW y \in S PROVE x <= y
  <2>1. x \in Nat /\ y \in Nat
    OBVIOUS
  <2>2. <<y, x>> \in R <=> y < x
    BY <2>1
  <2>. HIDE DEF R
  <2>3. ~ (y < x)
    BY <1>2, <2>2
  <2>. QED
    BY <2>1, <2>3
<1>. QED
  BY <1>3 DEF Min

(* What a function makes of a finite set is finite, and not more.           *)
LEMMA ImageIsFinite ==
  ASSUME NEW S, IsFiniteSet(S), NEW T, NEW f \in [S -> T]
  PROVE  /\ IsFiniteSet({f[x] : x \in S})
         /\ Cardinality({f[x] : x \in S}) <= Cardinality(S)
<1>1. f \in Surjection(S, {f[x] : x \in S})
  BY DEF Surjection
<1>. QED
  BY <1>1, FS_Surjection

(* There is a number that no call has, so that a new call gets one.         *)
LEMMA FreeNumber ==
  ASSUME IsFiniteSet(calls), \A c \in calls : c.n \in Nat
  PROVE  Min(1..Cardinality(calls) + 1 \ {c.n : c \in calls}) \in Nat \ {0}
<1>. DEFINE f == [c \in calls |-> c.n]
            N == {c.n : c \in calls}
            k == Cardinality(calls)
<1>1. k \in Nat
  BY FS_CardinalityType
<1>2. IsFiniteSet(N) /\ Cardinality(N) <= k
  <2>1. f \in [calls -> Nat] /\ N = {f[x] : x \in calls}
    OBVIOUS
  <2>. HIDE DEF f, N
  <2>. QED
    BY <2>1, ImageIsFinite
<1>. HIDE DEF f, N, k
<1>3. Cardinality(1..k + 1) = k + 1 /\ IsFiniteSet(1..k + 1)
  BY <1>1, FS_Interval
<1>4. Cardinality(N) \in Nat
  BY <1>2, FS_CardinalityType
<1>5. 1..k + 1 \ N # {}
  <2>. SUFFICES ASSUME 1..k + 1 \subseteq N PROVE FALSE
    OBVIOUS
  <2>1. k + 1 <= Cardinality(N)
    <3>1. 1..k + 1 \in SUBSET N
      OBVIOUS
    <3>2. Cardinality(1..k + 1) <= Cardinality(N)
      BY <1>2, <3>1, FS_Subset
    <3>. QED
      BY <1>3, <3>2
  <2>. QED
    BY <1>1, <1>2, <1>4, <2>1
<1>6. Min(1..k + 1 \ N) \in 1..k + 1 \ N
  BY <1>1, <1>5, LeastNumber
<1>. QED
  BY <1>1, <1>6 DEF N, k

-----------------------------------------------------------------------------
(* The calls and records an operator is called with.                        *)

\* The record j that an operator writes is the loop's, or a new cycle's.
Follows(j) ==
  /\ j \in Jobs /\ j.own = job.own
  /\ j.current = job.current \/ j = Idle
  /\ j.status = "stopped" => job.status = "stopped"

\* Writing j leaves the loop overtaken.
Overtakes(j) == overtaken \/ (Resets(j) /\ (Launching \/ Live(job)))

\* The calls cs that it leaves are as the invariants want them.
GoodCalls(cs, j) ==
  /\ cs \subseteq CallRecords /\ IsFiniteSet(cs)
  /\ \A c \in cs : c.copy \in 1..copies \cup {None} /\ c.run \in RunIds \cup {None}
  /\ \A c \in cs :
       /\ c.at \in {"opening", "claimed", "launching"} => c.iteration < Cap
       /\ c.at = "opening" => c.from # "stopped"
       /\ c.at = "recorded" => c.run # None
  /\ \A copy \in open : Discards(cs, copy) = Discards(calls, copy)
  /\ (\E c \in cs : c.at = "settling") => closing # None \/ job.own = None
  /\ \A c, d \in cs : Firing({c}) /\ Firing({d}) => c = d
  /\ Overtakes(j) \/
       /\ \A c \in cs : c.at = "launching" => c.mine
       /\ (\E c \in cs : Starting(c)) => \A r \in RunIds : runs[r].status # "live"

\* What the operators leave alone: of the people's deeds, only the last half of
\* a Run now waits, and it did before.
Frame ==
  /\ UNCHANGED <<runs, copies, open>>
  /\ hand' # None /\ hand'.at # "kill" => hand' = hand

Runner == [timer : BOOLEAN, sub : RunIds \cup {None}]

(* The calls there are satisfy it.                                          *)
LEMMA CallsAreGood ==
  ASSUME Core, NEW j
  PROVE  GoodCalls(calls, j)
<1>1. (\E c \in calls : c.at = "settling") => closing # None \/ job.own = None
  BY DEF Core, OwnershipInv, Continues
<1>. QED
  BY <1>1 DEF Core, CoreType, OwnershipInv, CallsAreSound, PassInv, GoodCalls,
              Overtakes

(* It is kept when a call ends that does not throw a copy away.             *)
LEMMA FewerCalls ==
  ASSUME NEW cs, NEW j, GoodCalls(cs, j), NEW c \in cs, c.at # "discarding"
  PROVE  GoodCalls(cs \ {c}, j)
<1>1. IsFiniteSet(cs \ {c})
  BY FS_RemoveElement DEF GoodCalls
<1>2. ASSUME NEW copy \in open
      PROVE  Discards(cs \ {c}, copy) = Discards(calls, copy)
  BY DEF GoodCalls, Discards
<1>. QED
  BY <1>1, <1>2 DEF GoodCalls

(* A new call is a record as the model keeps them.                          *)
LEMMA NewCall ==
  ASSUME LoopAssumption, Core, NEW src \in Sources, NEW at \in Steps,
         NEW j \in Jobs, j.own \in open \cup {None}
  PROVE  /\ Call(src, at, j) \in CallRecords
         /\ Call(src, at, j).copy \in 1..copies \cup {None}
         /\ Call(src, at, j).run = None
         /\ Call(src, at, j).at = at
         /\ Call(src, at, j).mine
         /\ Call(src, at, j).iteration = j.iteration
         /\ Call(src, at, j).from = j.status
<1>. DEFINE n == Min(1..Cardinality(calls) + 1 \ {c.n : c \in calls})
<1>1. n \in Nat \ {0}
  <2>1. \A c \in calls : c.n \in Nat
    BY DEF Core, CoreType, CallRecords
  <2>. QED
    BY <2>1, FreeNumber DEF Core, CoreType
<1>. HIDE DEF n
<1>2. Call(src, at, j) = [n |-> n, src |-> src, at |-> at, mine |-> TRUE,
                          revives |-> j.status = "stopped", waiting |-> FALSE,
                          from |-> j.status, iteration |-> j.iteration,
                          copy |-> j.own, run |-> None]
  BY DEF Call, n
<1>3. j.own \in 1..copies \cup {None} /\ j.own \in Nat \cup {None}
  <2>1. open \subseteq 1..copies /\ 1..copies \subseteq Nat
    BY DEF Core, CoreType
  <2>. QED
    BY <2>1
<1>4. j.status \in Statuses /\ j.iteration \in 0..Cap
  BY DEF Jobs
<1>5. Call(src, at, j) \in CallRecords
  BY <1>1, <1>2, <1>3, <1>4 DEF CallRecords
<1>. QED
  BY <1>2, <1>3, <1>5

(* It is kept when such a call joins the others: one that may fire while    *)
(* none does, starts nothing beside a live run, and is below the cap.       *)
LEMMA OneMoreCall ==
  ASSUME LoopAssumption, Core, NEW cs, NEW j, Follows(j), GoodCalls(cs, j),
         NEW src \in Sources,
         NEW at \in {"precheck", "settling", "opening", "launching"},
         at \in {"opening", "launching"} =>
            /\ j.iteration < Cap /\ j.status # "stopped" /\ ~Firing(cs)
            /\ ~Holds(j),
         at = "settling" => closing # None \/ job.own = None
  PROVE  GoodCalls(cs \cup {Call(src, at, j)}, j)
<1>. DEFINE new == Call(src, at, j)
<1>1. /\ new \in CallRecords /\ new.copy \in 1..copies \cup {None}
      /\ new.run = None /\ new.at = at /\ new.mine
      /\ new.iteration = j.iteration /\ new.from = j.status
  <2>1. at \in Steps /\ j \in Jobs /\ j.own \in open \cup {None}
    BY DEF Steps, Follows, Core, CoreType
  <2>. QED
    BY <2>1, NewCall
<1>. HIDE DEF new
<1>2. /\ cs \cup {new} \subseteq CallRecords /\ IsFiniteSet(cs \cup {new})
  BY <1>1, FS_AddElement DEF GoodCalls
<1>3. \A c \in cs \cup {new} : c.copy \in 1..copies \cup {None} /\ c.run \in RunIds \cup {None}
  BY <1>1 DEF GoodCalls
<1>4. \A c \in cs \cup {new} :
        /\ c.at \in {"opening", "claimed", "launching"} => c.iteration < Cap
        /\ c.at = "opening" => c.from # "stopped"
        /\ c.at = "recorded" => c.run # None
  BY <1>1 DEF GoodCalls
<1>5. ASSUME NEW copy \in open
      PROVE  Discards(cs \cup {new}, copy) = Discards(calls, copy)
  <2>1. Discards(cs \cup {new}, copy) = Discards(cs, copy)
    BY <1>1 DEF Discards
  <2>. QED
    BY <2>1 DEF GoodCalls
<1>6. (\E c \in cs \cup {new} : c.at = "settling") => closing # None \/ job.own = None
  BY <1>1 DEF GoodCalls
<1>7. ASSUME NEW c \in cs \cup {new}, NEW d \in cs \cup {new}, Firing({c}), Firing({d})
      PROVE  c = d
  BY <1>1, <1>7 DEF GoodCalls, Firing
<1>8. Overtakes(j) \/ /\ \A c \in cs \cup {new} : c.at = "launching" => c.mine
                      /\ (\E c \in cs \cup {new} : Starting(c)) =>
                           \A r \in RunIds : runs[r].status # "live"
  <2>. SUFFICES ASSUME ~Overtakes(j)
                PROVE  /\ \A c \in cs \cup {new} : c.at = "launching" => c.mine
                       /\ (\E c \in cs \cup {new} : Starting(c)) =>
                            \A r \in RunIds : runs[r].status # "live"
    OBVIOUS
  <2>1. \A c \in cs \cup {new} : c.at = "launching" => c.mine
    BY <1>1 DEF GoodCalls
  <2>2. Starting(new) => \A r \in RunIds : runs[r].status # "live"
    <3>. SUFFICES ASSUME Starting(new), NEW r \in RunIds, runs[r].status = "live"
                  PROVE  FALSE
      OBVIOUS
    <3>1. ~Holds(j)
      BY <1>1 DEF Starting
    <3>2. r = job.current /\ r # None
      BY DEF Core, CoreType, PassInv, Overtakes, LoopAssumption
    <3>3. Live(job)
      BY <3>2 DEF Live
    <3>4. j.current # job.current
      BY <3>1, <3>2 DEF Holds
    <3>5. j = Idle /\ job # Idle
      BY <3>2, <3>4 DEF Follows, Idle
    <3>. QED
      BY <3>3, <3>5 DEF Overtakes, Resets
  <2>. QED
    BY <2>1, <2>2 DEF GoodCalls
<1>. QED
  BY <1>2, <1>3, <1>4, <1>5, <1>6, <1>7, <1>8 DEF GoodCalls, new

(* It is kept when a check is asked to wait for more than one start.        *)
LEMMA WaitingCalls ==
  ASSUME NEW cs, NEW j, GoodCalls(cs, j), NEW wait \in BOOLEAN,
         NEW ds, ds = {[c EXCEPT !.waiting = @ \/ (wait /\ c.mine
                                              /\ c.at = "precheck")] : c \in cs}
  PROVE  GoodCalls(ds, j)
<1>. DEFINE w(c) == [c EXCEPT !.waiting = @ \/ (wait /\ c.mine /\ c.at = "precheck")]
<1>1. ASSUME NEW c \in cs
      PROVE  /\ w(c) \in CallRecords /\ w(c).at = c.at /\ w(c).mine = c.mine
             /\ w(c).iteration = c.iteration /\ w(c).from = c.from
             /\ w(c).copy = c.copy /\ w(c).run = c.run
             /\ c.at # "precheck" => w(c) = c
  <2>1. c \in CallRecords
    BY DEF GoodCalls
  <2>2. PICK q \in BOOLEAN : q <=> (c.waiting \/ (wait /\ c.mine /\ c.at = "precheck"))
    OBVIOUS
  <2>3. c.waiting \in BOOLEAN
    BY <2>1 DEF CallRecords
  <2>4. w(c) = [c EXCEPT !.waiting = q]
    BY <2>1, <2>2, <2>3 DEF CallRecords
  <2>5. c.at # "precheck" => q = c.waiting
    BY <2>2, <2>3
  <2>. QED
    BY <2>1, <2>4, <2>5 DEF CallRecords
<1>2. ds = {w(c) : c \in cs}
  OBVIOUS
<1>. HIDE DEF w
<1>3. IsFiniteSet(ds)
  <2>. DEFINE f == [c \in cs |-> w(c)]
  <2>1. f \in [cs -> CallRecords]
    BY <1>1
  <2>2. ds = {f[c] : c \in cs}
    BY <1>2
  <2>3. IsFiniteSet(cs)
    BY DEF GoodCalls
  <2>. HIDE DEF f
  <2>4. IsFiniteSet({f[c] : c \in cs})
    BY <2>1, <2>3, ImageIsFinite
  <2>. QED
    BY <2>2, <2>4, Zenon
<1>4. ds \subseteq CallRecords
  BY <1>1, <1>2
<1>5. ASSUME NEW d \in ds
      PROVE  \E c \in cs :
               /\ d.at = c.at /\ d.mine = c.mine /\ d.iteration = c.iteration
               /\ d.from = c.from /\ d.copy = c.copy /\ d.run = c.run
               /\ d.at # "precheck" => d = c
  BY <1>1, <1>2
<1>6. ASSUME NEW c \in cs, c.at # "precheck" PROVE c \in ds
  BY <1>1, <1>2, <1>6
<1>7. \A c \in ds : c.copy \in 1..copies \cup {None} /\ c.run \in RunIds \cup {None}
  BY <1>5 DEF GoodCalls
<1>8. \A c \in ds :
        /\ c.at \in {"opening", "claimed", "launching"} => c.iteration < Cap
        /\ c.at = "opening" => c.from # "stopped"
        /\ c.at = "recorded" => c.run # None
  BY <1>5 DEF GoodCalls
<1>9. ASSUME NEW copy \in open
      PROVE  Discards(ds, copy) = Discards(calls, copy)
  <2>1. Discards(ds, copy) = Discards(cs, copy)
    BY <1>5, <1>6 DEF Discards
  <2>. QED
    BY <2>1 DEF GoodCalls
<1>10. (\E c \in ds : c.at = "settling") => closing # None \/ job.own = None
  BY <1>5 DEF GoodCalls
<1>11. \A c, d \in ds : Firing({c}) /\ Firing({d}) => c = d
  BY <1>5 DEF GoodCalls, Firing
<1>12. Overtakes(j) \/ /\ \A c \in ds : c.at = "launching" => c.mine
                       /\ (\E c \in ds : Starting(c)) =>
                            \A r \in RunIds : runs[r].status # "live"
  BY <1>5 DEF GoodCalls, Starting
<1>. QED
  BY <1>3, <1>4, <1>7, <1>8, <1>9, <1>10, <1>11, <1>12 DEF GoodCalls

-----------------------------------------------------------------------------
(* The operators through which passes start and end.                        *)

(* Stay writes what it is given.                                            *)
LEMMA StayKeeps ==
  ASSUME LoopAssumption, Core, Frame, NEW j, NEW cs, NEW u,
         Follows(j), GoodCalls(cs, j), u \in Runner, Stay(j, cs, u)
  PROVE  Core'
<1>. USE DEF Stay
<1>1. RunIds' = RunIds
  BY DEF Frame, RunIds
<1>2. CoreType'
  <2>1. j \in Jobs /\ j.current \in RunIds \cup {None} /\ j.own \in open \cup {None}
    BY DEF Core, CoreType, Follows, Idle
  <2>2. overtaken' \in BOOLEAN
    OBVIOUS
  <2>. QED
    BY <1>1, <2>1, <2>2 DEF CoreType, Core, GoodCalls, Runner, Frame
<1>3. OwnershipInv'
  <2>1. CallsAreSound'
    BY DEF GoodCalls, CallsAreSound
  <2>2. OneOwner'
    BY DEF GoodCalls, OneOwner, Core, OwnershipInv, Follows, Frame, Discards
  <2>3. closing' # None => closing' = job'.own
    BY DEF Core, OwnershipInv, Follows
  <2>4. job'.status = "stopped" /\ job'.own # None => closing' = job'.own
    BY DEF Core, OwnershipInv, Follows
  <2>5. Continues' => job'.own = None
    <3>1. Continues' => closing' = None /\ ((\E c \in calls' : c.at = "settling")
                                  \/ (hand' # None /\ hand'.at # "kill"))
      BY DEF Continues
    <3>2. CASE \E c \in calls' : c.at = "settling"
      BY <3>1, <3>2 DEF GoodCalls, Follows
    <3>3. CASE hand' # None /\ hand'.at # "kill"
      BY <3>1, <3>3 DEF Frame, Core, OwnershipInv, Continues, Follows
    <3>. QED
      BY <3>1, <3>2, <3>3
  <2>. QED
    BY <2>1, <2>2, <2>3, <2>4, <2>5 DEF OwnershipInv
<1>4. PassInv'
  <2>1. \A c, d \in calls' : Firing({c})' /\ Firing({d})' => c = d
    BY DEF GoodCalls, Firing
  <2>2. overtaken' <=> Overtakes(j)
    BY DEF Overtakes
  <2>3. ASSUME ~Overtakes(j), NEW r \in RunIds, runs[r].status = "live"
        PROVE  r = j.current
    BY <2>3 DEF Overtakes, Resets, Live, Core, CoreType, PassInv, Follows,
                LoopAssumption
  <2>. QED
    BY <1>1, <2>1, <2>2, <2>3 DEF PassInv, GoodCalls, Starting, Frame
<1>. QED
  BY <1>2, <1>3, <1>4 DEF Core

(* When the loop is forgotten, every call learns that it is not its own.    *)
LEMMA DisownedCalls ==
  ASSUME Core, NEW cs, cs \subseteq calls
  PROVE  /\ Disowned(cs) \subseteq CallRecords /\ IsFiniteSet(Disowned(cs))
         /\ \A d \in Disowned(cs) : \E c \in cs :
              /\ ~d.mine /\ d.at = c.at /\ d.iteration = c.iteration
              /\ d.from = c.from /\ d.copy = c.copy /\ d.run = c.run
         /\ \A copy : Discards(cs, copy) = {} => Discards(Disowned(cs), copy) = {}
<1>. DEFINE w(c) == [c EXCEPT !.mine = FALSE]
<1>1. ASSUME NEW c \in cs
      PROVE  /\ w(c) \in CallRecords /\ w(c).at = c.at /\ ~w(c).mine
             /\ w(c).iteration = c.iteration /\ w(c).from = c.from
             /\ w(c).copy = c.copy /\ w(c).run = c.run
  <2>1. c \in CallRecords
    BY DEF Core, CoreType
  <2>. QED
    BY <2>1 DEF CallRecords
<1>2. Disowned(cs) = {w(c) : c \in cs}
  BY DEF Disowned
<1>. HIDE DEF w
<1>3. IsFiniteSet(Disowned(cs))
  <2>. DEFINE f == [c \in cs |-> w(c)]
  <2>1. f \in [cs -> CallRecords] /\ Disowned(cs) = {f[c] : c \in cs}
    BY <1>1, <1>2
  <2>2. IsFiniteSet(cs)
    BY FS_Subset DEF Core, CoreType
  <2>. HIDE DEF f
  <2>. QED
    BY <2>1, <2>2, ImageIsFinite
<1>4. ASSUME NEW copy, Discards(cs, copy) = {}
      PROVE  Discards(Disowned(cs), copy) = {}
  BY <1>1, <1>2, <1>4 DEF Discards
<1>5. Disowned(cs) \subseteq CallRecords
  BY <1>1, <1>2
<1>6. ASSUME NEW d \in Disowned(cs)
      PROVE  \E c \in cs :
               /\ ~d.mine /\ d.at = c.at /\ d.iteration = c.iteration
               /\ d.from = c.from /\ d.copy = c.copy /\ d.run = c.run
  BY <1>1, <1>2
<1>. QED
  BY <1>3, <1>4, <1>5, <1>6

(* The one that throws a copy away is still the only one.                   *)
LEMMA DisownedOne ==
  ASSUME Core, NEW cs, cs \subseteq calls, NEW copy, \E c : Discards(cs, copy) = {c}
  PROVE  \E d : Discards(Disowned(cs), copy) = {d}
<1>. PICK c : Discards(cs, copy) = {c}
  OBVIOUS
<1>. DEFINE w(e) == [e EXCEPT !.mine = FALSE]
<1>1. ASSUME NEW e \in cs PROVE w(e).at = e.at /\ w(e).copy = e.copy
  <2>1. e \in CallRecords
    BY DEF Core, CoreType
  <2>. QED
    BY <2>1 DEF CallRecords
<1>2. Disowned(cs) = {w(e) : e \in cs}
  BY DEF Disowned
<1>. HIDE DEF w
<1>3. Discards(Disowned(cs), copy) = {w(c)}
  BY <1>1, <1>2 DEF Discards
<1>. QED
  BY <1>3

(* The calls of a loop are not its own any more: whatever is done with its  *)
(* copy and its runs, nothing fires, and no copy loses or gains an owner.   *)
LEMMA ForgottenKeeps ==
  ASSUME Core, NEW cs, cs \subseteq calls,
         \A copy \in open : Discards(cs, copy) = Discards(calls, copy),
         calls' = Disowned(cs), runner' = NoRunner, watch' \subseteq watch,
         RunIds' = RunIds, UNCHANGED <<copies, open>>,
         job' \in Jobs, job'.own = job.own, job'.current \in {job.current, None},
         closing' \in {closing, job.own},
         job'.status = "stopped" /\ job.own # None => closing' = job.own,
         Continues' => job.own = None,
         overtaken' \in BOOLEAN,
         ~overtaken' => /\ ~Launching
                        /\ \A r \in RunIds : runs'[r].status = "live" => r = job'.current
  PROVE  Core'
<1>1. /\ calls' \subseteq CallRecords /\ IsFiniteSet(calls')
      /\ \A d \in calls' : \E c \in calls :
           /\ ~d.mine /\ d.at = c.at /\ d.iteration = c.iteration
           /\ d.from = c.from /\ d.copy = c.copy /\ d.run = c.run
  BY DisownedCalls
<1>2. CoreType'
  <2>1. runner' \in [timer : BOOLEAN, sub : RunIds \cup {None}]
    BY DEF NoRunner
  <2>2. \A c \in calls' : c.copy \in 1..copies \cup {None} /\ c.run \in RunIds \cup {None}
    BY <1>1 DEF Core, CoreType
  <2>3. closing' \in open \cup {None} /\ job'.current \in RunIds \cup {None}
    BY DEF Core, CoreType
  <2>. QED
    BY <1>1, <2>1, <2>2, <2>3 DEF CoreType, Core
<1>3. OwnershipInv'
  <2>1. CallsAreSound'
    BY <1>1 DEF CallsAreSound, Core, OwnershipInv
  <2>2. OneOwner'
    <3>. SUFFICES ASSUME NEW copy \in open
                  PROVE  IF job.own = copy THEN Discards(calls', copy) = {}
                         ELSE \E c \in calls' : Discards(calls', copy) = {c}
      BY DEF OneOwner, Discards
    <3>1. Discards(cs, copy) = Discards(calls, copy)
      OBVIOUS
    <3>2. CASE job.own = copy
      <4>1. Discards(calls, copy) = {}
        BY <3>2 DEF Core, OwnershipInv, OneOwner
      <4>. QED
        BY <3>1, <3>2, <4>1, DisownedCalls
    <3>3. CASE job.own # copy
      <4>1. \E c \in calls : Discards(calls, copy) = {c}
        BY <3>3 DEF Core, OwnershipInv, OneOwner
      <4>2. \E c : Discards(cs, copy) = {c}
        BY <3>1, <4>1
      <4>3. \E d : Discards(Disowned(cs), copy) = {d}
        BY <4>2, DisownedOne
      <4>4. PICK d : Discards(calls', copy) = {d}
        BY <4>3, Zenon
      <4>5. d \in calls'
        BY <4>4 DEF Discards
      <4>. QED
        BY <3>3, <4>4, <4>5
    <3>. QED
      BY <3>2, <3>3
  <2>3. closing' # None => closing' = job.own
    BY DEF Core, OwnershipInv
  <2>. QED
    BY <2>1, <2>2, <2>3 DEF OwnershipInv
<1>4. PassInv'
  <2>1. \A c \in calls' : ~Firing({c})' /\ ~Starting(c)'
    BY <1>1 DEF Firing, Starting
  <2>2. ASSUME ~overtaken', NEW c \in calls' PROVE c.at # "launching"
    BY <1>1, <2>2 DEF Launching
  <2>. QED
    BY <2>1, <2>2 DEF PassInv, Firing, Starting
<1>. QED
  BY <1>2, <1>3, <1>4 DEF Core

(* The live run is the one the record names, unless the loop is overtaken.  *)
LEMMA LiveIsHeld ==
  ASSUME LoopAssumption, Core, ~overtaken, NEW r \in RunIds, runs[r].status = "live"
  PROVE  r = job.current /\ Live(job)
BY DEF Core, CoreType, PassInv, LoopAssumption, Live

(* Finalize ends the loop: its copy is being closed, and what still         *)
(* launches or works overtakes it.                                          *)
LEMMA FinalizeKeeps ==
  ASSUME LoopAssumption, Core, Frame, NEW j, NEW cs, NEW u,
         j \in Jobs, j.own = job.own, j.current = job.current,
         cs \subseteq calls, \A copy \in open : Discards(cs, copy) = Discards(calls, copy),
         u \in Runner, Finalize(j, cs, u)
  PROVE  Core'
<1>1. RunIds' = RunIds /\ UNCHANGED <<runs, copies, open>>
  BY DEF Frame, RunIds
<1>2. /\ job' \in Jobs /\ job'.status = "stopped" /\ job'.current = None
      /\ job'.own = job.own
  BY DEF Finalize, Jobs, Statuses
<1>3. /\ calls' = Disowned(cs) /\ runner' = NoRunner /\ watch' \subseteq watch
      /\ overtaken' \in BOOLEAN
      /\ closing' = IF closing = None THEN job.own ELSE closing
  BY DEF Finalize
<1>4. /\ closing' \in {closing, job.own} /\ job.own # None => closing' = job.own
      /\ Continues' => job.own = None
  BY <1>3 DEF Core, OwnershipInv, Continues
<1>5. ~overtaken' => /\ ~Launching
                     /\ \A r \in RunIds : runs'[r].status = "live" => r = job'.current
  <2>. SUFFICES ASSUME ~overtaken', NEW r \in RunIds, runs[r].status = "live"
                PROVE  FALSE
    BY <1>1 DEF Finalize
  <2>1. ~overtaken /\ ~Live(j)
    BY DEF Finalize
  <2>. QED
    BY <2>1, LiveIsHeld DEF Live
<1>. QED
  BY <1>1, <1>2, <1>3, <1>4, <1>5, ForgottenKeeps

(* Begin ends a loop that is at its cap, and lets a call through only while *)
(* none fires and no run is under way.                                      *)
LEMMA BeginKeeps ==
  ASSUME LoopAssumption, Core, Frame, NEW src \in Sources, NEW j, NEW cs, NEW u,
         Follows(j), j.status # "stopped", GoodCalls(cs, j), cs \subseteq calls,
         u \in Runner, Begin(src, j, cs, u)
  PROVE  Core'
<1>1. CASE Firing(cs) \/ Holds(j)
  BY <1>1, StayKeeps DEF Begin
<1>2. CASE ~(Firing(cs) \/ Holds(j)) /\ j.iteration >= Cap
  <2>1. j \in Jobs /\ j.own = job.own
    BY DEF Follows
  <2>2. j.current = job.current
    BY <1>2 DEF Follows, Idle, LoopAssumption
  <2>3. \A copy \in open : Discards(cs, copy) = Discards(calls, copy)
    BY DEF GoodCalls
  <2>4. Finalize(j, cs, u)
    BY <1>2 DEF Begin
  <2>. QED
    BY <2>1, <2>2, <2>3, <2>4, FinalizeKeeps
<1>3. CASE ~(Firing(cs) \/ Holds(j)) /\ ~(j.iteration >= Cap)
  <2>. DEFINE at == IF setup.own /\ j.own = None /\ j.iteration = 0
                    THEN "opening" ELSE "launching"
  <2>1. at \in {"opening", "launching"}
    OBVIOUS
  <2>2. Stay(j, cs \cup {Call(src, at, j)}, u)
    BY <1>3 DEF Begin
  <2>. HIDE DEF at
  <2>3. j.iteration < Cap
    BY <1>3 DEF Follows, Jobs, LoopAssumption
  <2>4. GoodCalls(cs \cup {Call(src, at, j)}, j)
    BY <1>3, <2>1, <2>3, OneMoreCall
  <2>. QED
    BY <2>2, <2>4, StayKeeps
<1>. QED
  BY <1>1, <1>2, <1>3

(* Proceed begins a new cycle only when the last copy is forgotten.         *)
LEMMA ProceedKeeps ==
  ASSUME LoopAssumption, Core, Frame, NEW src \in Sources, NEW j, NEW cs, NEW u,
         Follows(j), \A k : GoodCalls(cs, k), cs \subseteq calls,
         u \in Runner, Proceed(src, j, cs, u)
  PROVE  Core'
<1>1. CASE j.status # "stopped"
  <2>1. Begin(src, j, cs, u)
    BY <1>1 DEF Proceed
  <2>. QED
    BY <1>1, <2>1, BeginKeeps
<1>2. CASE j.status = "stopped" /\ j.own # None
  <2>1. closing # None \/ job.own = None
    BY <1>2 DEF Follows, Core, OwnershipInv
  <2>2. GoodCalls(cs \cup {Call(src, "settling", j)}, j)
    BY <2>1, OneMoreCall
  <2>3. Stay(j, cs \cup {Call(src, "settling", j)}, u)
    BY <1>2 DEF Proceed
  <2>. QED
    BY <2>2, <2>3, StayKeeps
<1>3. CASE j.status = "stopped" /\ j.own = None
  <2>1. Begin(src, Idle, cs, u)
    BY <1>3 DEF Proceed
  <2>2. Follows(Idle) /\ Idle.status # "stopped"
    BY <1>3 DEF Follows, Idle, Jobs, Statuses, LoopAssumption
  <2>. QED
    BY <2>1, <2>2, BeginKeeps
<1>. QED
  BY <1>1, <1>2, <1>3

(* The check before a pass is asked for: one check at a time.               *)
LEMMA AskPrecheckKeeps ==
  ASSUME LoopAssumption, Core, Frame, NEW src \in Sources, NEW j, NEW cs, NEW u,
         Follows(j), GoodCalls(cs, j), u \in Runner, AskPrecheck(src, j, cs, u)
  PROVE  Core'
<1>1. CASE Checking(cs)
  <2>. DEFINE wait == src = "cadence"
              ds == {[c EXCEPT !.waiting = @ \/ (wait /\ c.mine
                                              /\ c.at = "precheck")] : c \in cs}
  <2>1. wait \in BOOLEAN /\ Stay(j, ds, u)
    BY <1>1 DEF AskPrecheck
  <2>. HIDE DEF wait
  <2>2. GoodCalls(ds, j)
    BY <2>1, WaitingCalls
  <2>. HIDE DEF ds
  <2>. QED
    BY <2>1, <2>2, StayKeeps
<1>2. CASE ~Checking(cs) /\ (Firing(cs) \/ Holds(j))
  BY <1>2, StayKeeps DEF AskPrecheck
<1>3. CASE ~Checking(cs) /\ ~(Firing(cs) \/ Holds(j))
  <2>1. Stay(j, cs \cup {Call(src, "precheck", j)}, u)
    BY <1>3 DEF AskPrecheck
  <2>2. GoodCalls(cs \cup {Call(src, "precheck", j)}, j)
    BY OneMoreCall
  <2>. QED
    BY <2>1, <2>2, StayKeeps
<1>. QED
  BY <1>1, <1>2, <1>3

(* Enter is what a trigger, a timer, the end of a pass and a person call.   *)
LEMMA EnterKeeps ==
  ASSUME LoopAssumption, Core, Frame, NEW src \in Sources, NEW j, NEW u,
         Follows(j), u \in Runner, Enter(src, j, u)
  PROVE  Core'
<1>1. \A k : GoodCalls(calls, k)
  BY CallsAreGood
<1>2. CASE closing # None \/ j.status = "paused"
           \/ (j.status = "stopped" /\ src \notin Revives)
  <2>1. Stay(j, calls, u)
    BY <1>2 DEF Enter
  <2>. QED
    BY <1>1, <2>1, StayKeeps
<1>3. CASE ~(closing # None \/ j.status = "paused"
             \/ (j.status = "stopped" /\ src \notin Revives))
  <2>1. AskPrecheck(src, j, calls, u) \/ Proceed(src, j, calls, u)
    BY <1>3 DEF Enter
  <2>. QED
    BY <1>1, <2>1, AskPrecheckKeeps, ProceedKeeps
<1>. QED
  BY <1>2, <1>3

(* Continue is the end of a pass that is not the last.                      *)
LEMMA ContinueKeeps ==
  ASSUME LoopAssumption, Core, Frame, setup \in Setup, NEW j, NEW u,
         j \in Jobs, j.own = job.own, j.current = job.current,
         j.status = "stopped" => job.status = "stopped",
         u \in Runner, Continue(j, u)
  PROVE  Core'
<1>1. CASE setup.kind = "cadence"
  <2>. DEFINE i == [j EXCEPT !.status = "idle", !.due = TRUE]
              v == [u EXCEPT !.timer = TRUE]
  <2>1. Stay(i, calls, v)
    BY <1>1 DEF Continue
  <2>2. Follows(i)
    BY DEF Follows, Jobs, Statuses
  <2>3. v \in Runner
    BY DEF Runner
  <2>4. GoodCalls(calls, i)
    BY CallsAreGood
  <2>. HIDE DEF i, v
  <2>. QED
    BY <2>1, <2>2, <2>3, <2>4, StayKeeps
<1>2. CASE setup.kind # "cadence"
  <2>1. Enter(setup.kind, j, u)
    BY <1>2 DEF Continue
  <2>2. setup.kind \in Sources
    BY DEF Setup, Sources
  <2>3. Follows(j)
    BY DEF Follows
  <2>. QED
    BY <2>1, <2>2, <2>3, EnterKeeps
<1>. QED
  BY <1>1, <1>2

(* Decide is what the end of a run leads to.                                *)
LEMMA DecideKeeps ==
  ASSUME LoopAssumption, Core, Frame, setup \in Setup, NEW r \in RunIds, NEW j, NEW u,
         j \in Jobs, j.own = job.own, j.current = job.current,
         j.status = "stopped" => job.status = "stopped",
         u \in Runner, Decide(r, j, u)
  PROVE  Core'
<1>1. Follows(j) /\ GoodCalls(calls, j)
  BY CallsAreGood DEF Follows
<1>2. Stay(j, calls, u) \/ Finalize(j, calls, u) \/ Continue(j, u)
  BY DEF Decide
<1>3. ASSUME Stay(j, calls, u) PROVE Core'
  BY <1>1, <1>3, StayKeeps
<1>4. ASSUME Finalize(j, calls, u) PROVE Core'
  BY <1>4, FinalizeKeeps
<1>5. ASSUME Continue(j, u) PROVE Core'
  BY <1>5, ContinueKeeps
<1>. QED
  BY <1>2, <1>3, <1>4, <1>5

-----------------------------------------------------------------------------
(* The runs, what was told of them, and the checks at work after them.      *)

(* A sequence is a function on the numbers up to its length.                *)
LEMMA InSequence ==
  ASSUME NEW S, NEW s \in Seq(S)
  PROVE  Len(s) \in Nat /\ DOMAIN s = 1 .. Len(s) /\ \A k \in DOMAIN s : s[k] \in S
OBVIOUS

(* A new element comes after the others.                                    *)
LEMMA AppendOf ==
  ASSUME NEW S, NEW s \in Seq(S), NEW x \in S
  PROVE  /\ Append(s, x) \in Seq(S) /\ Len(Append(s, x)) = Len(s) + 1
         /\ DOMAIN Append(s, x) = DOMAIN s \cup {Len(s) + 1}
         /\ \A k \in DOMAIN s : Append(s, x)[k] = s[k]
         /\ Append(s, x)[Len(s) + 1] = x
<1>1. Append(s, x) \in Seq(S) /\ Len(Append(s, x)) = Len(s) + 1
  OBVIOUS
<1>2. Len(s) \in Nat /\ DOMAIN s = 1 .. Len(s) /\ DOMAIN Append(s, x) = 1 .. Len(s) + 1
  BY <1>1, InSequence
<1>3. 1 .. Len(s) + 1 = 1 .. Len(s) \cup {Len(s) + 1}
  BY <1>2
<1>. QED
  BY <1>1, <1>2, <1>3

(* An element that is replaced leaves the others where they are.            *)
LEMMA ExceptOf ==
  ASSUME NEW S, NEW s \in Seq(S), NEW k \in DOMAIN s, NEW x \in S
  PROVE  /\ [s EXCEPT ![k] = x] \in Seq(S)
         /\ DOMAIN [s EXCEPT ![k] = x] = DOMAIN s
         /\ \A i \in DOMAIN s : [s EXCEPT ![k] = x][i] = IF i = k THEN x ELSE s[i]
<1>1. k \in 1 .. Len(s)
  BY InSequence
<1>. QED
  BY <1>1, ExceptSeq

RunRecords == [status : {"live", "killed", "complete", "failed"}, copy : Nat \cup {None}]

(* The runs are numbered from one.                                          *)
LEMMA RunsAre ==
  ASSUME RestType
  PROVE  /\ runs \in Seq(RunRecords) /\ Len(runs) \in Nat
         /\ RunIds = 1 .. Len(runs) /\ \A r \in RunIds : runs[r] \in RunRecords
<1>1. runs \in Seq(RunRecords)
  BY DEF RestType, RunRecords
<1>. HIDE DEF RunRecords
<1>. QED
  BY <1>1, InSequence DEF RunIds

(* The next run: it is live, and nothing changes for the runs before it.    *)
LEMMA NextRun ==
  ASSUME RestType, NEW copy \in Nat \cup {None},
         runs' = Append(runs, [status |-> "live", copy |-> copy])
  PROVE  /\ runs' \in Seq(RunRecords) /\ Len(runs') = Len(runs) + 1
         /\ RunIds' = RunIds \cup {Len(runs')}
         /\ \A r \in RunIds : runs'[r] = runs[r]
<1>. DEFINE run == [status |-> "live", copy |-> copy]
<1>1. run \in RunRecords
  BY DEF RunRecords
<1>2. runs' = Append(runs, run) /\ runs \in Seq(RunRecords)
  BY RunsAre
<1>. HIDE DEF run
<1>. HIDE DEF RunRecords
<1>. QED
  BY <1>1, <1>2, AppendOf DEF RunIds

(* A run that changes stays a run, and none becomes live by it.             *)
LEMMA ChangedRun ==
  ASSUME RestType, NEW r \in RunIds, NEW status \in {"killed", "complete", "failed"},
         runs' = [runs EXCEPT ![r].status = status]
  PROVE  /\ runs' \in Seq(RunRecords) /\ RunIds' = RunIds
         /\ \A i \in RunIds : runs'[i].status = "live" =>
                                i # r /\ runs[i].status = "live"
<1>. DEFINE run == [runs[r] EXCEPT !.status = status]
<1>1. run \in RunRecords /\ run.status = status
  <2>1. runs[r] \in RunRecords
    BY RunsAre
  <2>. QED
    BY <2>1 DEF RunRecords
<1>2. runs' = [runs EXCEPT ![r] = run]
  OBVIOUS
<1>3. runs \in Seq(RunRecords)
  BY RunsAre
<1>. HIDE DEF run
<1>. HIDE DEF RunRecords
<1>4. /\ runs' \in Seq(RunRecords) /\ DOMAIN runs' = DOMAIN runs
      /\ \A i \in DOMAIN runs : runs'[i] = IF i = r THEN run ELSE runs[i]
  BY <1>1, <1>2, <1>3, ExceptOf DEF RunIds
<1>. QED
  BY <1>1, <1>4 DEF RunIds

-----------------------------------------------------------------------------
(* Steps that start passes.                                                 *)

(* What no step of a pass touches keeps its type.                           *)
LEMMA RestStays ==
  ASSUME RestType, UNCHANGED <<setup, runs, told, checks, hand, lapsed>>
  PROVE  RestType'
BY DEF RestType, RunIds

(* The loop's own record, and the runner with or without its timer.         *)
LEMMA LoopFollows ==
  ASSUME Core
  PROVE  /\ Follows(job) /\ job \in Jobs /\ runner \in Runner
         /\ \A t \in BOOLEAN : [runner EXCEPT !.timer = t] \in Runner
         /\ Follows([job EXCEPT !.due = TRUE])
BY DEF Core, CoreType, Follows, Runner, Jobs

(* A new cycle may begin once the last copy is forgotten.                   *)
LEMMA IdleFollows ==
  ASSUME LoopAssumption, job.own = None
  PROVE  Follows(Idle) /\ Idle.status # "stopped"
BY DEF Follows, Idle, Jobs, Statuses, LoopAssumption

\* A trigger that fires adds a call of its own, and leaves record and copy
\* alone.
LEMMA FireKeeps ==
  ASSUME LoopAssumption, Inv, Fire
  PROVE  Inv'
<1>1. Core'
  <2>1. Enter("trigger", job, runner) /\ Frame /\ "trigger" \in Sources
    BY DEF Fire, Rest, Frame, copying, Sources
  <2>. QED
    BY <2>1, LoopFollows, EnterKeeps DEF Inv
<1>2. RestType'
  BY RestStays DEF Inv, Fire, Rest
<1>. QED
  BY <1>1, <1>2 DEF Inv

\* So does the timer of the next pass.
LEMMA TickKeeps ==
  ASSUME LoopAssumption, Inv, Tick
  PROVE  Inv'
<1>1. Core'
  <2>. DEFINE u == [runner EXCEPT !.timer = FALSE]
  <2>1. Enter("cadence", job, u) /\ Frame /\ "cadence" \in Sources
    BY DEF Tick, Rest, Frame, copying, Sources
  <2>2. u \in Runner
    BY LoopFollows DEF Inv
  <2>. HIDE DEF u
  <2>. QED
    BY <2>1, <2>2, LoopFollows, EnterKeeps DEF Inv
<1>2. RestType'
  BY RestStays DEF Inv, Tick, Rest
<1>. QED
  BY <1>1, <1>2 DEF Inv

\* A check that passes lets its call go on to the copy or the launch; on a
\* paused or stopped loop it ends the call.
LEMMA PrecheckPassesKeeps ==
  ASSUME LoopAssumption, Inv, NEW c \in calls, PrecheckPasses(c)
  PROVE  Inv'
<1>1. Core'
  <2>1. Frame /\ c.at # "discarding"
    BY DEF PrecheckPasses, Rest, Frame, copying
  <2>2. \A k : GoodCalls(calls \ {c}, k)
    BY <2>1, CallsAreGood, FewerCalls DEF Inv
  <2>3. Stay(job, calls \ {c}, runner) \/ Proceed(c.src, job, calls \ {c}, runner)
    BY DEF PrecheckPasses
  <2>4. c.src \in Sources
    BY DEF Inv, Core, CoreType, CallRecords
  <2>5. calls \ {c} \subseteq calls
    OBVIOUS
  <2>6. ASSUME Stay(job, calls \ {c}, runner) PROVE Core'
    BY <2>1, <2>2, <2>6, LoopFollows, StayKeeps DEF Inv
  <2>7. ASSUME Proceed(c.src, job, calls \ {c}, runner) PROVE Core'
    BY <2>1, <2>2, <2>4, <2>5, <2>7, LoopFollows, ProceedKeeps DEF Inv
  <2>. QED
    BY <2>3, <2>6, <2>7
<1>2. RestType'
  BY RestStays DEF Inv, PrecheckPasses, Rest
<1>. QED
  BY <1>1, <1>2 DEF Inv

\* A check that refuses ends its call, and with it perhaps the loop.
LEMMA PrecheckRefusesKeeps ==
  ASSUME LoopAssumption, Inv, NEW c \in calls, PrecheckRefuses(c)
  PROVE  Inv'
<1>1. Core'
  <2>. DEFINE again == /\ setup.kind = "cadence"
                       /\ c.src = "cadence" \/ c.waiting
                       /\ job.status \notin {"paused", "stopped"}
              j == IF again THEN [job EXCEPT !.due = TRUE] ELSE job
              u == [runner EXCEPT !.timer = @ \/ again]
  <2>1. Frame /\ c.at # "discarding" /\ Stay(j, calls \ {c}, u)
    BY DEF PrecheckRefuses, Rest, Frame, copying
  <2>2. Follows(j)
    BY LoopFollows DEF Inv
  <2>3. u \in Runner
    BY DEF Inv, Core, CoreType, Runner
  <2>4. GoodCalls(calls \ {c}, j)
    BY <2>1, CallsAreGood, FewerCalls DEF Inv
  <2>. HIDE DEF j, u
  <2>. QED
    BY <2>1, <2>2, <2>3, <2>4, StayKeeps DEF Inv
<1>2. RestType'
  BY RestStays DEF Inv, PrecheckRefuses, Rest
<1>. QED
  BY <1>1, <1>2 DEF Inv

\* A call that waited for its run to settle begins the new cycle once the
\* old copy is closed.
LEMMA SettledKeeps ==
  ASSUME LoopAssumption, Inv, NEW c \in calls, Settled(c)
  PROVE  Inv'
<1>1. Core'
  <2>1. /\ Frame /\ c.at # "discarding"
        /\ Begin(c.src, Idle, calls \ {c}, runner)
    BY DEF Settled, Rest, Frame, copying
  <2>2. job.own = None
    BY DEF Settled, Inv, Core, OwnershipInv, Continues
  <2>3. GoodCalls(calls \ {c}, Idle)
    BY <2>1, CallsAreGood, FewerCalls DEF Inv
  <2>4. c.src \in Sources /\ calls \ {c} \subseteq calls
    BY DEF Inv, Core, CoreType, CallRecords
  <2>. QED
    BY <2>1, <2>2, <2>3, <2>4, IdleFollows, LoopFollows, BeginKeeps DEF Inv
<1>2. RestType'
  BY RestStays DEF Inv, Settled, Rest
<1>. QED
  BY <1>1, <1>2 DEF Inv

(* A call that ends, and nothing else.                                      *)
LEMMA CallEnds ==
  ASSUME LoopAssumption, Core, NEW c \in calls, c.at # "discarding",
         calls' = calls \ {c},
         UNCHANGED <<job, runner, runs, watch, hand, closing, copies, open, overtaken>>
  PROVE  Core'
<1>1. Stay(job, calls \ {c}, runner)
  BY DEF Stay, Resets, Core, CoreType
<1>2. Frame
  BY DEF Frame
<1>3. GoodCalls(calls \ {c}, job)
  BY CallsAreGood, FewerCalls
<1>. QED
  BY <1>1, <1>2, <1>3, LoopFollows, StayKeeps

\* A copy that cannot be opened, or a launch that fails, ends its call.
LEMMA OpenFailsKeeps ==
  ASSUME LoopAssumption, Inv, NEW c \in calls, OpenFails(c) \/ LaunchFails(c)
  PROVE  Inv'
<1>1. Core'
  BY CallEnds DEF Inv, OpenFails, LaunchFails, copying
<1>2. RestType'
  BY DEF Inv, OpenFails, LaunchFails, RestType, RunIds
<1>. QED
  BY <1>1, <1>2 DEF Inv

(* A call may take the place of another.                                    *)
LEMMA ExchangedCall ==
  ASSUME Core, NEW c \in calls, NEW d \in CallRecords, NEW cs,
         cs = (calls \ {c}) \cup {d}
  PROVE  cs \subseteq CallRecords /\ IsFiniteSet(cs)
<1>1. cs \subseteq CallRecords
  BY DEF Core, CoreType
<1>2. IsFiniteSet(cs)
  BY FS_AddElement, FS_RemoveElement DEF Core, CoreType
<1>. QED
  BY <1>1, <1>2

(* The claim of a copy is written.                                          *)
LEMMA ClaimedKeeps ==
  ASSUME LoopAssumption, Inv, NEW c \in calls, Claimed(c)
  PROVE  Inv'
<1>1. CASE ~c.mine
  <2>1. Core'
    BY <1>1, CallEnds DEF Inv, Claimed, copying, history
  <2>2. RestType'
    BY RestStays DEF Inv, Claimed, history
  <2>. QED
    BY <2>1, <2>2 DEF Inv
<1>2. CASE c.mine
  <2>. DEFINE d == [c EXCEPT !.at = "launching"]
              cs == (calls \ {c}) \cup {d}
  <2>1. /\ d \in CallRecords /\ d.at = "launching" /\ d.mine /\ c.at = "claimed"
        /\ d.iteration = c.iteration /\ d.copy = c.copy /\ d.run = c.run
    <3>1. c \in CallRecords
      BY DEF Inv, Core, CoreType
    <3>. QED
      BY <1>2, <3>1 DEF Claimed, CallRecords, Steps
  <2>2. calls' = cs
    BY <1>2 DEF Claimed, With
  <2>. HIDE DEF d
  <2>3. /\ cs \subseteq CallRecords /\ IsFiniteSet(cs)
        /\ \A e, f \in cs : Firing({e}) /\ Firing({f}) => e = f
    <3>1. cs \subseteq CallRecords /\ IsFiniteSet(cs)
      BY <2>1, ExchangedCall DEF Inv
    <3>2. \A e, f \in cs : Firing({e}) /\ Firing({f}) => e = f
      BY <1>2, <2>1 DEF Inv, Core, PassInv, Firing
    <3>. QED
      BY <3>1, <3>2
  <2>4. GoodCalls(cs, job)
    <3>1. GoodCalls(calls, job)
      BY CallsAreGood DEF Inv
    <3>2. \A e \in cs : e.copy \in 1..copies \cup {None} /\ e.run \in RunIds \cup {None}
      BY <2>1, <3>1 DEF GoodCalls
    <3>3. \A e \in cs :
            /\ e.at \in {"opening", "claimed", "launching"} => e.iteration < Cap
            /\ e.at = "opening" => e.from # "stopped"
            /\ e.at = "recorded" => e.run # None
      BY <2>1, <3>1 DEF GoodCalls
    <3>4. \A copy \in open : Discards(cs, copy) = Discards(calls, copy)
      BY <2>1 DEF Discards
    <3>5. (\E e \in cs : e.at = "settling") => closing # None \/ job.own = None
      BY <2>1, <3>1 DEF GoodCalls
    <3>6. Overtakes(job) \/ /\ \A e \in cs : e.at = "launching" => e.mine
                            /\ (\E e \in cs : Starting(e)) =>
                                  \A r \in RunIds : runs[r].status # "live"
      BY <1>2, <2>1, <3>1 DEF GoodCalls, Starting
    <3>. QED
      BY <2>3, <3>2, <3>3, <3>4, <3>5, <3>6 DEF GoodCalls
  <2>. HIDE DEF cs
  <2>5. Stay(job, cs, runner) /\ Frame
    BY <2>2 DEF Claimed, Stay, Resets, history, Frame, copying, Inv, Core, CoreType
  <2>6. Core'
    BY <2>4, <2>5, LoopFollows, StayKeeps DEF Inv
  <2>7. RestType'
    BY RestStays DEF Inv, Claimed, history
  <2>. QED
    BY <2>6, <2>7 DEF Inv
<1>. QED
  BY <1>1, <1>2

(* A copy is opened: the record claims it while nothing has changed since,  *)
(* and otherwise the call is the one that throws it away.                   *)
LEMMA OpenedKeeps ==
  ASSUME LoopAssumption, Inv, NEW c \in calls, Opened(c)
  PROVE  Inv'
<1>. DEFINE d == [c EXCEPT !.copy = copies', !.at = IF Claims(c) THEN "claimed" ELSE "discarding"]
<1>1. /\ d \in CallRecords /\ d.copy = copies + 1 /\ d.mine = c.mine
      /\ d.iteration = c.iteration /\ d.run = c.run /\ d.from = c.from
      /\ d.at = IF Claims(c) THEN "claimed" ELSE "discarding"
  <2>1. c \in CallRecords /\ copies \in Nat /\ copies' = copies + 1
    BY DEF Inv, Core, CoreType, Opened
  <2>2. copies' \in Nat \cup {None}
    BY <2>1
  <2>. QED
    BY <2>1, <2>2 DEF CallRecords, Steps
<1>2. calls' = (calls \ {c}) \cup {d} /\ c.at = "opening"
  BY DEF Opened
<1>. HIDE DEF d
<1>3. /\ calls' \subseteq CallRecords /\ IsFiniteSet(calls')
      /\ \A e, f \in calls' : Firing({e}) /\ Firing({f}) => e = f
  <2>1. calls' \subseteq CallRecords /\ IsFiniteSet(calls')
    BY <1>1, <1>2, ExchangedCall DEF Inv
  <2>2. \A e, f \in calls' : Firing({e}) /\ Firing({f}) => e = f
    BY <1>1, <1>2 DEF Inv, Core, PassInv, Firing
  <2>. QED
    BY <2>1, <2>2
<1>4. /\ copies \in Nat /\ copies' = copies + 1 /\ open' = open \cup {copies + 1}
      /\ copies + 1 \notin open /\ copies + 1 # None /\ copies + 1 \in Nat
      /\ open \subseteq 1..copies
      /\ 1..copies' = 1..copies \cup {copies + 1}
  BY DEF Opened, Inv, Core, CoreType, LoopAssumption
<1>5. /\ RunIds' = RunIds /\ runs' = runs /\ runner' = runner /\ watch' = watch
      /\ closing' = closing /\ hand' = hand /\ overtaken' = overtaken
  BY DEF Opened, RunIds, history
<1>6. /\ Claims(c) => /\ job' = [job EXCEPT !.own = copies + 1]
                      /\ job.own = None /\ job.status = c.from
      /\ ~Claims(c) => job' = job
  BY DEF Opened, Claims
<1>7. /\ job' \in Jobs /\ job'.status = job.status /\ job'.current = job.current
      /\ job'.own = IF Claims(c) THEN copies + 1 ELSE job.own
  BY <1>4, <1>6 DEF Inv, Core, CoreType, Jobs
<1>8. CoreType'
  <2>1. \A e \in calls' : e.copy \in 1..copies' \cup {None} /\ e.run \in RunIds \cup {None}
    BY <1>1, <1>2, <1>4 DEF Inv, Core, CoreType
  <2>2. job'.own \in open' \cup {None} /\ job'.current \in RunIds \cup {None}
    BY <1>4, <1>7 DEF Inv, Core, CoreType
  <2>3. closing' \in open' \cup {None} /\ open' \subseteq 1..copies' /\ copies' \in Nat
    BY <1>4, <1>5 DEF Inv, Core, CoreType
  <2>. QED
    BY <1>3, <1>5, <1>7, <2>1, <2>2, <2>3 DEF CoreType, Inv, Core
<1>9. OwnershipInv'
  <2>1. CallsAreSound'
    BY <1>1, <1>2 DEF CallsAreSound, Inv, Core, OwnershipInv
  <2>2. OneOwner'
    <3>. SUFFICES ASSUME NEW copy \in open'
                  PROVE  IF job'.own = copy THEN Discards(calls', copy) = {}
                         ELSE \E e \in calls' : Discards(calls', copy) = {e}
      BY DEF OneOwner, Discards
    <3>1. CASE copy = copies + 1
      <4>1. \A e \in calls : e.copy # copies + 1
        BY <1>4 DEF Inv, Core, CoreType
      <4>2. Discards(calls', copy) = IF Claims(c) THEN {} ELSE {d}
        BY <1>1, <1>2, <3>1, <4>1 DEF Discards
      <4>3. job.own # copies + 1
        BY <1>4 DEF Inv, Core, CoreType
      <4>. QED
        BY <1>2, <1>7, <3>1, <4>2, <4>3
    <3>2. CASE copy # copies + 1
      <4>1. Discards(calls', copy) = Discards(calls, copy) /\ copy \in open
        BY <1>1, <1>2, <1>4, <3>2 DEF Discards
      <4>2. job'.own = copy <=> job.own = copy
        BY <1>4, <1>6, <1>7, <3>2, <4>1
      <4>3. IF job.own = copy THEN Discards(calls, copy) = {}
            ELSE \E e \in calls : Discards(calls, copy) = {e}
        BY <4>1 DEF Inv, Core, OwnershipInv, OneOwner
      <4>4. \A e : Discards(calls', copy) = {e} => e \in calls'
        BY DEF Discards
      <4>. QED
        BY <4>1, <4>2, <4>3, <4>4
    <3>. QED
      BY <3>1, <3>2
  <2>3. closing' # None => closing' = job'.own
    BY <1>5, <1>6, <1>7 DEF Inv, Core, OwnershipInv
  <2>4. job'.status = "stopped" /\ job'.own # None => closing' = job'.own
    BY <1>2, <1>5, <1>6, <1>7 DEF Inv, Core, OwnershipInv, CallsAreSound
  <2>5. ~Continues'
    <3>1. ~Continues
      BY DEF Opened, Quiet
    <3>2. ASSUME NEW e \in calls', e.at = "settling" PROVE e \in calls
      BY <1>1, <1>2, <3>2
    <3>. QED
      BY <1>5, <3>1, <3>2 DEF Continues
  <2>. QED
    BY <2>1, <2>2, <2>3, <2>4, <2>5 DEF OwnershipInv
<1>10. PassInv'
  <2>1. \A e, f \in calls' : Firing({e})' /\ Firing({f})' => e = f
    BY <1>3 DEF Firing
  <2>2. ASSUME NEW e \in calls' PROVE e.at = "launching" => e \in calls
    BY <1>1, <1>2
  <2>3. ASSUME NEW e \in calls', Starting(e) PROVE \E f \in calls : Starting(f)
    BY <1>1, <1>2, <2>3 DEF Starting
  <2>. QED
    BY <1>5, <1>7, <2>1, <2>2, <2>3 DEF PassInv, Inv, Core, Starting
<1>11. RestType'
  BY RestStays DEF Inv, Opened, history
<1>. QED
  BY <1>8, <1>9, <1>10, <1>11 DEF Inv, Core

(* The copy of a call that lost its claim is thrown away with the call.     *)
LEMMA DiscardedKeeps ==
  ASSUME LoopAssumption, Inv, NEW c \in calls, Discarded(c)
  PROVE  Inv'
<1>1. /\ calls' = calls \ {c} /\ open' = open \ {c.copy} /\ c.at = "discarding"
      /\ job' = job /\ runs' = runs /\ runner' = runner /\ watch' = watch
      /\ closing' = closing /\ hand' = hand /\ overtaken' = overtaken
      /\ copies' = copies /\ RunIds' = RunIds
  BY DEF Discarded, RunIds, history
<1>2. job.own # None => job.own # c.copy
  <2>. SUFFICES ASSUME job.own # None, job.own = c.copy PROVE FALSE
    OBVIOUS
  <2>1. job.own \in open
    BY DEF Inv, Core, CoreType
  <2>2. \A e \in calls : ~ (e.at = "discarding" /\ e.copy = job.own)
    BY <2>1 DEF Inv, Core, OwnershipInv, OneOwner, Discards
  <2>. QED
    BY <1>1, <2>2
<1>3. None \notin open
  <2>1. open \subseteq 1..copies /\ 1..copies \subseteq Nat
    BY DEF Inv, Core, CoreType
  <2>. QED
    BY <2>1 DEF LoopAssumption
<1>4. CoreType'
  <2>1. IsFiniteSet(calls')
    BY <1>1, FS_RemoveElement DEF Inv, Core, CoreType
  <2>2. job.own \in open' \cup {None} /\ closing \in open' \cup {None}
    BY <1>1, <1>2 DEF Inv, Core, CoreType, OwnershipInv
  <2>. QED
    BY <1>1, <2>1, <2>2 DEF CoreType, Inv, Core
<1>5. OwnershipInv'
  <2>1. CallsAreSound'
    BY <1>1 DEF CallsAreSound, Inv, Core, OwnershipInv
  <2>2. OneOwner'
    <3>. SUFFICES ASSUME NEW copy \in open, copy # c.copy
                  PROVE  IF job.own = copy THEN Discards(calls', copy) = {}
                         ELSE \E e \in calls' : Discards(calls', copy) = {e}
      BY <1>1 DEF OneOwner, Discards
    <3>1. Discards(calls', copy) = Discards(calls, copy)
      BY <1>1 DEF Discards
    <3>2. IF job.own = copy THEN Discards(calls, copy) = {}
          ELSE \E e \in calls : Discards(calls, copy) = {e}
      BY DEF Inv, Core, OwnershipInv, OneOwner
    <3>3. \A e : Discards(calls', copy) = {e} => e \in calls'
      BY DEF Discards
    <3>. QED
      BY <3>1, <3>2, <3>3
  <2>3. ~Continues'
    BY <1>1 DEF Discarded, Quiet, Continues
  <2>. QED
    BY <1>1, <2>1, <2>2, <2>3 DEF OwnershipInv, Inv, Core
<1>6. PassInv'
  <2>1. \A e, f \in calls' : Firing({e})' /\ Firing({f})' => e = f
    BY <1>1 DEF Inv, Core, PassInv, Firing
  <2>. QED
    BY <1>1, <2>1 DEF PassInv, Inv, Core, Starting
<1>7. RestType'
  BY RestStays DEF Inv, Discarded, history
<1>. QED
  BY <1>4, <1>5, <1>6, <1>7 DEF Inv, Core

(* A run is there and the record names it: no other is live, because the    *)
(* call was the only one to fire and nothing worked while it was on its way.*)
LEMMA LaunchedKeeps ==
  ASSUME LoopAssumption, Inv, NEW c \in calls, Launched(c)
  PROVE  Inv'
<1>. DEFINE d == [c EXCEPT !.at = "recorded", !.run = Len(runs')]
            n == Len(runs')
<1>1. /\ c \in CallRecords /\ c.at = "launching"
      /\ c.iteration \in Nat /\ c.iteration < Cap /\ c.copy \in Nat \cup {None}
  BY DEF Launched, Inv, Core, CoreType, OwnershipInv, CallsAreSound,
         CallRecords, LoopAssumption
<1>2. /\ runs' \in Seq(RunRecords) /\ n = Len(runs) + 1
      /\ RunIds' = RunIds \cup {n} /\ \A r \in RunIds : runs'[r] = runs[r]
  BY <1>1, NextRun DEF Launched, Inv
<1>3. /\ Len(runs) \in Nat /\ RunIds = 1 .. Len(runs) /\ n \in Nat /\ n # None
      /\ RunIds' = 1 .. n /\ RunIds \subseteq RunIds' /\ n \notin RunIds
  <2>1. Len(runs) \in Nat /\ RunIds = 1 .. Len(runs)
    BY RunsAre DEF Inv
  <2>. HIDE DEF n
  <2>2. n \in Nat
    BY <1>2, <2>1
  <2>. QED
    BY <1>2, <2>1, <2>2 DEF LoopAssumption
<1>4. /\ calls' = (calls \ {c}) \cup {d} /\ lapsed' = FALSE
      /\ checks' = Append(checks, 0)
      /\ job' = [job EXCEPT !.status = "running", !.current = n,
                            !.iteration = c.iteration + 1, !.due = FALSE]
      /\ runner' = runner /\ watch' = watch /\ told' = told /\ setup' = setup
      /\ closing' = closing /\ hand' = hand /\ overtaken' = overtaken
      /\ copies' = copies /\ open' = open /\ ~Continues
  BY DEF Launched, copying, bounds, Quiet
<1>. HIDE DEF n
<1>5. /\ d \in CallRecords /\ d.at = "recorded" /\ d.run = n /\ d.mine = c.mine
      /\ d.copy = c.copy
  BY <1>1, <1>3 DEF CallRecords, Steps, n
<1>. HIDE DEF d
<1>6. calls' \subseteq CallRecords /\ IsFiniteSet(calls')
  BY <1>4, <1>5, ExchangedCall DEF Inv
<1>7. /\ job' \in Jobs /\ job'.current = n /\ job'.own = job.own
      /\ job'.status = "running"
  <2>1. c.iteration + 1 \in 0..Cap
    BY <1>1 DEF LoopAssumption
  <2>2. job \in Jobs
    BY DEF Inv, Core, CoreType
  <2>. QED
    BY <1>3, <1>4, <2>1, <2>2 DEF Jobs, Statuses
<1>8. CoreType'
  <2>1. \A e \in calls' : e.copy \in 1..copies \cup {None} /\ e.run \in RunIds' \cup {None}
    BY <1>2, <1>4, <1>5 DEF Inv, Core, CoreType
  <2>2. runner \in [timer : BOOLEAN, sub : RunIds' \cup {None}]
    BY <1>2 DEF Inv, Core, CoreType
  <2>3. watch \subseteq RunIds' /\ RunIds' \subseteq Nat
    BY <1>2, <1>3 DEF Inv, Core, CoreType
  <2>4. job'.current \in RunIds' \cup {None} /\ job'.own \in open \cup {None}
    BY <1>2, <1>7 DEF Inv, Core, CoreType
  <2>. QED
    BY <1>4, <1>6, <1>7, <2>1, <2>2, <2>3, <2>4 DEF CoreType, Inv, Core
<1>9. OwnershipInv'
  <2>1. CallsAreSound'
    BY <1>3, <1>4, <1>5 DEF CallsAreSound, Inv, Core, OwnershipInv
  <2>2. OneOwner'
    <3>. SUFFICES ASSUME NEW copy \in open
                  PROVE  IF job.own = copy THEN Discards(calls', copy) = {}
                         ELSE \E e \in calls' : Discards(calls', copy) = {e}
      BY <1>4, <1>7 DEF OneOwner, Discards
    <3>1. Discards(calls', copy) = Discards(calls, copy)
      BY <1>1, <1>4, <1>5 DEF Discards
    <3>2. IF job.own = copy THEN Discards(calls, copy) = {}
          ELSE \E e \in calls : Discards(calls, copy) = {e}
      BY DEF Inv, Core, OwnershipInv, OneOwner
    <3>3. \A e : Discards(calls', copy) = {e} => e \in calls'
      BY DEF Discards
    <3>. QED
      BY <3>1, <3>2, <3>3
  <2>3. ~Continues'
    <3>1. ASSUME NEW e \in calls', e.at = "settling" PROVE e \in calls
      BY <1>4, <1>5, <3>1
    <3>. QED
      BY <1>4, <3>1 DEF Continues
  <2>. QED
    BY <1>4, <1>7, <2>1, <2>2, <2>3 DEF OwnershipInv, Inv, Core
<1>10. PassInv'
  <2>1. \A e, f \in calls' : Firing({e})' /\ Firing({f})' => e = f
    BY <1>1, <1>4, <1>5 DEF Inv, Core, PassInv, Firing
  <2>. SUFFICES ASSUME ~overtaken
                PROVE  /\ \A r \in RunIds' : runs'[r].status = "live" => r = n
                       /\ \A e \in calls' : e.at = "launching" => e.mine
                       /\ ~ \E e \in calls' : Starting(e)
    BY <1>4, <1>7, <2>1 DEF PassInv, Starting
  <2>2. c.mine
    BY <1>1 DEF Inv, Core, PassInv
  <2>3. \A r \in RunIds : runs[r].status # "live"
    BY <1>1, <2>2 DEF Inv, Core, PassInv, Starting
  <2>4. \A r \in RunIds' : runs'[r].status = "live" => r = n
    BY <1>2, <2>3
  <2>5. \A e \in calls' : e.at = "launching" => e.mine
    BY <1>4, <1>5 DEF Inv, Core, PassInv
  <2>6. ASSUME NEW e \in calls', Starting(e) PROVE FALSE
    <3>1. e \in calls /\ e # c
      BY <1>4, <1>5, <2>6 DEF Starting
    <3>2. Firing({e}) /\ Firing({c})
      BY <1>1, <2>2, <2>6 DEF Starting, Firing
    <3>. QED
      BY <3>1, <3>2 DEF Inv, Core, PassInv
  <2>. QED
    BY <2>4, <2>5, <2>6
<1>11. RestType'
  <2>1. checks' \in [RunIds' -> Nat]
    <3>1. checks \in Seq(Nat) /\ Len(checks) = Len(runs) /\ DOMAIN checks = RunIds
      <4>1. checks \in [1 .. Len(runs) -> Nat]
        BY <1>3 DEF Inv, RestType
      <4>2. checks \in Seq(Nat)
        BY <1>3, <4>1
      <4>3. DOMAIN checks = 1 .. Len(checks) /\ Len(checks) \in Nat
        BY <4>2, InSequence
      <4>. QED
        BY <1>3, <4>1, <4>2, <4>3
    <3>2. checks' \in Seq(Nat) /\ Len(checks') = n
      BY <1>2, <1>4, <3>1, AppendOf
    <3>3. checks' \in [1 .. n -> Nat]
      BY <3>2, LenProperties
    <3>. QED
      BY <1>3, <3>3
  <2>2. told \in Seq(RunIds')
    BY <1>3, SeqMonotonic DEF Inv, RestType
  <2>3. hand = None \/ hand \in [what : {"stop", "restart"}, at : {"kill", "settle"},
                                 run : RunIds' \cup {None}]
    BY <1>3 DEF Inv, RestType
  <2>. QED
    BY <1>2, <1>4, <2>1, <2>2, <2>3 DEF RestType, RunRecords, Inv
<1>. QED
  BY <1>8, <1>9, <1>10, <1>11 DEF Inv, Core

(* The run is watched.                                                      *)
LEMMA WatchedKeeps ==
  ASSUME LoopAssumption, Inv, NEW c \in calls, Watched(c)
  PROVE  Inv'
<1>1. /\ calls' = calls \ {c} /\ c.at = "recorded" /\ job' = job /\ runs' = runs
      /\ runner' = Watching(c.run, runner) /\ watch' = watch \cup {c.run}
      /\ closing' = closing /\ hand' = hand /\ overtaken' = overtaken
      /\ copies' = copies /\ open' = open /\ RunIds' = RunIds
  BY DEF Watched, RunIds, history, copying
<1>2. c.run \in RunIds
  BY <1>1 DEF Inv, Core, CoreType, OwnershipInv, CallsAreSound
<1>3. CoreType'
  <2>1. IsFiniteSet(calls')
    BY <1>1, FS_RemoveElement DEF Inv, Core, CoreType
  <2>2. runner' \in Runner
    BY <1>1, <1>2 DEF Watching, Runner, Inv, Core, CoreType
  <2>. QED
    BY <1>1, <1>2, <2>1, <2>2 DEF CoreType, Runner, Inv, Core
<1>4. OwnershipInv' /\ PassInv'
  <2>1. GoodCalls(calls \ {c}, job)
    BY <1>1, CallsAreGood, FewerCalls DEF Inv
  <2>2. CallsAreSound' /\ OneOwner'
    BY <1>1, <2>1 DEF CallsAreSound, OneOwner, GoodCalls, Inv, Core, OwnershipInv, Discards
  <2>3. ~Continues'
    BY <1>1 DEF Continues, Watched, Quiet
  <2>4. OwnershipInv'
    BY <1>1, <2>2, <2>3 DEF OwnershipInv, Inv, Core
  <2>5. PassInv'
    BY <1>1 DEF PassInv, Inv, Core, Firing, Starting
  <2>. QED
    BY <2>4, <2>5
<1>5. RestType'
  BY RestStays DEF Inv, Watched, history
<1>. QED
  BY <1>3, <1>4, <1>5 DEF Inv, Core

-----------------------------------------------------------------------------
(* Steps that end passes.                                                   *)

(* A run that is killed or ends: fewer are live, and nothing else changes   *)
(* that the invariants of the loop are about.                               *)
LEMMA FewerLive ==
  ASSUME Core, RunIds' = RunIds,
         \A r \in RunIds : runs'[r].status = "live" => runs[r].status = "live",
         UNCHANGED <<job, runner, calls, hand, closing, copies, open, overtaken>>,
         watch' \subseteq watch
  PROVE  Core'
<1>1. CoreType'
  BY DEF Core, CoreType
<1>2. OwnershipInv'
  BY DEF Core, OwnershipInv, CallsAreSound, OneOwner, Discards, Continues
<1>3. PassInv'
  BY DEF Core, PassInv, Firing, Starting
<1>. QED
  BY <1>1, <1>2, <1>3 DEF Core

\* A run that ends is told to whoever watches it; record and copy stay as
\* they are.
LEMMA RunEndsKeeps ==
  ASSUME LoopAssumption, Inv, NEW r \in RunIds, RunEnds(r)
  PROVE  Inv'
<1>1. PICK status \in {"complete", "failed"} : runs' = [runs EXCEPT ![r].status = status]
  BY DEF RunEnds
<1>2. /\ runs' \in Seq(RunRecords) /\ RunIds' = RunIds
      /\ \A i \in RunIds : runs'[i].status = "live" => i # r /\ runs[i].status = "live"
  BY <1>1, ChangedRun DEF Inv
<1>3. Core'
  BY <1>2, FewerLive DEF RunEnds, Inv, copying
<1>4. RestType'
  <2>1. told' \in Seq(RunIds)
    BY DEF RunEnds, Inv, RestType
  <2>2. lapsed' \in BOOLEAN
    BY DEF RunEnds, Inv, RestType
  <2>. QED
    BY <1>2, <2>1, <2>2 DEF RestType, RunRecords, RunEnds, Inv
<1>. QED
  BY <1>3, <1>4 DEF Inv

(* What was told about a run is told about one that there is.               *)
LEMMA HandleKeeps ==
  ASSUME LoopAssumption, Inv, Handle
  PROVE  Inv'
<1>. DEFINE u == [runner EXCEPT !.sub = None]
<1>1. Head(told) \in RunIds /\ told' \in Seq(RunIds)
  BY HeadTailProperties DEF Handle, Inv, RestType
<1>2. PICK r \in RunIds : Decide(r, job, u)
  BY <1>1 DEF Handle
<1>3. u \in Runner
  BY DEF Inv, Core, CoreType, Runner
<1>. HIDE DEF u
<1>4. Frame /\ setup \in Setup
  BY DEF Handle, Frame, copying, Inv, RestType, LoopAssumption
<1>5. Core'
  BY <1>2, <1>3, <1>4, LoopFollows, DecideKeeps DEF Inv
<1>6. RestType'
  <2>1. checks' \in [RunIds -> Nat]
    BY <1>2 DEF Decide, Inv, RestType
  <2>. QED
    BY <1>1, <2>1 DEF RestType, Handle, Inv, RunIds
<1>. QED
  BY <1>5, <1>6 DEF Inv

\* The check after a run goes on with the cycle, or ends it and closes its
\* copy.
LEMMA CheckEndsKeeps ==
  ASSUME LoopAssumption, Inv, NEW r \in RunIds, CheckEnds(r)
  PROVE  Inv'
<1>1. Finalize(job, calls, runner) \/ Continue(job, runner)
  BY DEF CheckEnds
<1>2. Frame /\ setup \in Setup /\ Core
  BY DEF CheckEnds, Frame, copying, Inv, RestType, LoopAssumption
<1>3. ASSUME Finalize(job, calls, runner) PROVE Core'
  BY <1>2, <1>3, LoopFollows, FinalizeKeeps
<1>4. ASSUME Continue(job, runner) PROVE Core'
  BY <1>2, <1>4, LoopFollows, ContinueKeeps
<1>5. RestType'
  <2>1. checks' \in [RunIds -> Nat]
    <3>1. checks \in [RunIds -> Nat] /\ checks[r] - 1 \in Nat
      BY DEF CheckEnds, Inv, RestType
    <3>. QED
      BY <3>1 DEF CheckEnds
  <2>. QED
    BY <2>1 DEF RestType, CheckEnds, Inv, RunIds
<1>. QED
  BY <1>1, <1>3, <1>4, <1>5 DEF Inv

(* The copy that was being closed was the record's: no other has two owners *)
(* or none because it goes.                                                 *)
LEMMA ClosedKeeps ==
  ASSUME LoopAssumption, Inv, Closed
  PROVE  Inv'
<1>1. /\ closing # None /\ closing' = None /\ open' = open \ {closing}
      /\ job' = [job EXCEPT !.own = None] /\ runs' = runs /\ RunIds' = RunIds
      /\ runner' = runner /\ calls' = calls /\ watch' = watch /\ hand' = hand
      /\ copies' = copies /\ overtaken' = overtaken
  BY DEF Closed, RunIds, history
<1>2. closing = job.own
  BY <1>1 DEF Inv, Core, OwnershipInv
<1>3. /\ job' \in Jobs /\ job'.own = None /\ job'.status = job.status
      /\ job'.current = job.current
  BY <1>1 DEF Inv, Core, CoreType, Jobs
<1>4. CoreType'
  BY <1>1, <1>3 DEF Inv, Core, CoreType
<1>5. OwnershipInv'
  <2>1. CallsAreSound'
    BY <1>1 DEF CallsAreSound, Inv, Core, OwnershipInv
  <2>2. OneOwner'
    <3>. SUFFICES ASSUME NEW copy \in open, copy # closing
                  PROVE  job'.own # copy /\ \E e \in calls : Discards(calls, copy) = {e}
      BY <1>1 DEF OneOwner, Discards
    <3>1. None \notin open
      <4>1. open \subseteq 1..copies /\ 1..copies \subseteq Nat
        BY DEF Inv, Core, CoreType
      <4>. QED
        BY <4>1 DEF LoopAssumption
    <3>. QED
      BY <1>2, <1>3, <3>1 DEF Inv, Core, OwnershipInv, OneOwner
  <2>. QED
    BY <1>1, <1>3, <2>1, <2>2 DEF OwnershipInv
<1>6. PassInv'
  BY <1>1, <1>3 DEF Inv, Core, PassInv, Firing, Starting
<1>7. RestType'
  BY RestStays DEF Inv, Closed, history
<1>. QED
  BY <1>4, <1>5, <1>6, <1>7 DEF Inv, Core

-----------------------------------------------------------------------------
(* What people do.                                                          *)

\* Pause writes the status and nothing of the copy.
LEMMA PauseKeeps ==
  ASSUME LoopAssumption, Inv, Pause
  PROVE  Inv'
<1>. DEFINE j == [job EXCEPT !.status = "paused", !.due = FALSE]
            u == [runner EXCEPT !.timer = FALSE]
<1>1. Stay(j, calls, u) /\ Frame
  BY DEF Pause, Rest, Frame, copying
<1>2. Follows(j)
  BY DEF Follows, Jobs, Statuses, Inv, Core, CoreType
<1>3. u \in Runner /\ GoodCalls(calls, j)
  BY LoopFollows, CallsAreGood DEF Inv
<1>. HIDE DEF j, u
<1>4. Core'
  BY <1>1, <1>2, <1>3, StayKeeps DEF Inv
<1>5. RestType'
  BY RestStays DEF Inv, Pause, Rest
<1>. QED
  BY <1>4, <1>5 DEF Inv

\* Resume sets the timer again, watches the run of the record, or decides
\* what follows a run that has ended.
LEMMA ResumeKeeps ==
  ASSUME LoopAssumption, Inv, Resume
  PROVE  Inv'
<1>. DEFINE j == [job EXCEPT !.status = "idle"]
            r == job.current
            v == setup.kind = "cadence" /\ (j.due \/ j.iteration > 0)
            u == [runner EXCEPT !.timer = @ \/ v]
<1>1. Frame /\ setup \in Setup /\ Core
  BY DEF Resume, Frame, copying, Inv, RestType, LoopAssumption
<1>2. /\ j \in Jobs /\ j.own = job.own /\ j.current = r /\ j.status = "idle"
      /\ Follows(j)
  BY <1>1 DEF Follows, Jobs, Statuses, Core, CoreType
<1>3. r \in RunIds \cup {None} /\ runner \in Runner
  BY <1>1 DEF Core, CoreType, Runner
<1>4. u \in Runner
  BY <1>3 DEF Runner
<1>5. \/ r = None /\ Stay(j, calls, u)
      \/ /\ r # None /\ job' = j /\ runner' = Watching(r, runner)
         /\ watch' = watch \cup {r}
         /\ UNCHANGED <<calls, closing, overtaken>>
      \/ r # None /\ Decide(r, j, runner)
  BY DEF Resume
<1>6. checks' \in [RunIds -> Nat]
  <2>1. checks' = checks \/ Decide(r, j, runner)
    BY DEF Resume
  <2>2. checks' = checks \/ checks' = [checks EXCEPT ![r] = @ + 1]
    BY <2>1 DEF Decide
  <2>3. checks \in [RunIds -> Nat]
    BY DEF Inv, RestType
  <2>. HIDE DEF r
  <2>. QED
    BY <2>2, <2>3
<1>7. RestType'
  BY <1>6 DEF RestType, Resume, Inv, RunIds
<1>. HIDE DEF j, u
<1>8. ASSUME r = None, Stay(j, calls, u) PROVE Core'
  BY <1>1, <1>2, <1>4, <1>8, CallsAreGood, StayKeeps
<1>9. ASSUME r # None, Decide(r, j, runner) PROVE Core'
  <2>1. r \in RunIds
    BY <1>3, <1>9
  <2>. HIDE DEF r
  <2>2. j.current = job.current /\ j.status # "stopped"
    BY <1>2 DEF r
  <2>. QED
    BY <1>1, <1>2, <1>3, <1>9, <2>1, <2>2, DecideKeeps
<1>10. ASSUME r # None, job' = j, runner' = Watching(r, runner),
              watch' = watch \cup {r}, UNCHANGED <<calls, closing, overtaken>>
       PROVE  Core'
  <2>1. RunIds' = RunIds /\ UNCHANGED <<runs, copies, open>> /\ hand' = hand
    BY DEF Resume, RunIds, copying
  <2>2. r \in RunIds /\ runner' \in Runner
    BY <1>3, <1>10 DEF Watching, Runner
  <2>3. CoreType'
    BY <1>1, <1>2, <1>10, <2>1, <2>2 DEF Core, CoreType, Runner
  <2>4. OwnershipInv'
    BY <1>1, <1>2, <1>10, <2>1 DEF Core, OwnershipInv, CallsAreSound, OneOwner,
                                   Discards, Continues
  <2>5. PassInv'
    BY <1>1, <1>2, <1>10, <2>1 DEF Core, PassInv, Firing, Starting
  <2>. QED
    BY <2>3, <2>4, <2>5 DEF Core
<1>. QED
  BY <1>5, <1>7, <1>8, <1>9, <1>10 DEF Inv

\* Stop begins to kill the current run, or, where there is none, ends the
\* cycle and closes its copy.
LEMMA StopKeeps ==
  ASSUME LoopAssumption, Inv, Stop
  PROVE  Inv'
<1>1. CASE job.current # None
  <2>1. /\ hand' = [what |-> "stop", at |-> "kill", run |-> job.current]
        /\ Stay(job, calls, runner)
    BY <1>1 DEF Stop
  <2>2. Frame
    BY <2>1 DEF Stop, Frame, copying
  <2>3. Core'
    BY <2>1, <2>2, LoopFollows, CallsAreGood, StayKeeps DEF Inv
  <2>4. hand' \in [what : {"stop", "restart"}, at : {"kill", "settle"},
                   run : RunIds \cup {None}]
    BY <2>1 DEF Inv, Core, CoreType
  <2>5. RestType'
    BY <2>4 DEF RestType, Stop, Inv, RunIds
  <2>. QED
    BY <2>3, <2>5 DEF Inv
<1>2. CASE job.current = None
  <2>1. Finalize(job, calls, runner) /\ hand' = hand
    BY <1>2 DEF Stop
  <2>2. Frame
    BY <2>1 DEF Stop, Frame, copying
  <2>3. Core'
    BY <2>1, <2>2, LoopFollows, FinalizeKeeps DEF Inv
  <2>4. RestType'
    BY <2>1, RestStays DEF Stop, Inv
  <2>. QED
    BY <2>3, <2>4 DEF Inv
<1>. QED
  BY <1>1, <1>2

(* Killing a run, or none, makes no run live.                               *)
LEMMA KilledRuns ==
  ASSUME RestType, NEW r \in RunIds \cup {None}, None \notin RunIds, runs' = Killed(r)
  PROVE  /\ runs' \in Seq(RunRecords) /\ RunIds' = RunIds
         /\ \A i \in RunIds : runs'[i].status = "live" =>
                                i # r /\ runs[i].status = "live"
<1>1. CASE r # None /\ runs[r].status = "live"
  <2>1. r \in RunIds /\ runs' = [runs EXCEPT ![r].status = "killed"]
    BY <1>1 DEF Killed
  <2>. QED
    BY <2>1, ChangedRun
<1>2. CASE ~(r # None /\ runs[r].status = "live")
  <2>1. runs' = runs
    BY <1>2 DEF Killed
  <2>. QED
    BY <1>2, <2>1, RunsAre DEF RunIds
<1>. QED
  BY <1>1, <1>2

(* The kill of a Stop comes after a longer wait: another run may be under   *)
(* way by then, which is what overtaken remembers.                          *)
LEMMA StopKillsKeeps ==
  ASSUME LoopAssumption, Inv, StopKills
  PROVE  Inv'
<1>1. /\ hand.run \in RunIds \cup {None} /\ hand' = None /\ None \notin RunIds
      /\ runs' = Killed(hand.run)
  BY DEF StopKills, Inv, RestType, Core, CoreType, LoopAssumption
<1>2. /\ runs' \in Seq(RunRecords) /\ RunIds' = RunIds
      /\ \A i \in RunIds : runs'[i].status = "live" =>
                             i # hand.run /\ runs[i].status = "live"
  BY <1>1, KilledRuns DEF Inv
<1>3. /\ job' \in Jobs /\ job'.status = "stopped" /\ job'.current = None
      /\ job'.own = job.own
  BY DEF StopKills, Jobs, Statuses, Inv, Core, CoreType
<1>4. /\ calls' = Disowned(calls) /\ runner' = NoRunner /\ watch' \subseteq watch
      /\ overtaken' \in BOOLEAN /\ UNCHANGED <<copies, open>>
      /\ closing' = IF closing = None THEN job.own ELSE closing
  BY DEF StopKills, copying
<1>5. /\ closing' \in {closing, job.own} /\ job.own # None => closing' = job.own
      /\ Continues' => job.own = None
  BY <1>4 DEF Inv, Core, OwnershipInv, Continues
<1>6. ~overtaken' => /\ ~Launching
                     /\ \A r \in RunIds : runs'[r].status = "live" => r = job'.current
  <2>. SUFFICES ASSUME ~overtaken', NEW r \in RunIds, runs'[r].status = "live"
                PROVE  FALSE
    BY DEF StopKills
  <2>1. ~overtaken /\ ~(Live(job) /\ job.current # hand.run)
    BY DEF StopKills
  <2>2. runs[r].status = "live" /\ r # hand.run
    BY <1>2
  <2>3. r = job.current /\ Live(job)
    BY <2>1, <2>2, LiveIsHeld DEF Inv
  <2>. QED
    BY <2>1, <2>2, <2>3
<1>7. Core'
  BY <1>2, <1>3, <1>4, <1>5, <1>6, ForgottenKeeps DEF Inv
<1>8. RestType'
  BY <1>1, <1>2 DEF RestType, RunRecords, StopKills, Inv
<1>. QED
  BY <1>7, <1>8 DEF Inv

(* Run now forgets the calls, but the record stays as it is until the reset.*)
LEMMA RunNowKeeps ==
  ASSUME LoopAssumption, Inv, RunNow
  PROVE  Inv'
<1>1. /\ runs' = runs /\ RunIds' = RunIds /\ UNCHANGED <<copies, open>> /\ job' = job
      /\ calls' = Disowned(calls) /\ runner' = NoRunner /\ watch' \subseteq watch
      /\ overtaken' = (overtaken \/ Launching)
      /\ closing' = IF Live(job) \/ closing # None THEN closing ELSE job.own
      /\ hand = None
  BY DEF RunNow, copying, RunIds, Press
<1>2. job \in Jobs /\ overtaken' \in BOOLEAN /\ job.current \in RunIds \cup {None}
  BY <1>1 DEF Inv, Core, CoreType
<1>3. /\ closing' \in {closing, job.own}
      /\ job.status = "stopped" /\ job.own # None => closing' = job.own
  BY <1>1 DEF Inv, Core, OwnershipInv
<1>4. Continues' => job.own = None
  <2>. SUFFICES ASSUME Continues', job.own # None PROVE FALSE
    OBVIOUS
  <2>1. closing = None /\ Live(job)
    BY <1>1 DEF Continues
  <2>2. hand'.at = "kill"
    BY <2>1 DEF RunNow
  <2>3. PICK d \in calls' : d.at = "settling"
    BY <2>2 DEF Continues
  <2>4. PICK c \in calls : c.at = "settling"
    <3>1. \E c \in calls : d.at = c.at
      BY <1>1, DisownedCalls DEF Inv
    <3>. QED
      BY <2>3, <3>1
  <2>5. Continues
    BY <2>1, <2>4 DEF Continues
  <2>. QED
    BY <2>5 DEF Inv, Core, OwnershipInv
<1>5. ~overtaken' => /\ ~Launching
                     /\ \A r \in RunIds : runs'[r].status = "live" => r = job'.current
  BY <1>1, LiveIsHeld DEF Inv
<1>6. Core'
  BY <1>1, <1>2, <1>3, <1>4, <1>5, ForgottenKeeps DEF Inv
<1>7. RestType'
  <2>1. hand' \in [what : {"stop", "restart"}, at : {"kill", "settle"},
                   run : RunIds \cup {None}]
    BY <1>2 DEF RunNow
  <2>. QED
    BY <1>1, <2>1 DEF RestType, RunNow, Inv
<1>. QED
  BY <1>6, <1>7 DEF Inv

\* Run now on a loop that works kills its run and closes the copy of the old
\* cycle.
LEMMA RestartKillsKeeps ==
  ASSUME LoopAssumption, Inv, RestartKills
  PROVE  Inv'
<1>1. /\ hand \in [what : {"stop", "restart"}, at : {"kill", "settle"},
                   run : RunIds \cup {None}]
      /\ None \notin RunIds /\ runs' = Killed(hand.run)
      /\ hand' = [hand EXCEPT !.at = "settle"]
  BY DEF RestartKills, Inv, RestType, Core, CoreType, LoopAssumption
<1>2. /\ runs' \in Seq(RunRecords) /\ RunIds' = RunIds
      /\ \A i \in RunIds : runs'[i].status = "live" =>
                             i # hand.run /\ runs[i].status = "live"
  BY <1>1, KilledRuns DEF Inv
<1>3. /\ closing' = IF closing = None THEN job.own ELSE closing
      /\ UNCHANGED <<job, runner, calls, watch, copies, open, overtaken>>
  BY DEF RestartKills, copying, history
<1>4. CoreType'
  BY <1>2, <1>3 DEF Inv, Core, CoreType
<1>5. OwnershipInv'
  <2>1. CallsAreSound' /\ OneOwner'
    BY <1>3 DEF Inv, Core, OwnershipInv, CallsAreSound, OneOwner, Discards
  <2>2. closing' = job.own
    BY <1>3 DEF Inv, Core, OwnershipInv
  <2>3. Continues' => closing' = None
    BY DEF Continues
  <2>. QED
    BY <1>3, <2>1, <2>2, <2>3 DEF OwnershipInv
<1>6. PassInv'
  BY <1>2, <1>3 DEF Inv, Core, PassInv, Firing, Starting
<1>7. RestType'
  <2>1. hand' \in [what : {"stop", "restart"}, at : {"kill", "settle"},
                   run : RunIds \cup {None}]
    BY <1>1
  <2>. QED
    BY <1>2, <2>1 DEF RestType, RunRecords, RestartKills, history, Inv
<1>. QED
  BY <1>4, <1>5, <1>6, <1>7 DEF Inv, Core

(* The reset comes when the copy of the old cycle is forgotten.             *)
LEMMA RestartsKeeps ==
  ASSUME LoopAssumption, Inv, Restarts
  PROVE  Inv'
<1>1. Enter("manual", Idle, runner) /\ Frame /\ "manual" \in Sources
  BY DEF Restarts, Frame, copying, Sources
<1>2. job.own = None
  BY DEF Restarts, Inv, Core, OwnershipInv, Continues
<1>3. Core'
  BY <1>1, <1>2, IdleFollows, LoopFollows, EnterKeeps DEF Inv
<1>4. RestType'
  BY DEF RestType, Restarts, Inv, RunIds
<1>. QED
  BY <1>3, <1>4 DEF Inv

-----------------------------------------------------------------------------
(* The theorems.                                                            *)

\* No pass, no call and no copy at start.
LEMMA InvHoldsInitially ==
  ASSUME LoopAssumption, Init
  PROVE  Inv
<1>1. RunIds = {}
  BY DEF Init, RunIds
<1>2. RestType
  <2>1. checks \in [RunIds -> Nat]
    BY <1>1 DEF Init
  <2>2. runs \in Seq(RunRecords) /\ told \in Seq(RunIds)
    <3>. HIDE DEF RunRecords
    <3>. QED
      BY EmptySeq DEF Init
  <2>3. setup \in Setups /\ hand = None /\ lapsed \in BOOLEAN
    BY DEF Init
  <2>. QED
    BY <2>1, <2>2, <2>3 DEF RestType, RunRecords
<1>3. CoreType
  <2>1. job \in Jobs /\ job.current = None /\ job.own = None
    BY DEF Init, Idle, Jobs, Statuses, LoopAssumption
  <2>2. runner \in [timer : BOOLEAN, sub : RunIds \cup {None}]
    BY DEF Init, NoRunner
  <2>3. calls = {} /\ IsFiniteSet(calls)
    BY FS_EmptySet DEF Init
  <2>4. /\ watch = {} /\ closing = None /\ open = {} /\ copies = 0
        /\ overtaken \in BOOLEAN
    BY DEF Init
  <2>. QED
    BY <1>1, <2>1, <2>2, <2>3, <2>4 DEF CoreType
<1>4. OwnershipInv
  BY DEF Init, OwnershipInv, CallsAreSound, OneOwner, Idle
<1>5. PassInv
  BY <1>1 DEF Init, PassInv
<1>. QED
  BY <1>2, <1>3, <1>4, <1>5 DEF Inv, Core

\* Every step keeps the invariant; the cases are the lemmas above.
LEMMA StepKeepsInv ==
  ASSUME LoopAssumption, Inv, [Next]_vars
  PROVE  Inv'
<1>1. ASSUME NEW c \in calls,
             \/ PrecheckPasses(c) \/ PrecheckRefuses(c) \/ Settled(c)
             \/ Opened(c) \/ OpenFails(c) \/ Discarded(c) \/ Claimed(c)
             \/ Launched(c) \/ LaunchFails(c) \/ Watched(c)
      PROVE  Inv'
  BY <1>1, PrecheckPassesKeeps, PrecheckRefusesKeeps, SettledKeeps, OpenedKeeps,
     OpenFailsKeeps, DiscardedKeeps, ClaimedKeeps, LaunchedKeeps, WatchedKeeps
<1>2. ASSUME NEW r \in RunIds, RunEnds(r) \/ CheckEnds(r)
      PROVE  Inv'
  BY <1>2, RunEndsKeeps, CheckEndsKeeps
<1>3. ASSUME Tick \/ Handle \/ Closed \/ StopKills \/ RestartKills \/ Restarts
      PROVE  Inv'
  BY <1>3, TickKeeps, HandleKeeps, ClosedKeeps, StopKillsKeeps,
     RestartKillsKeeps, RestartsKeeps
<1>4. ASSUME Pause \/ Resume \/ Stop \/ RunNow \/ Fire
      PROVE  Inv'
  BY <1>4, PauseKeeps, ResumeKeeps, StopKeeps, RunNowKeeps, FireKeeps
<1>5. ASSUME UNCHANGED vars
      PROVE  Inv'
  <2>1. RestType'
    BY <1>5, RestStays DEF vars, history, Inv
  <2>2. Core'
    BY <1>5 DEF vars, history, copying, Inv, Core, CoreType, OwnershipInv, PassInv,
                RunIds, CallsAreSound, OneOwner, Discards, Continues, Firing, Starting
  <2>. QED
    BY <2>1, <2>2 DEF Inv
<1>. QED
  BY <1>1, <1>2, <1>3, <1>4, <1>5 DEF Next, System, Calls, Passes, People

(* Whatever kind of automation it is, however often it fires and people     *)
(* press, the strengthened invariant holds.                                 *)
LEMMA InvAlways == Spec => []Inv
<1>1. Init => Inv
  BY LoopAssumption, InvHoldsInitially
<1>2. Inv /\ [Next]_vars => Inv'
  BY LoopAssumption, StepKeepsInv
<1>. QED
  BY <1>1, <1>2, PTL DEF Spec

(* Every variable stays within its type: in particular, what a record, a    *)
(* runner or a call points to is a run or an open copy that there is.       *)
THEOREM TypeCorrect == Spec => []TypeOK
<1>1. Inv => TypeOK
  BY DEF Inv, Core, CoreType, RestType, TypeOK
<1>. QED
  BY <1>1, InvAlways, PTL

(* An open copy is the record's or exactly one call's; a copy that is being *)
(* closed, and the copy of a stopped loop, are the record's; whoever waited *)
(* for a copy to be closed goes on before a new one is claimed.             *)
THEOREM OwnershipInvariant == Spec => []OwnershipInv
<1>1. Inv => OwnershipInv
  BY DEF Inv, Core
<1>. QED
  BY <1>1, InvAlways, PTL

(* One call at a time fires; unless the loop was overtaken, what launches   *)
(* is the loop's own, and nothing works while a call is on its way there.   *)
THEOREM PassInvariant == Spec => []PassInv
<1>1. Inv => PassInv
  BY DEF Inv, Core
<1>. QED
  BY <1>1, InvAlways, PTL

(* Exactly one side owns a copy, and whoever ends the loop closes it.       *)
THEOREM CopyAlwaysOwned == Spec => []CopyHasOneOwner
<1>1. ASSUME Inv, NEW copy \in open
      PROVE  Cardinality({c \in calls : c.at = "discarding" /\ c.copy = copy})
               + (IF job.own = copy THEN 1 ELSE 0) = 1
  <2>1. Discards(calls, copy) = {c \in calls : c.at = "discarding" /\ c.copy = copy}
    BY DEF Discards
  <2>2. IF job.own = copy THEN Discards(calls, copy) = {}
        ELSE \E c \in calls : Discards(calls, copy) = {c}
    BY <1>1 DEF Inv, Core, OwnershipInv, OneOwner
  <2>3. Cardinality(Discards(calls, copy)) = IF job.own = copy THEN 0 ELSE 1
    BY <2>2, FS_EmptySet, FS_Singleton
  <2>. QED
    BY <2>1, <2>3
<1>2. Inv => /\ job.own \in open \cup {None}
             /\ closing # None => closing = job.own
             /\ job.status = "stopped" /\ job.own # None => closing = job.own
  BY DEF Inv, Core, CoreType, OwnershipInv
<1>3. Inv => CopyHasOneOwner
  BY <1>1, <1>2 DEF CopyHasOneOwner
<1>. QED
  BY <1>3, InvAlways, PTL

(* Two passes never work at once, unless the loop was ended or restarted    *)
(* under a launch or a pass: a live run is the one the record names.        *)
THEOREM EveryPassAlwaysHeld == Spec => []EveryPassIsHeld
<1>1. Inv => EveryPassIsHeld
  BY DEF Inv, Core, PassInv, EveryPassIsHeld
<1>. QED
  BY <1>1, InvAlways, PTL

=============================================================================
