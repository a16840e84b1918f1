-------------------------- MODULE WorkflowRunProofs --------------------------
(***************************************************************************)
(* Proofs about WorkflowRun: the records of a run answer a call once, an   *)
(* answer that is known is used again, a script that waits is waiting for  *)
(* something, and a crash in a replay leaves the record it replays.        *)
(***************************************************************************)
EXTENDS WorkflowRun, FiniteSetTheorems, SequenceTheorems, WellFoundedInduction, TLAPS

-----------------------------------------------------------------------------
(* Numbers and selections *)

(* A set of numbers that is not empty has a least one.                      *)
LEMMA LeastNumber ==
  ASSUME NEW S, S \subseteq Nat, S # {}
  PROVE  \E x \in S : \A y \in S : x <= y
<1>. DEFINE R == {ss \in Nat \X Nat : ss[1] < ss[2]}
<1>1. IsWellFoundedOn(R, Nat)
  BY NatLessThanWellFounded DEF OpToRel
<1>2. PICK x \in S : \A y \in S : ~ (<<y, x>> \in R)
  BY <1>1, WFMin
<1>3. ASSUME NEW y \in S PROVE x <= y
  <2>1. x \in Nat /\ y \in Nat
    OBVIOUS
  <2>2. <<y, x>> \in R <=> y < x
    BY <2>1
  <2>. HIDE DEF R
  <2>. QED
    BY <1>2, <2>1, <2>2
<1>. QED
  BY <1>3

(* Induction up to n: a set that holds 0, and with k < n also k + 1, holds  *)
(* n.                                                                       *)
LEMMA UpTo ==
  ASSUME NEW n \in Nat, NEW S, 0 \in S, \A k \in 0 .. n - 1 : k \in S => k + 1 \in S
  PROVE  \A k \in 0 .. n : k \in S
<1>. SUFFICES ASSUME NEW k \in 0 .. n, k \notin S
              PROVE  FALSE
  OBVIOUS
<1>. DEFINE B == {i \in 0 .. n : i \notin S}
<1>1. PICK x \in B : \A y \in B : x <= y
  <2>1. B \subseteq Nat /\ B # {}
    OBVIOUS
  <2>. HIDE DEF B
  <2>. QED
    BY <2>1, LeastNumber
<1>2. x # 0
  OBVIOUS
<1>3. x - 1 \in 0 .. n - 1 /\ x - 1 \notin B
  BY <1>1, <1>2
<1>4. x - 1 \in S
  BY <1>3
<1>. QED
  BY <1>3, <1>4, <1>1

Ascends(q, S, k) ==
  /\ q \in Seq(S \cap (1 .. k))
  /\ \A i, j \in DOMAIN q : i < j => q[i] < q[j]
  /\ \A x \in S \cap (1 .. k) : \E i \in DOMAIN q : q[i] = x

(* One more number, in S or not.                                            *)
LEMMA AscendsOne ==
  ASSUME NEW S, NEW k \in Nat, NEW q, Ascends(q, S, k)
  PROVE  Ascends(IF k + 1 \in S THEN Append(q, k + 1) ELSE q, S, k + 1)
<1>. DEFINE A == S \cap (1 .. k)
            B == S \cap (1 .. k + 1)
<1>1. /\ q \in Seq(A) /\ A \subseteq B /\ A \subseteq Nat
      /\ \A i, j \in DOMAIN q : i < j => q[i] < q[j]
      /\ \A x \in A : \E i \in DOMAIN q : q[i] = x
      /\ \A x \in A : x < k + 1
  BY DEF Ascends
<1>2. q \in Seq(B) /\ DOMAIN q = 1 .. Len(q) /\ Len(q) \in Nat
  BY <1>1
<1>3. CASE k + 1 \notin S
  <2>1. A = B
    BY <1>3
  <2>. QED
    BY <1>1, <1>3, <2>1 DEF Ascends
<1>4. CASE k + 1 \in S
  <2>. DEFINE p == Append(q, k + 1)
  <2>1. k + 1 \in B /\ \A x \in B : x \in A \/ x = k + 1
    BY <1>4
  <2>. HIDE DEF A, B
  <2>2. /\ p \in Seq(B) /\ DOMAIN p = 1 .. Len(q) + 1 /\ Len(q) + 1 \in DOMAIN p
        /\ p[Len(q) + 1] = k + 1 /\ \A i \in DOMAIN q : p[i] = q[i]
    BY <1>2, <2>1
  <2>. HIDE DEF p
  <2>3. \A i, j \in DOMAIN p : i < j => p[i] < p[j]
    <3>1. SUFFICES ASSUME NEW i \in DOMAIN p, NEW j \in DOMAIN p, i < j
                   PROVE  p[i] < p[j]
      OBVIOUS
    <3>2. i \in DOMAIN q /\ p[i] = q[i] /\ q[i] \in A
      BY <1>1, <1>2, <2>2, <3>1
    <3>3. CASE j = Len(q) + 1
      BY <1>1, <2>2, <3>2, <3>3
    <3>4. CASE j # Len(q) + 1
      <4>1. j \in DOMAIN q
        BY <1>2, <2>2, <3>4
      <4>. QED
        BY <1>1, <2>2, <3>1, <3>2, <4>1
    <3>. QED
      BY <3>3, <3>4
  <2>4. \A x \in B : \E i \in DOMAIN p : p[i] = x
    <3>1. SUFFICES ASSUME NEW x \in B PROVE \E i \in DOMAIN p : p[i] = x
      OBVIOUS
    <3>2. CASE x = k + 1
      BY <2>2, <3>2
    <3>3. CASE x \in A
      <4>1. PICK i \in DOMAIN q : q[i] = x
        BY <1>1, <3>3
      <4>. QED
        BY <1>2, <2>2, <4>1
    <3>. QED
      BY <2>1, <3>2, <3>3
  <2>. QED
    BY <1>4, <2>2, <2>3, <2>4 DEF Ascends, p, B
<1>. QED
  BY <1>3, <1>4

(* Ascending lists the members of S up to n, in increasing order.           *)
LEMMA AscendingAscends ==
  ASSUME NEW S, NEW n \in Nat
  PROVE  Ascends(Ascending(S, n), S, n)
<1>. DEFINE More(f, i) == IF i = 0 THEN <<>>
                          ELSE IF i \in S THEN Append(f[i - 1], i) ELSE f[i - 1]
            Is(f, k) == f = [i \in 0 .. k |-> More(f, i)]
            T == {k \in 0 .. n : \E f : Is(f, k)}
<1>1. 0 \in T
  <2>. DEFINE g == [i \in 0 .. 0 |-> <<>>]
  <2>1. \A i \in 0 .. 0 : More(g, i) = <<>>
    OBVIOUS
  <2>2. Is(g, 0)
    <3>. HIDE DEF More
    <3>. QED
      BY <2>1
  <2>. HIDE DEF g, Is
  <2>. QED
    BY <2>2
<1>2. ASSUME NEW k \in 0 .. n - 1, k \in T PROVE k + 1 \in T
  <2>1. PICK f : Is(f, k)
    BY <1>2
  <2>2. \A i \in 0 .. k : f[i] = More(f, i)
    <3>. HIDE DEF More
    <3>. QED
      BY <2>1
  <2>. DEFINE g == [i \in 0 .. k + 1 |-> IF i <= k THEN f[i] ELSE More(f, i)]
  <2>3. ASSUME NEW i \in 0 .. k + 1 PROVE g[i] = More(f, i)
    <3>. HIDE DEF More
    <3>. QED
      BY <2>2
  <2>4. ASSUME NEW i \in 0 .. k + 1 PROVE More(g, i) = More(f, i)
    <3>1. CASE i = 0
      BY <3>1
    <3>2. CASE i # 0
      <4>1. i - 1 \in 0 .. k /\ g[i - 1] = f[i - 1]
        <5>. HIDE DEF More
        <5>. QED
          BY <3>2
      <4>. HIDE DEF g
      <4>. QED
        BY <3>2, <4>1
    <3>. QED
      BY <3>1, <3>2
  <2>5. Is(g, k + 1)
    <3>. HIDE DEF More
    <3>. QED
      BY <2>3, <2>4
  <2>. HIDE DEF g, Is
  <2>. QED
    BY <2>5
<1>3. n \in T
  <2>. HIDE DEF T
  <2>. QED
    BY <1>1, <1>2, UpTo
<1>. DEFINE up == CHOOSE f : Is(f, n)
<1>4. Is(up, n)
  <2>. HIDE DEF Is
  <2>. QED
    BY <1>3
<1>5. Ascending(S, n) = up[n]
  BY DEF Ascending
<1>. HIDE DEF up, T
<1>6. \A i \in 0 .. n : up[i] = More(up, i)
  <2>. HIDE DEF More
  <2>. QED
    BY <1>4
<1>. HIDE DEF Is
<1>. DEFINE U == {k \in 0 .. n : Ascends(up[k], S, k)}
<1>7. 0 \in U
  <2>1. up[0] = <<>>
    BY <1>6
  <2>2. Ascends(<<>>, S, 0)
    BY DEF Ascends
  <2>. QED
    BY <2>1, <2>2
<1>8. ASSUME NEW k \in 0 .. n - 1, k \in U PROVE k + 1 \in U
  <2>1. k + 1 \in 0 .. n /\ k + 1 # 0 /\ (k + 1) - 1 = k
    OBVIOUS
  <2>2. up[k + 1] = IF k + 1 \in S THEN Append(up[k], k + 1) ELSE up[k]
    BY <1>6, <2>1
  <2>. QED
    BY <1>8, <2>1, <2>2, AscendsOne
<1>9. n \in U
  <2>. HIDE DEF U
  <2>. QED
    BY <1>7, <1>8, UpTo
<1>. QED
  BY <1>5, <1>9

(* What is selected of a sequence: its elements at the places in S, by an   *)
(* increasing map of the places.                                            *)
Embeds(p, q, s, S) ==
  /\ p \in [DOMAIN q -> S]
  /\ \A i, j \in DOMAIN q : i < j => p[i] < p[j]
  /\ \A x \in S : \E i \in DOMAIN q : p[i] = x
  /\ \A i \in DOMAIN q : q[i] = s[p[i]]

\* q is what is selected of the first k elements, at the places p.
Selects(p, q, s, S, k) == Ascends(p, S, k) /\ q = [i \in DOMAIN p |-> s[p[i]]]

LEMMA SelectsOne ==
  ASSUME NEW S, NEW s, NEW k \in Nat, NEW p, NEW q, Selects(p, q, s, S, k),
         NEW t, t = IF k + 1 \in S THEN Append(q, s[k + 1]) ELSE q
  PROVE  \E r : Selects(r, t, s, S, k + 1)
<1>. DEFINE r == IF k + 1 \in S THEN Append(p, k + 1) ELSE p
<1>1. Ascends(r, S, k + 1)
  BY AscendsOne DEF Selects
<1>2. t = [i \in DOMAIN r |-> s[r[i]]]
  <2>1. p \in Seq(S \cap (1 .. k)) /\ q = [i \in DOMAIN p |-> s[p[i]]]
    BY DEF Selects, Ascends
  <2>2. CASE k + 1 \notin S
    BY <2>1, <2>2
  <2>3. CASE k + 1 \in S
    <3>1. /\ DOMAIN p = 1 .. Len(p) /\ Len(p) \in Nat
          /\ Len(q) = Len(p) /\ DOMAIN q = DOMAIN p /\ \A i \in DOMAIN p : q[i] = s[p[i]]
      <4>1. DOMAIN p = 1 .. Len(p) /\ Len(p) \in Nat
        BY <2>1
      <4>. QED
        BY <2>1, <4>1
    <3>2. /\ r = Append(p, k + 1) /\ t = Append(q, s[k + 1])
      BY <2>3
    <3>. HIDE DEF r
    <3>3. /\ DOMAIN r = 1 .. Len(p) + 1 /\ r[Len(p) + 1] = k + 1
          /\ \A i \in DOMAIN p : r[i] = p[i]
      <4>1. p \in Seq(Nat)
        BY <2>1
      <4>. QED
        BY <3>1, <3>2, <4>1
    <3>4. t = [i \in 1 .. Len(p) + 1 |-> IF i = Len(p) + 1 THEN s[k + 1] ELSE q[i]]
      BY <3>1, <3>2
    <3>5. \A i \in DOMAIN r : t[i] = s[r[i]]
      BY <3>1, <3>3, <3>4
    <3>. QED
      BY <3>3, <3>4, <3>5
  <2>. QED
    BY <2>2, <2>3
<1>. HIDE DEF r
<1>. QED
  BY <1>1, <1>2 DEF Selects

LEMMA SelectedSelects ==
  ASSUME NEW s, Len(s) \in Nat, NEW S
  PROVE  \E p : Selects(p, Selected(s, S), s, S, Len(s))
<1>. DEFINE n == Len(s)
            More(f, i) == IF i = 0 THEN <<>>
                          ELSE IF i \in S THEN Append(f[i - 1], s[i]) ELSE f[i - 1]
            Is(f, k) == f = [i \in 0 .. k |-> More(f, i)]
            T == {k \in 0 .. n : \E f : Is(f, k)}
            up == CHOOSE f : Is(f, n)
<1>1. Selected(s, S) = up[n]
  BY DEF Selected
<1>2. n \in Nat
  OBVIOUS
<1>. HIDE DEF n
<1>3. 0 \in T
  <2>. DEFINE g == [i \in 0 .. 0 |-> <<>>]
  <2>1. \A i \in 0 .. 0 : More(g, i) = <<>>
    OBVIOUS
  <2>2. Is(g, 0)
    <3>. HIDE DEF More
    <3>. QED
      BY <2>1
  <2>. HIDE DEF g, Is
  <2>. QED
    BY <1>2, <2>2
<1>4. ASSUME NEW k \in 0 .. n - 1, k \in T PROVE k + 1 \in T
  <2>1. PICK f : Is(f, k)
    BY <1>4
  <2>2. \A i \in 0 .. k : f[i] = More(f, i)
    <3>. HIDE DEF More
    <3>. QED
      BY <2>1
  <2>. DEFINE g == [i \in 0 .. k + 1 |-> IF i <= k THEN f[i] ELSE More(f, i)]
  <2>3. ASSUME NEW i \in 0 .. k + 1 PROVE g[i] = More(f, i)
    <3>. HIDE DEF More
    <3>. QED
      BY <2>2
  <2>4. ASSUME NEW i \in 0 .. k + 1 PROVE More(g, i) = More(f, i)
    <3>1. CASE i = 0
      BY <3>1
    <3>2. CASE i # 0
      <4>1. i - 1 \in 0 .. k /\ g[i - 1] = f[i - 1]
        <5>. HIDE DEF More
        <5>. QED
          BY <3>2
      <4>. HIDE DEF g
      <4>. QED
        BY <3>2, <4>1
    <3>. QED
      BY <3>1, <3>2
  <2>5. Is(g, k + 1)
    <3>. HIDE DEF More
    <3>. QED
      BY <2>3, <2>4
  <2>. HIDE DEF g, Is
  <2>. QED
    BY <1>2, <2>5
<1>5. Is(up, n)
  <2>1. n \in T
    <3>. HIDE DEF T
    <3>1. \A k \in 0 .. n : k \in T
      BY <1>2, <1>3, <1>4, UpTo
    <3>. QED
      BY <1>2, <3>1
  <2>. HIDE DEF Is
  <2>. QED
    BY <2>1
<1>. HIDE DEF up, T
<1>6. \A i \in 0 .. n : up[i] = More(up, i)
  <2>. HIDE DEF More
  <2>. QED
    BY <1>5
<1>. HIDE DEF Is
<1>. DEFINE U == {k \in 0 .. n : \E p : Selects(p, up[k], s, S, k)}
<1>7. 0 \in U
  <2>1. up[0] = <<>>
    BY <1>2, <1>6
  <2>2. Ascends(<<>>, S, 0)
    BY DEF Ascends
  <2>3. <<>> = [i \in DOMAIN <<>> |-> s[<<>>[i]]]
    OBVIOUS
  <2>4. Selects(<<>>, up[0], s, S, 0)
    BY <2>1, <2>2, <2>3 DEF Selects
  <2>. QED
    BY <1>2, <2>4
<1>8. ASSUME NEW k \in 0 .. n - 1, k \in U PROVE k + 1 \in U
  <2>1. k + 1 \in 0 .. n /\ k + 1 # 0 /\ (k + 1) - 1 = k /\ k \in Nat
    BY <1>2
  <2>2. up[k + 1] = IF k + 1 \in S THEN Append(up[k], s[k + 1]) ELSE up[k]
    BY <1>6, <2>1
  <2>3. PICK p : Selects(p, up[k], s, S, k)
    BY <1>8
  <2>4. \E r : Selects(r, up[k + 1], s, S, k + 1)
    BY ONLY <2>1, <2>2, <2>3, SelectsOne
  <2>. QED
    BY <2>1, <2>4
<1>9. n \in U
  <2>. HIDE DEF U
  <2>1. \A k \in 0 .. n : k \in U
    BY <1>2, <1>7, <1>8, UpTo
  <2>. QED
    BY <1>2, <2>1
<1>. QED
  BY <1>1, <1>9 DEF n

LEMMA SelectedEmbeds ==
  ASSUME NEW X, NEW s \in Seq(X), NEW S, S \subseteq DOMAIN s
  PROVE  /\ Selected(s, S) \in Seq(X)
         /\ \E p : Embeds(p, Selected(s, S), s, S)
<1>. DEFINE q == Selected(s, S)
<1>1. Len(s) \in Nat /\ S = S \cap (1 .. Len(s))
  OBVIOUS
<1>2. PICK a : Selects(a, q, s, S, Len(s))
  BY <1>1, SelectedSelects
<1>3. /\ a \in Seq(S) /\ DOMAIN a = 1 .. Len(a) /\ Len(a) \in Nat
      /\ \A i, j \in DOMAIN a : i < j => a[i] < a[j]
      /\ \A x \in S : \E i \in DOMAIN a : a[i] = x
      /\ q = [k \in DOMAIN a |-> s[a[k]]]
  <2>. HIDE DEF q
  <2>. QED
    BY <1>1, <1>2 DEF Selects, Ascends
<1>. HIDE DEF q
<1>4. \A k \in DOMAIN a : a[k] \in S /\ s[a[k]] \in X
  BY <1>3
<1>5. q \in Seq(X) /\ DOMAIN q = DOMAIN a
  BY <1>3, <1>4
<1>6. Embeds(a, q, s, S)
  <2>1. a \in [DOMAIN q -> S]
    BY <1>3, <1>5
  <2>. QED
    BY <1>3, <1>5, <2>1 DEF Embeds
<1>. QED
  BY <1>5, <1>6 DEF q

-----------------------------------------------------------------------------
(* Records *)

(* The fields of an entry.                                                  *)
LEMMA EntryFields ==
  /\ \A v \in Nat : Start(v) \in Entry /\ Start(v).t = "start"
  /\ \A n \in Nat \ {0}, k \in Keys :
       Issue(n, k) \in Entry /\ Issue(n, k).t = "issue" /\ Issue(n, k).seq = n
  /\ \A n \in Nat \ {0}, h \in {"ok", "error", "cut"}, v \in Values \cup {Null}, u \in Nat :
       Done(n, h, v, u) \in Entry /\ Done(n, h, v, u).t = "done" /\ Done(n, h, v, u).seq = n
  /\ \A u \in Nat \ {0} : Abandoned(u) \in Entry /\ Abandoned(u).t = "abandoned"
  /\ {Live, End, Torn} \subseteq Entry
  /\ Live.t = "live" /\ End.t = "end" /\ Torn.t = "torn"
BY DEF Start, Issue, Done, Abandoned, Live, End, Torn, Marks, Entry

LEMMA DoneFields ==
  ASSUME NEW n \in Nat \ {0}, NEW h \in {"ok", "error", "cut"}, NEW v \in Values \cup {Null},
         NEW u \in Nat, NEW e, e = Done(n, h, v, u)
  PROVE  e \in Entry /\ e.t = "done" /\ e.seq = n
BY EntryFields

LEMMA IssueFields ==
  ASSUME NEW e \in Entry
  PROVE  /\ e.t = "issue" => e.seq \in Nat \ {0} /\ e.key \in Keys
         /\ e.t = "done" => /\ e.seq \in Nat \ {0} /\ e.usage \in Nat
                            /\ e.how \in {"ok", "error", "cut"} /\ e.value \in Values \cup {Null}
         /\ e.t = "abandoned" => e.usage \in Nat \ {0}
BY DEF Live, End, Torn, Marks, Entry

LEMMA PlacesOfAppend ==
  ASSUME NEW X, NEW rec \in Seq(X), NEW e \in X, NEW t
  PROVE  /\ Places(Append(rec, e), t) =
              IF e.t = t THEN Places(rec, t) \cup {Len(rec) + 1} ELSE Places(rec, t)
         /\ \A i \in DOMAIN rec : Append(rec, e)[i] = rec[i]
         /\ Append(rec, e)[Len(rec) + 1] = e
         /\ DOMAIN Append(rec, e) = DOMAIN rec \cup {Len(rec) + 1}
         /\ Len(rec) \in Nat /\ DOMAIN rec = 1 .. Len(rec)
         /\ Append(rec, e) \in Seq(X)
<1>. DEFINE app == Append(rec, e)
<1>1. /\ \A i \in DOMAIN rec : app[i] = rec[i]
      /\ app[Len(rec) + 1] = e /\ Len(rec) \in Nat
      /\ DOMAIN app = 1 .. Len(rec) + 1 /\ DOMAIN rec = 1 .. Len(rec) /\ app \in Seq(X)
  OBVIOUS
<1>. HIDE DEF app
<1>2. DOMAIN app = DOMAIN rec \cup {Len(rec) + 1}
  BY <1>1
<1>3. Places(app, t) = IF e.t = t THEN Places(rec, t) \cup {Len(rec) + 1} ELSE Places(rec, t)
  BY <1>1, <1>2 DEF Places
<1>. QED
  BY <1>1, <1>2, <1>3 DEF app

(* An entry that is neither a call nor an answer changes nothing.           *)
LEMMA AppendOther ==
  ASSUME NEW rec \in Seq(Entry), NEW e \in Entry, e.t \notin {"issue", "done"}
  PROVE  /\ Append(rec, e) \in Seq(Entry)
         /\ Numbers(Append(rec, e), "issue") = Numbers(rec, "issue")
         /\ Numbers(Append(rec, e), "done") = Numbers(rec, "done")
         /\ WellNumbered(rec) => WellNumbered(Append(rec, e))
         /\ Has(Append(rec, e), "live") => Has(rec, "live") \/ e.t = "live"
<1>. DEFINE app == Append(rec, e)
<1>1. /\ Places(app, "issue") = Places(rec, "issue")
      /\ Places(app, "done") = Places(rec, "done")
      /\ Places(app, "live") = IF e.t = "live" THEN Places(rec, "live") \cup {Len(rec) + 1}
                               ELSE Places(rec, "live")
  BY PlacesOfAppend
<1>2. app \in Seq(Entry) /\ \A i \in DOMAIN rec : app[i] = rec[i]
  BY PlacesOfAppend
<1>. HIDE DEF app
<1>3. /\ \A i \in Places(rec, "issue") : app[i] = rec[i]
      /\ \A i \in Places(rec, "done") : app[i] = rec[i]
  BY <1>2 DEF Places
<1>4. Numbers(app, "issue") = Numbers(rec, "issue") /\ Numbers(app, "done") = Numbers(rec, "done")
  BY <1>1, <1>3 DEF Numbers
<1>5. WellNumbered(rec) => WellNumbered(app)
  BY <1>1, <1>3 DEF WellNumbered
<1>6. Has(app, "live") => Has(rec, "live") \/ e.t = "live"
  BY <1>1 DEF Has, Places
<1>. QED
  BY <1>2, <1>4, <1>5, <1>6 DEF app

(* The next call gets the next number.                                      *)
LEMMA AppendIssue ==
  ASSUME NEW rec \in Seq(Entry), WellNumbered(rec), NEW n \in Nat, NEW k \in Keys,
         Numbers(rec, "issue") = 1 .. n
  PROVE  LET app == Append(rec, Issue(n + 1, k))
         IN /\ app \in Seq(Entry) /\ WellNumbered(app)
            /\ Numbers(app, "issue") = 1 .. n + 1
            /\ Numbers(app, "done") = Numbers(rec, "done")
            /\ Has(app, "live") => Has(rec, "live")
<1>. DEFINE e == Issue(n + 1, k)
            app == Append(rec, e)
<1>1. e \in Entry /\ e.t = "issue" /\ e.seq = n + 1
  <2>1. n + 1 \in Nat \ {0}
    OBVIOUS
  <2>. QED
    BY <2>1, EntryFields
<1>. HIDE DEF e
<1>2. /\ Places(app, "issue") = Places(rec, "issue") \cup {Len(rec) + 1}
      /\ Places(app, "done") = Places(rec, "done")
      /\ Places(app, "live") = Places(rec, "live")
      /\ app \in Seq(Entry) /\ app[Len(rec) + 1] = e
      /\ \A i \in DOMAIN rec : app[i] = rec[i]
      /\ Len(rec) \in Nat /\ DOMAIN rec = 1 .. Len(rec)
  BY <1>1, PlacesOfAppend
<1>. HIDE DEF app
<1>3. /\ \A i \in Places(rec, "issue") : app[i] = rec[i] /\ i \in 1 .. Len(rec)
      /\ \A i \in Places(rec, "done") : app[i] = rec[i] /\ i \in 1 .. Len(rec)
  BY <1>2 DEF Places
<1>4. /\ \A i \in Places(rec, "issue") : rec[i].seq \in 1 .. n
      /\ \A m \in 1 .. n : \E i \in Places(rec, "issue") : rec[i].seq = m
  BY DEF Numbers
<1>5. Numbers(app, "issue") = 1 .. n + 1
  <2>1. \A i \in Places(app, "issue") : app[i].seq \in 1 .. n + 1
    BY <1>1, <1>2, <1>3, <1>4
  <2>2. ASSUME NEW m \in 1 .. n + 1 PROVE \E i \in Places(app, "issue") : app[i].seq = m
    <3>1. CASE m = n + 1
      BY <1>1, <1>2, <3>1
    <3>2. CASE m \in 1 .. n
      BY <1>2, <1>3, <1>4, <3>2
    <3>. QED
      BY <3>1, <3>2
  <2>. QED
    BY <2>1, <2>2 DEF Numbers
<1>6. Numbers(app, "done") = Numbers(rec, "done")
  BY <1>2, <1>3 DEF Numbers
<1>7. WellNumbered(app)
  <2>1. ASSUME NEW i \in Places(app, "issue"), NEW m \in 1 .. app[i].seq - 1
        PROVE  \E j \in Places(app, "issue") : j < i /\ app[j].seq = m
    <3>1. CASE i = Len(rec) + 1
      <4>1. m \in 1 .. n
        BY <1>1, <1>2, <3>1
      <4>2. PICK j \in Places(rec, "issue") : rec[j].seq = m
        BY <1>4, <4>1
      <4>. QED
        BY <1>2, <1>3, <3>1, <4>2
    <3>2. CASE i \in Places(rec, "issue")
      <4>1. PICK j \in Places(rec, "issue") : j < i /\ rec[j].seq = m
        BY <1>3, <3>2 DEF WellNumbered
      <4>. QED
        BY <1>2, <1>3, <4>1
    <3>. QED
      BY <1>2, <3>1, <3>2
  <2>2. ASSUME NEW i \in Places(app, "issue"), NEW j \in Places(app, "issue"),
               app[i].seq = app[j].seq
        PROVE  i = j
    <3>1. \A x \in Places(app, "issue") :
            IF x = Len(rec) + 1 THEN app[x].seq = n + 1
            ELSE x \in Places(rec, "issue") /\ app[x].seq = rec[x].seq /\ rec[x].seq \in 1 .. n
      BY <1>1, <1>2, <1>3, <1>4
    <3>2. n + 1 \notin 1 .. n
      OBVIOUS
    <3>. QED
      BY <2>2, <3>1, <3>2 DEF WellNumbered
  <2>3. ASSUME NEW i \in Places(app, "done")
        PROVE  \E j \in Places(app, "issue") : j < i /\ app[j].seq = app[i].seq
    <3>1. PICK j \in Places(rec, "issue") : j < i /\ rec[j].seq = rec[i].seq
      BY <1>2 DEF WellNumbered
    <3>. QED
      BY <1>2, <1>3, <3>1
  <2>4. ASSUME NEW i \in Places(app, "done"), NEW j \in Places(app, "done"),
               app[i].seq = app[j].seq
        PROVE  i = j
    BY <1>2, <1>3, <2>4 DEF WellNumbered
  <2>. QED
    BY <2>1, <2>2, <2>3, <2>4 DEF WellNumbered
<1>8. Has(app, "live") => Has(rec, "live")
  BY <1>2 DEF Has, Places
<1>. QED
  BY <1>2, <1>5, <1>6, <1>7, <1>8 DEF app, e

(* An answer to a call that was issued and has none.                        *)
LEMMA AppendDone ==
  ASSUME NEW rec \in Seq(Entry), WellNumbered(rec), NEW e \in Entry, e.t = "done",
         e.seq \in Numbers(rec, "issue"), e.seq \notin Numbers(rec, "done")
  PROVE  LET app == Append(rec, e)
         IN /\ app \in Seq(Entry) /\ WellNumbered(app)
            /\ Numbers(app, "issue") = Numbers(rec, "issue")
            /\ Numbers(app, "done") = Numbers(rec, "done") \cup {e.seq}
            /\ Has(app, "live") => Has(rec, "live")
<1>. DEFINE app == Append(rec, e)
<1>2. /\ Places(app, "issue") = Places(rec, "issue")
      /\ Places(app, "done") = Places(rec, "done") \cup {Len(rec) + 1}
      /\ Places(app, "live") = Places(rec, "live")
      /\ app \in Seq(Entry) /\ app[Len(rec) + 1] = e
      /\ \A i \in DOMAIN rec : app[i] = rec[i]
      /\ Len(rec) \in Nat /\ DOMAIN rec = 1 .. Len(rec)
  BY PlacesOfAppend
<1>. HIDE DEF app
<1>3. /\ \A i \in Places(rec, "issue") : app[i] = rec[i] /\ i \in 1 .. Len(rec)
      /\ \A i \in Places(rec, "done") : app[i] = rec[i] /\ i \in 1 .. Len(rec)
  BY <1>2 DEF Places
<1>4. Numbers(app, "issue") = Numbers(rec, "issue")
  BY <1>2, <1>3 DEF Numbers
<1>5. Numbers(app, "done") = Numbers(rec, "done") \cup {e.seq}
  BY <1>2, <1>3 DEF Numbers
<1>6. WellNumbered(app)
  <2>1. ASSUME NEW i \in Places(app, "issue"), NEW m \in 1 .. app[i].seq - 1
        PROVE  \E j \in Places(app, "issue") : j < i /\ app[j].seq = m
    <3>1. PICK j \in Places(rec, "issue") : j < i /\ rec[j].seq = m
      BY <1>2, <1>3 DEF WellNumbered
    <3>. QED
      BY <1>2, <1>3, <3>1
  <2>2. ASSUME NEW i \in Places(app, "issue"), NEW j \in Places(app, "issue"),
               app[i].seq = app[j].seq
        PROVE  i = j
    BY <1>2, <1>3, <2>2 DEF WellNumbered
  <2>3. ASSUME NEW i \in Places(app, "done")
        PROVE  \E j \in Places(app, "issue") : j < i /\ app[j].seq = app[i].seq
    <3>1. CASE i = Len(rec) + 1
      <4>1. PICK j \in Places(rec, "issue") : rec[j].seq = e.seq
        BY DEF Numbers
      <4>. QED
        BY <1>2, <1>3, <3>1, <4>1
    <3>2. CASE i \in Places(rec, "done")
      <4>1. PICK j \in Places(rec, "issue") : j < i /\ rec[j].seq = rec[i].seq
        BY <3>2 DEF WellNumbered
      <4>. QED
        BY <1>2, <1>3, <3>2, <4>1
    <3>. QED
      BY <1>2, <3>1, <3>2
  <2>4. ASSUME NEW i \in Places(app, "done"), NEW j \in Places(app, "done"),
               app[i].seq = app[j].seq
        PROVE  i = j
    <3>1. \A x \in Places(app, "done") :
            IF x = Len(rec) + 1 THEN app[x].seq = e.seq
            ELSE /\ x \in Places(rec, "done") /\ app[x].seq = rec[x].seq
                 /\ rec[x].seq \in Numbers(rec, "done")
      BY <1>2, <1>3 DEF Numbers
    <3>. QED
      BY <2>4, <3>1 DEF WellNumbered
  <2>. QED
    BY <2>1, <2>2, <2>3, <2>4 DEF WellNumbered
<1>7. Has(app, "live") => Has(rec, "live")
  BY <1>2 DEF Has, Places
<1>. QED
  BY <1>2, <1>4, <1>5, <1>6, <1>7 DEF app

(* A record cut short is still one.                                         *)
LEMMA PrefixWellNumbered ==
  ASSUME NEW rec \in Seq(Entry), NEW n \in 0 .. Len(rec)
  PROVE  /\ SubSeq(rec, 1, n) \in Seq(Entry)
         /\ DOMAIN SubSeq(rec, 1, n) = 1 .. n
         /\ \A i \in 1 .. n : SubSeq(rec, 1, n)[i] = rec[i]
         /\ Len(SubSeq(rec, 1, n)) = n
         /\ WellNumbered(rec) => WellNumbered(SubSeq(rec, 1, n))
         /\ \A t : Has(SubSeq(rec, 1, n), t) => Has(rec, t)
<1>. DEFINE pre == SubSeq(rec, 1, n)
<1>1. /\ pre \in Seq(Entry) /\ Len(pre) = n /\ DOMAIN pre = 1 .. n /\ n \in Nat
      /\ \A i \in 1 .. n : pre[i] = rec[i]
      /\ DOMAIN rec = 1 .. Len(rec) /\ Len(rec) \in Nat /\ n <= Len(rec)
  OBVIOUS
<1>. HIDE DEF pre
<1>2. \A i \in 1 .. n : i \in DOMAIN rec
  BY <1>1
<1>3. \A t : \A i : i \in Places(pre, t) <=> i \in Places(rec, t) /\ i <= n
  BY <1>1 DEF Places
<1>4. \A t : \A i \in Places(rec, t) : i \in Nat /\ (i <= n => pre[i] = rec[i])
  BY <1>1 DEF Places
<1>5. ASSUME WellNumbered(rec) PROVE WellNumbered(pre)
  <2>1. ASSUME NEW i \in Places(pre, "issue"), NEW m \in 1 .. pre[i].seq - 1
        PROVE  \E j \in Places(pre, "issue") : j < i /\ pre[j].seq = m
    <3>1. i \in Places(rec, "issue") /\ i <= n /\ pre[i] = rec[i] /\ i \in Nat
      BY <1>3, <1>4
    <3>2. PICK j \in Places(rec, "issue") : j < i /\ rec[j].seq = m
      BY <1>5, <3>1 DEF WellNumbered
    <3>3. j \in Nat /\ j <= n
      BY <1>1, <1>4, <3>1, <3>2
    <3>. QED
      BY <1>3, <1>4, <3>2, <3>3
  <2>2. ASSUME NEW i \in Places(pre, "issue"), NEW j \in Places(pre, "issue"),
               pre[i].seq = pre[j].seq
        PROVE  i = j
    BY <1>3, <1>4, <1>5, <2>2 DEF WellNumbered
  <2>3. ASSUME NEW i \in Places(pre, "done")
        PROVE  \E j \in Places(pre, "issue") : j < i /\ pre[j].seq = pre[i].seq
    <3>1. i \in Places(rec, "done") /\ i <= n /\ pre[i] = rec[i] /\ i \in Nat
      BY <1>3, <1>4
    <3>2. PICK j \in Places(rec, "issue") : j < i /\ rec[j].seq = rec[i].seq
      BY <1>5, <3>1 DEF WellNumbered
    <3>3. j \in Nat /\ j <= n
      BY <1>1, <1>4, <3>1, <3>2
    <3>. QED
      BY <1>3, <1>4, <3>1, <3>2, <3>3
  <2>4. ASSUME NEW i \in Places(pre, "done"), NEW j \in Places(pre, "done"),
               pre[i].seq = pre[j].seq
        PROVE  i = j
    BY <1>3, <1>4, <1>5, <2>4 DEF WellNumbered
  <2>. QED
    BY <2>1, <2>2, <2>3, <2>4 DEF WellNumbered
<1>6. \A t : Has(pre, t) => Has(rec, t)
  BY <1>1, <1>2 DEF Has
<1>. QED
  BY <1>1, <1>5, <1>6 DEF pre

(* What is selected of a record, if it keeps the calls and the answers, is  *)
(* numbered as the record is.                                               *)
LEMMA StreamWellNumbered ==
  ASSUME NEW rec \in Seq(Entry)
  PROVE  /\ Stream(rec) \in Seq(Entry)
         /\ \A i \in DOMAIN Stream(rec) : Stream(rec)[i].t \in {"issue", "done"}
         /\ WellNumbered(rec) => WellNumbered(Stream(rec))
         /\ Stream(rec) # <<>> => rec # <<>>
<1>. DEFINE S == {i \in DOMAIN rec : rec[i].t \in {"issue", "done"}}
            q == Stream(rec)
<1>1. S \subseteq DOMAIN rec /\ q = Selected(rec, S)
  BY DEF Stream, Entries
<1>2. q \in Seq(Entry) /\ \E p : Embeds(p, q, rec, S)
  <2>. HIDE DEF S, q
  <2>. QED
    BY <1>1, SelectedEmbeds
<1>3. PICK p : Embeds(p, q, rec, S)
  BY <1>2
<1>4. DOMAIN q = 1 .. Len(q) /\ Len(q) \in Nat /\ DOMAIN rec = 1 .. Len(rec) /\ Len(rec) \in Nat
  <2>. HIDE DEF q
  <2>. QED
    BY <1>2
<1>5. /\ \A i \in S : i \in DOMAIN rec /\ rec[i].t \in {"issue", "done"} /\ i \in Nat
      /\ \A t \in {"issue", "done"} : Places(rec, t) \subseteq S
  BY DEF Places
<1>. HIDE DEF S, q
<1>6. /\ \A i \in DOMAIN q : p[i] \in S /\ q[i] = rec[p[i]] /\ i \in Nat /\ p[i] \in Nat
      /\ \A i, j \in DOMAIN q : (i < j => p[i] < p[j]) /\ (p[i] < p[j] => i < j)
      /\ \A i, j \in DOMAIN q : p[i] = p[j] => i = j
      /\ \A x \in S : \E i \in DOMAIN q : p[i] = x
  <2>1. \A i \in DOMAIN q : p[i] \in S /\ q[i] = rec[p[i]]
    BY <1>3 DEF Embeds
  <2>2. \A i \in DOMAIN q : i \in Nat /\ p[i] \in Nat
    BY <1>4, <1>5, <2>1
  <2>3. \A i, j \in DOMAIN q : i < j => p[i] < p[j]
    BY <1>3 DEF Embeds
  <2>4. \A i, j \in DOMAIN q : i < j \/ j < i \/ i = j
    BY <2>2
  <2>5. \A i, j \in DOMAIN q : (p[i] < p[j] => i < j) /\ (p[i] = p[j] => i = j)
    BY <2>2, <2>3, <2>4
  <2>. QED
    BY <1>3, <2>1, <2>2, <2>3, <2>5 DEF Embeds
<1>7. \A i \in DOMAIN q : q[i].t \in {"issue", "done"}
  BY <1>5, <1>6
<1>8. /\ \A t : \A i \in Places(q, t) : i \in DOMAIN q /\ p[i] \in Places(rec, t)
      /\ \A t \in {"issue", "done"} : \A x \in Places(rec, t) : \E i \in Places(q, t) : p[i] = x
  <2>1. \A t : \A i \in Places(q, t) : i \in DOMAIN q /\ p[i] \in Places(rec, t)
    BY <1>5, <1>6 DEF Places
  <2>2. ASSUME NEW t \in {"issue", "done"}, NEW x \in Places(rec, t)
        PROVE  \E i \in Places(q, t) : p[i] = x
    <3>1. PICK i \in DOMAIN q : p[i] = x
      BY <1>5, <1>6
    <3>2. q[i].t = t
      BY <1>6, <3>1 DEF Places
    <3>. QED
      BY <3>1, <3>2 DEF Places
  <2>. QED
    BY <2>1, <2>2
<1>9. ASSUME WellNumbered(rec) PROVE WellNumbered(q)
  <2>1. ASSUME NEW i \in Places(q, "issue"), NEW m \in 1 .. q[i].seq - 1
        PROVE  \E j \in Places(q, "issue") : j < i /\ q[j].seq = m
    <3>1. i \in DOMAIN q /\ p[i] \in Places(rec, "issue") /\ q[i] = rec[p[i]]
      BY <1>6, <1>8
    <3>2. PICK x \in Places(rec, "issue") : x < p[i] /\ rec[x].seq = m
      BY <1>9, <3>1 DEF WellNumbered
    <3>3. PICK j \in Places(q, "issue") : p[j] = x
      BY <1>8
    <3>. QED
      BY <1>6, <1>8, <3>1, <3>2, <3>3
  <2>2. ASSUME NEW i \in Places(q, "issue"), NEW j \in Places(q, "issue"),
               q[i].seq = q[j].seq
        PROVE  i = j
    <3>1. p[i] \in Places(rec, "issue") /\ p[j] \in Places(rec, "issue")
      BY <1>8
    <3>2. q[i] = rec[p[i]] /\ q[j] = rec[p[j]] /\ i \in DOMAIN q /\ j \in DOMAIN q
      BY <1>6, <1>8
    <3>3. p[i] = p[j]
      BY <1>9, <2>2, <3>1, <3>2 DEF WellNumbered
    <3>. QED
      BY <1>6, <3>2, <3>3
  <2>3. ASSUME NEW i \in Places(q, "done")
        PROVE  \E j \in Places(q, "issue") : j < i /\ q[j].seq = q[i].seq
    <3>1. i \in DOMAIN q /\ p[i] \in Places(rec, "done") /\ q[i] = rec[p[i]]
      BY <1>6, <1>8
    <3>2. PICK x \in Places(rec, "issue") : x < p[i] /\ rec[x].seq = q[i].seq
      BY <1>9, <3>1 DEF WellNumbered
    <3>3. PICK j \in Places(q, "issue") : p[j] = x
      BY <1>8
    <3>. QED
      BY <1>6, <1>8, <3>1, <3>2, <3>3
  <2>4. ASSUME NEW i \in Places(q, "done"), NEW j \in Places(q, "done"),
               q[i].seq = q[j].seq
        PROVE  i = j
    <3>1. p[i] \in Places(rec, "done") /\ p[j] \in Places(rec, "done")
      BY <1>8
    <3>2. q[i] = rec[p[i]] /\ q[j] = rec[p[j]] /\ i \in DOMAIN q /\ j \in DOMAIN q
      BY <1>6, <1>8
    <3>3. p[i] = p[j]
      BY <1>9, <2>4, <3>1, <3>2 DEF WellNumbered
    <3>. QED
      BY <1>6, <3>2, <3>3
  <2>. QED
    BY <2>1, <2>2, <2>3, <2>4 DEF WellNumbered
<1>10. ASSUME q # <<>> PROVE rec # <<>>
  <2>1. 1 \in DOMAIN q
    BY <1>2, <1>4, <1>10
  <2>2. p[1] \in DOMAIN rec
    BY <1>5, <1>6, <2>1
  <2>. QED
    BY <2>2
<1>. QED
  BY <1>2, <1>7, <1>9, <1>10 DEF q

(* parseJournal keeps what stands before the first bad line.                *)
LEMMA ParsedIsPrefix ==
  ASSUME NEW rec \in Seq(Entry)
  PROVE  /\ \E n \in 0 .. Len(rec) : /\ Parsed(rec) = SubSeq(rec, 1, n)
                                     /\ ~Has(rec, "torn") => n = Len(rec)
         /\ Parsed(rec) \in Seq(Entry) /\ ~Has(Parsed(rec), "torn")
         /\ WellNumbered(rec) => WellNumbered(Parsed(rec))
         /\ ~Has(rec, "torn") => Parsed(rec) = rec
         /\ \A t : Has(Parsed(rec), t) => Has(rec, t)
<1>1. CASE ~Has(rec, "torn")
  <2>1. Parsed(rec) = rec /\ rec = SubSeq(rec, 1, Len(rec)) /\ Len(rec) \in 0 .. Len(rec)
    BY <1>1 DEF Parsed
  <2>. QED
    BY <1>1, <2>1, Zenon
<1>2. CASE Has(rec, "torn")
  <2>. DEFINE first(i) == rec[i].t = "torn" /\ \A j \in 1 .. i - 1 : rec[j].t # "torn"
              c == CHOOSE i \in DOMAIN rec : first(i)
  <2>1. \E i \in DOMAIN rec : first(i)
    <3>1. Places(rec, "torn") \subseteq Nat /\ Places(rec, "torn") # {}
      BY <1>2 DEF Places, Has
    <3>2. PICK x \in Places(rec, "torn") : \A y \in Places(rec, "torn") : x <= y
      BY <3>1, LeastNumber
    <3>3. x \in DOMAIN rec /\ rec[x].t = "torn"
      BY DEF Places
    <3>4. \A j \in 1 .. x - 1 : rec[j].t # "torn"
      BY <3>2, <3>3 DEF Places
    <3>. QED
      BY <3>3, <3>4
  <2>2. c \in DOMAIN rec /\ \A j \in 1 .. c - 1 : rec[j].t # "torn"
    <3>1. c \in DOMAIN rec /\ first(c)
      <4>. HIDE DEF first
      <4>. QED
        BY <2>1
    <3>. QED
      BY <3>1
  <2>3. Parsed(rec) = SubSeq(rec, 1, c - 1)
    BY <1>2 DEF Parsed
  <2>. HIDE DEF c
  <2>4. c - 1 \in 0 .. Len(rec)
    BY <2>2
  <2>5. /\ Parsed(rec) \in Seq(Entry) /\ DOMAIN Parsed(rec) = 1 .. c - 1
        /\ \A i \in 1 .. c - 1 : Parsed(rec)[i] = rec[i]
        /\ WellNumbered(rec) => WellNumbered(Parsed(rec))
        /\ \A t : Has(Parsed(rec), t) => Has(rec, t)
    BY <2>3, <2>4, PrefixWellNumbered
  <2>6. ~Has(Parsed(rec), "torn")
    BY <2>2, <2>5 DEF Has
  <2>. QED
    BY <1>2, <2>3, <2>4, <2>5, <2>6
<1>. QED
  BY <1>1, <1>2

(* Answers on the end of a record: of calls it has issued, not answered, and *)
(* none of them twice.                                                      *)
LEMMA ConcatDones ==
  ASSUME NEW rec \in Seq(Entry), WellNumbered(rec), NEW more \in Seq(Entry),
         \A k \in DOMAIN more :
           /\ more[k].t = "done" /\ more[k].seq \in Numbers(rec, "issue")
           /\ more[k].seq \notin Numbers(rec, "done"),
         \A k, l \in DOMAIN more : more[k].seq = more[l].seq => k = l
  PROVE  LET all == rec \o more
         IN /\ all \in Seq(Entry) /\ WellNumbered(all)
            /\ SubSeq(all, 1, Len(rec)) = rec /\ Len(rec) <= Len(all)
            /\ \A t : t # "done" => (Has(all, t) <=> Has(rec, t))
<1>. DEFINE all == rec \o more
<1>1. /\ all \in Seq(Entry) /\ Len(rec) \in Nat /\ Len(more) \in Nat
      /\ DOMAIN rec = 1 .. Len(rec) /\ DOMAIN more = 1 .. Len(more)
      /\ Len(all) = Len(rec) + Len(more) /\ DOMAIN all = 1 .. Len(rec) + Len(more)
      /\ \A i \in 1 .. Len(rec) : all[i] = rec[i]
      /\ \A k \in 1 .. Len(more) : all[Len(rec) + k] = more[k]
      /\ SubSeq(all, 1, Len(rec)) = rec
  BY SubSeqOfConcat1
<1>. HIDE DEF all
<1>2. ASSUME NEW i \in DOMAIN all
      PROVE  \/ i \in 1 .. Len(rec) /\ all[i] = rec[i] /\ i \in DOMAIN rec
             \/ \E k \in DOMAIN more : i = Len(rec) + k /\ all[i] = more[k]
  <2>1. CASE i \in 1 .. Len(rec)
    BY <1>1, <2>1
  <2>2. CASE i \notin 1 .. Len(rec)
    <3>1. i - Len(rec) \in 1 .. Len(more) /\ i = Len(rec) + (i - Len(rec))
      BY <1>1, <2>2
    <3>2. all[Len(rec) + (i - Len(rec))] = more[i - Len(rec)]
      BY <1>1, <3>1
    <3>. QED
      BY <1>1, <3>1, <3>2
  <2>. QED
    BY <2>1, <2>2
<1>3. /\ \A i \in DOMAIN rec : i \in Nat /\ i <= Len(rec) /\ i \in DOMAIN all /\ all[i] = rec[i]
      /\ \A k \in DOMAIN more : k \in Nat /\ k > 0 /\ all[Len(rec) + k] = more[k]
  BY <1>1
<1>4. \A t : t # "done" => Places(all, t) = Places(rec, t)
  BY <1>2, <1>3 DEF Places
<1>5. /\ \A i \in Places(all, "issue") : i \in Places(rec, "issue") /\ all[i] = rec[i]
      /\ \A i \in Places(rec, "issue") : /\ i \in Places(all, "issue") /\ all[i] = rec[i]
                                         /\ i \in Nat /\ i <= Len(rec)
  BY <1>3, <1>4 DEF Places
<1>6. ASSUME NEW i \in Places(all, "done")
      PROVE  \/ /\ i \in Places(rec, "done") /\ i \in Nat /\ all[i] = rec[i]
                /\ all[i].seq \in Numbers(rec, "done")
             \/ \E k \in DOMAIN more : /\ i = Len(rec) + k /\ all[i].seq = more[k].seq
                                       /\ all[i].seq \notin Numbers(rec, "done")
                                       /\ all[i].seq \in Numbers(rec, "issue")
  <2>1. i \in DOMAIN all /\ all[i].t = "done"
    BY DEF Places
  <2>2. CASE i \in DOMAIN rec
    BY <1>3, <2>1, <2>2 DEF Places, Numbers
  <2>3. CASE \E k \in DOMAIN more : i = Len(rec) + k /\ all[i] = more[k]
    BY <2>3
  <2>. QED
    BY <1>2, <2>1, <2>2, <2>3
<1>7. WellNumbered(all)
  <2>1. ASSUME NEW i \in Places(all, "issue"), NEW m \in 1 .. all[i].seq - 1
        PROVE  \E j \in Places(all, "issue") : j < i /\ all[j].seq = m
    BY <1>5 DEF WellNumbered
  <2>2. ASSUME NEW i \in Places(all, "issue"), NEW j \in Places(all, "issue"),
               all[i].seq = all[j].seq
        PROVE  i = j
    BY <1>5, <2>2 DEF WellNumbered
  <2>3. ASSUME NEW i \in Places(all, "done")
        PROVE  \E j \in Places(all, "issue") : j < i /\ all[j].seq = all[i].seq
    <3>1. CASE i \in Places(rec, "done") /\ i \in Nat /\ all[i] = rec[i]
      <4>1. PICK j \in Places(rec, "issue") : j < i /\ rec[j].seq = rec[i].seq
        BY <3>1 DEF WellNumbered
      <4>. QED
        BY <1>5, <3>1, <4>1
    <3>2. CASE \E k \in DOMAIN more : i = Len(rec) + k /\ all[i].seq \in Numbers(rec, "issue")
      <4>1. PICK j \in Places(rec, "issue") : rec[j].seq = all[i].seq
        BY <3>2 DEF Numbers
      <4>2. j < i
        BY <1>1, <1>3, <1>5, <3>2
      <4>. QED
        BY <1>5, <4>1, <4>2
    <3>. QED
      BY <1>6, <3>1, <3>2
  <2>4. ASSUME NEW i \in Places(all, "done"), NEW j \in Places(all, "done"),
               all[i].seq = all[j].seq
        PROVE  i = j
    <3>1. CASE all[i].seq \in Numbers(rec, "done")
      <4>1. /\ i \in Places(rec, "done") /\ all[i] = rec[i]
            /\ j \in Places(rec, "done") /\ all[j] = rec[j]
        BY <1>6, <2>4, <3>1
      <4>. QED
        BY <2>4, <4>1 DEF WellNumbered
    <3>2. CASE all[i].seq \notin Numbers(rec, "done")
      <4>1. PICK k \in DOMAIN more : i = Len(rec) + k /\ all[i].seq = more[k].seq
        BY <1>6, <3>2
      <4>2. PICK l \in DOMAIN more : j = Len(rec) + l /\ all[j].seq = more[l].seq
        BY <1>6, <2>4, <3>2
      <4>. QED
        BY <2>4, <4>1, <4>2
    <3>. QED
      BY <3>1, <3>2
  <2>. QED
    BY <2>1, <2>2, <2>3, <2>4 DEF WellNumbered
<1>8. \A t : t # "done" => (Has(all, t) <=> Has(rec, t))
  BY <1>4 DEF Has, Places
<1>9. Len(rec) <= Len(all)
  BY <1>1
<1>. QED
  BY <1>1, <1>7, <1>8, <1>9 DEF all

ReportsOK == \A c \in DOMAIN reports : reports[c] \in Values

(* What salvageFinishedAttempts does to a record: it only answers calls that *)
(* were not.                                                                *)
LEMMA SalvageAnswers ==
  ASSUME NEW rec \in Seq(Entry), WellNumbered(Parsed(rec)), ReportsOK
  PROVE  /\ Salvage(rec) \in Seq(Entry)
         /\ WellNumbered(Parsed(Salvage(rec)))
         /\ IsPrefix(Parsed(rec), Parsed(Salvage(rec)))
         /\ \A t : t # "done" => (Has(Parsed(Salvage(rec)), t) <=> Has(Parsed(rec), t))
<1>1. ASSUME NEW q \in Seq(Entry) PROVE IsPrefix(q, q)
  <2>1. Len(q) \in Nat /\ SubSeq(q, 1, Len(q)) = SubSeq(q, 1, Len(q))
    OBVIOUS
  <2>. QED
    BY <2>1 DEF IsPrefix
<1>2. CASE Has(rec, "torn")
  <2>1. Salvage(rec) = rec
    BY <1>2 DEF Salvage
  <2>2. Parsed(rec) \in Seq(Entry)
    BY ParsedIsPrefix
  <2>. QED
    BY <2>1, <2>2, <1>1, Zenon
<1>3. CASE ~Has(rec, "torn")
  <2>1. Parsed(rec) = rec
    BY <1>3 DEF Parsed
  <2>. DEFINE S == {i \in DOMAIN rec :
                /\ rec[i].t = "issue"
                /\ [seq |-> rec[i].seq, key |-> rec[i].key] \in DOMAIN reports
                /\ Salvageable(rec, rec[i].seq)}
              late == Selected(rec, S)
              value(i) == reports[[seq |-> late[i].seq, key |-> late[i].key]]
              more == [i \in DOMAIN late |-> Done(late[i].seq, "ok", value(i), 1)]
  <2>2. Salvage(rec) = rec \o more
    BY <1>3, <2>1 DEF Salvage
  <2>3. S \subseteq DOMAIN rec
    OBVIOUS
  <2>4. late \in Seq(Entry) /\ \E p : Embeds(p, late, rec, S)
    <3>. HIDE DEF S
    <3>. QED
      BY <2>3, SelectedEmbeds
  <2>5. PICK p : Embeds(p, late, rec, S)
    BY <2>4
  <2>6. DOMAIN late = 1 .. Len(late) /\ Len(late) \in Nat
    <3>. HIDE DEF late
    <3>. QED
      BY <2>4
  <2>7. ASSUME NEW i \in DOMAIN late
        PROVE  /\ p[i] \in Places(rec, "issue") /\ late[i] = rec[p[i]]
               /\ late[i].seq \in Nat \ {0} /\ value(i) \in Values
               /\ late[i].seq \in Numbers(rec, "issue")
               /\ late[i].seq \notin Numbers(rec, "done")
    <3>1. p[i] \in S /\ late[i] = rec[p[i]]
      <4>. HIDE DEF S, late
      <4>. QED
        BY <2>5 DEF Embeds
    <3>. HIDE DEF late
    <3>2. /\ p[i] \in DOMAIN rec /\ rec[p[i]].t = "issue" /\ rec[p[i]] \in Entry
          /\ [seq |-> late[i].seq, key |-> late[i].key] \in DOMAIN reports
          /\ DonesOf(rec, late[i].seq) = {}
      BY <3>1 DEF Salvageable
    <3>3. late[i].seq \in Nat \ {0}
      BY <3>1, <3>2, IssueFields
    <3>4. value(i) \in Values
      BY <3>2 DEF ReportsOK
    <3>5. late[i].seq \notin Numbers(rec, "done")
      BY <3>2 DEF Numbers, Places, DonesOf
    <3>6. p[i] \in Places(rec, "issue") /\ late[i].seq \in Numbers(rec, "issue")
      BY <3>1, <3>2 DEF Numbers, Places
    <3>. QED
      BY <3>1, <3>3, <3>4, <3>5, <3>6
  <2>8. ASSUME NEW i \in DOMAIN late, NEW j \in DOMAIN late, late[i].seq = late[j].seq
        PROVE  i = j
    <3>. HIDE DEF S, late, value, more
    <3>1. p[i] = p[j]
      <4>1. /\ p[i] \in Places(rec, "issue") /\ p[j] \in Places(rec, "issue")
            /\ rec[p[i]].seq = rec[p[j]].seq
        BY <2>7, <2>8
      <4>2. WellNumbered(rec)
        BY <2>1
      <4>. QED
        BY <4>1, <4>2 DEF WellNumbered
    <3>2. i \in Nat /\ j \in Nat /\ p[i] \in Nat
      <4>1. p[i] \in Places(rec, "issue")
        BY <2>7
      <4>2. p[i] \in DOMAIN rec
        BY <4>1 DEF Places
      <4>. QED
        BY <2>6, <4>2
    <3>3. (i < j => p[i] < p[j]) /\ (j < i => p[j] < p[i])
      BY <2>5 DEF Embeds
    <3>. QED
      BY <3>1, <3>2, <3>3
  <2>. HIDE DEF S, late, value
  <2>9. ASSUME NEW k \in DOMAIN late
        PROVE  more[k] \in Entry /\ more[k].t = "done" /\ more[k].seq = late[k].seq
    <3>1. more[k] = Done(late[k].seq, "ok", value(k), 1)
      OBVIOUS
    <3>2. /\ late[k].seq \in Nat \ {0} /\ value(k) \in Values \cup {Null} /\ 1 \in Nat
          /\ "ok" \in {"ok", "error", "cut"}
      BY <2>7
    <3>. DEFINE e == more[k]
                n == late[k].seq
                v == value(k)
    <3>3. e = Done(n, "ok", v, 1)
      BY <3>1
    <3>4. n \in Nat \ {0} /\ v \in Values \cup {Null} /\ 1 \in Nat /\ "ok" \in {"ok", "error", "cut"}
      BY <3>2
    <3>. HIDE DEF e, n, v
    <3>5. e \in Entry /\ e.t = "done" /\ e.seq = n
      BY ONLY <3>3, <3>4, DoneFields
    <3>. QED
      BY <3>5 DEF e, n
  <2>10. more \in Seq(Entry) /\ DOMAIN more = DOMAIN late
    <3>1. DOMAIN more = DOMAIN late
      OBVIOUS
    <3>2. more = [k \in 1 .. Len(late) |-> more[k]]
      BY <2>6
    <3>. HIDE DEF more
    <3>. QED
      BY <2>6, <2>9, <3>1, <3>2
  <2>. HIDE DEF more
  <2>11. /\ \A k \in DOMAIN more :
              /\ more[k].t = "done" /\ more[k].seq \in Numbers(rec, "issue")
              /\ more[k].seq \notin Numbers(rec, "done")
         /\ \A k, l \in DOMAIN more : more[k].seq = more[l].seq => k = l
    BY <2>7, <2>8, <2>9, <2>10
  <2>12. /\ rec \o more \in Seq(Entry) /\ WellNumbered(rec \o more)
         /\ SubSeq(rec \o more, 1, Len(rec)) = rec /\ Len(rec) <= Len(rec \o more)
         /\ \A t : t # "done" => (Has(rec \o more, t) <=> Has(rec, t))
    BY <2>1, <2>10, <2>11, ConcatDones
  <2>13. ~Has(rec \o more, "torn")
    BY <1>3, <2>12
  <2>14. Parsed(rec \o more) = rec \o more
    BY <2>12, <2>13, ParsedIsPrefix
  <2>15. IsPrefix(rec, rec \o more)
    <3>1. SubSeq(rec, 1, Len(rec)) = rec
      OBVIOUS
    <3>. QED
      BY <2>12, <3>1 DEF IsPrefix
  <2>. QED
    BY <2>1, <2>2, <2>12, <2>14, <2>15
<1>. QED
  BY <1>2, <1>3

-----------------------------------------------------------------------------
(* The script and what it posts *)

(* A script that was told of MaxCalls answers at most is in the domain of   *)
(* ScriptAssumption.                                                        *)
LEMMA ToldWithin ==
  ASSUME NEW sent \in Seq(Reply), Len(sent) <= MaxCalls
  PROVE  sent \in Told(MaxCalls)
<1>1. sent \in [1 .. Len(sent) -> Reply] /\ Len(sent) \in 0 .. MaxCalls
  BY RunAssumption
<1>. QED
  BY <1>1 DEF Told

(* The messages: whose field is what.                                       *)
LEMMA MessageFields ==
  /\ \A k \in Keys : [m |-> "call", key |-> k] \in Message
  /\ \A w \in {"idle", "complete", "failed"} : [m |-> w] \in Message
  /\ \A x \in Message : /\ x.m \in {"call", "idle", "complete", "failed"}
                        /\ x.m = "call" => x.key \in Keys
BY DEF Message

(* What is posted is nothing, once the script was over, or some calls and   *)
(* an idle or the end.                                                      *)
LEMMA SaysProperties ==
  ASSUME version \in Versions, NEW sent \in Seq(Reply), Len(sent) <= MaxCalls
  PROVE  LET says == Says(sent)
         IN /\ says \in Seq(Message)
            /\ \/ says = <<>> /\ sent # <<>> /\ IsOver(Front(sent))
               \/ /\ says # <<>> /\ Len(says) \in DOMAIN says
                  /\ IF IsOver(sent) THEN says[Len(says)].m \in {"complete", "failed"}
                     ELSE says[Len(says)].m = "idle"
<1>. DEFINE calls == Calls(version, sent)
            last == IF IsOver(sent) THEN Over(version, sent) ELSE "idle"
            asks == [i \in DOMAIN calls |-> [m |-> "call", key |-> calls[i]]]
<1>1. calls \in Seq(Keys) /\ Over(version, sent) \in {"no", "complete", "failed"}
  BY ToldWithin, ScriptAssumption
<1>2. /\ last \in {"idle", "complete", "failed"}
      /\ IF IsOver(sent) THEN last \in {"complete", "failed"} ELSE last = "idle"
  BY <1>1 DEF IsOver
<1>3. asks \in Seq(Message)
  <2>. HIDE DEF calls
  <2>1. DOMAIN calls = 1 .. Len(calls) /\ Len(calls) \in Nat /\ \A i \in DOMAIN calls : calls[i] \in Keys
    BY <1>1
  <2>2. \A i \in DOMAIN calls : [m |-> "call", key |-> calls[i]] \in Message
    BY <2>1, MessageFields
  <2>. QED
    BY <2>1, <2>2
<1>4. [m |-> last] \in Message /\ [m |-> last].m = last
  <2>. HIDE DEF last
  <2>. QED
    BY <1>2, MessageFields
<1>5. Says(sent) = IF sent # <<>> /\ IsOver(Front(sent)) THEN <<>> ELSE asks \o <<[m |-> last]>>
  BY DEF Says
<1>. HIDE DEF asks
<1>6. CASE sent # <<>> /\ IsOver(Front(sent))
  BY <1>5, <1>6
<1>7. CASE ~(sent # <<>> /\ IsOver(Front(sent)))
  <2>. DEFINE one == <<[m |-> last]>>
  <2>. HIDE DEF last
  <2>1. one \in Seq(Message) /\ Len(one) = 1 /\ one[1] = [m |-> last]
    BY <1>4
  <2>2. Says(sent) = asks \o one
    BY <1>5, <1>7
  <2>. HIDE DEF one
  <2>3. /\ asks \o one \in Seq(Message) /\ Len(asks \o one) = Len(asks) + 1
        /\ (asks \o one)[Len(asks) + 1] = one[1] /\ Len(asks) \in Nat
        /\ DOMAIN (asks \o one) = 1 .. Len(asks) + 1
    <3>1. asks \o one \in Seq(Message) /\ Len(asks \o one) = Len(asks) + 1 /\ Len(asks) \in Nat
      <4>1. asks \in Seq(Message) /\ one \in Seq(Message)
        BY <1>3, <2>1
      <4>2. asks \o one \in Seq(Message) /\ Len(asks \o one) = Len(asks) + Len(one)
        BY <4>1, ConcatProperties
      <4>3. Len(asks) \in Nat
        BY <4>1, LenProperties
      <4>. QED
        BY <2>1, <4>2, <4>3
    <3>2. \A i \in 1 .. Len(asks) + Len(one) :
            (asks \o one)[i] = IF i <= Len(asks) THEN asks[i] ELSE one[i - Len(asks)]
      BY <1>3, <2>1, ConcatProperties
    <3>3. (asks \o one)[Len(asks) + 1] = one[1]
      BY <2>1, <3>1, <3>2
    <3>. QED
      BY <3>1, <3>3, LenProperties
  <2>4. Says(sent)[Len(Says(sent))].m = last /\ Len(Says(sent)) \in DOMAIN Says(sent)
    BY <1>4, <2>1, <2>2, <2>3
  <2>5. Says(sent) # <<>>
    BY <2>2, <2>3
  <2>. QED
    BY <1>2, <2>2, <2>3, <2>4, <2>5
<1>. QED
  BY <1>6, <1>7

(* The idles of an inbox are finitely many; what is posted behind only adds *)
(* to them, and the first message is one at most.                           *)
LEMMA IdlesAreFinite ==
  ASSUME NEW q \in Seq(Message)
  PROVE  IsFiniteSet(Idling(q)) /\ Cardinality(Idling(q)) \in Nat
<1>1. Idling(q) \subseteq 1 .. Len(q) /\ Len(q) \in Nat
  BY DEF Idling
<1>2. IsFiniteSet(1 .. Len(q))
  <2>1. \A n \in Nat : IsFiniteSet(1 .. n)
    BY ONLY FS_Interval
  <2>. QED
    BY ONLY <1>1, <2>1
<1>. QED
  BY <1>1, <1>2, FS_Subset, FS_CardinalityType

LEMMA PostingAdds ==
  ASSUME NEW a \in Seq(Message), NEW b \in Seq(Message)
  PROVE  /\ a \o b \in Seq(Message)
         /\ Cardinality(Idling(a \o b)) >= Cardinality(Idling(a))
         /\ b # <<>> /\ b[Len(b)].m = "idle"
              => Cardinality(Idling(a \o b)) >= Cardinality(Idling(a)) + 1
         /\ b # <<>> => a \o b # <<>> /\ (a \o b)[Len(a \o b)] = b[Len(b)]
         /\ b = <<>> => a \o b = a
         /\ EndComes(a) => EndComes(a \o b)
         /\ b # <<>> /\ b[Len(b)].m \in {"complete", "failed"} => EndComes(a \o b)
         /\ a # <<>> => a \o b # <<>>
<1>. DEFINE all == a \o b
<1>1. /\ all \in Seq(Message) /\ Len(a) \in Nat /\ Len(b) \in Nat
      /\ Len(all) = Len(a) + Len(b) /\ DOMAIN all = 1 .. Len(a) + Len(b)
      /\ DOMAIN a = 1 .. Len(a) /\ DOMAIN b = 1 .. Len(b)
      /\ \A i \in 1 .. Len(a) : all[i] = a[i]
      /\ \A k \in 1 .. Len(b) : all[Len(a) + k] = b[k]
      /\ (b # <<>> => Len(b) > 0) /\ (a # <<>> => Len(a) > 0)
      /\ (b = <<>> => all = a)
  OBVIOUS
<1>. HIDE DEF all
<1>2. b # <<>> => /\ Len(b) \in 1 .. Len(b) /\ Len(all) \in DOMAIN all
                  /\ all[Len(all)] = b[Len(b)] /\ Len(all) > Len(a)
  BY <1>1
<1>3. Idling(a) \subseteq Idling(all) /\ Idling(a) \subseteq 1 .. Len(a)
  BY <1>1 DEF Idling
<1>4. /\ IsFiniteSet(Idling(a)) /\ IsFiniteSet(Idling(all))
      /\ Cardinality(Idling(a)) \in Nat /\ Cardinality(Idling(all)) \in Nat
  BY <1>1, IdlesAreFinite
<1>5. Cardinality(Idling(all)) >= Cardinality(Idling(a))
  BY <1>3, <1>4, FS_Subset
<1>6. ASSUME b # <<>>, b[Len(b)].m = "idle"
      PROVE  Cardinality(Idling(all)) >= Cardinality(Idling(a)) + 1
  <2>. DEFINE more == Idling(a) \cup {Len(all)}
  <2>1. Len(all) \notin Idling(a) /\ more \subseteq Idling(all)
    BY <1>1, <1>2, <1>3, <1>6 DEF Idling
  <2>2. IsFiniteSet(more) /\ Cardinality(more) = Cardinality(Idling(a)) + 1
    BY <1>4, <2>1, FS_AddElement
  <2>. HIDE DEF more
  <2>3. Cardinality(more) <= Cardinality(Idling(all))
    BY <1>4, <2>1, <2>2, FS_Subset
  <2>. QED
    BY <1>4, <2>2, <2>3
<1>7. EndComes(a) => EndComes(all)
  BY <1>1 DEF EndComes
<1>8. b # <<>> /\ b[Len(b)].m \in {"complete", "failed"} => EndComes(all)
  BY <1>2 DEF EndComes
<1>9. (b # <<>> \/ a # <<>>) => all # <<>>
  BY <1>1
<1>. QED
  BY <1>1, <1>2, <1>5, <1>6, <1>7, <1>8, <1>9, Zenon DEF all

LEMMA HearingTakes ==
  ASSUME NEW a \in Seq(Message), a # <<>>
  PROVE  /\ Head(a) \in Message /\ Tail(a) \in Seq(Message)
         /\ Head(a).m # "idle" => Cardinality(Idling(Tail(a))) >= Cardinality(Idling(a))
         /\ Cardinality(Idling(Tail(a))) + 1 >= Cardinality(Idling(a))
         /\ Head(a).m \notin {"complete", "failed"} /\ EndComes(a) => EndComes(Tail(a))
         /\ Tail(a) # <<>> => Tail(a)[Len(Tail(a))] = a[Len(a)]
         /\ Tail(a) = <<>> => Head(a) = a[Len(a)]
<1>. DEFINE t == Tail(a)
<1>1. /\ Head(a) \in Message /\ t \in Seq(Message) /\ Head(a) = a[1]
      /\ Len(a) \in Nat /\ Len(a) > 0 /\ DOMAIN a = 1 .. Len(a)
      /\ Len(t) = Len(a) - 1 /\ DOMAIN t = 1 .. Len(a) - 1
      /\ \A i \in 1 .. Len(a) - 1 : t[i] = a[i + 1]
      /\ (t = <<>> => Len(a) = 1) /\ (t # <<>> => Len(a) > 1)
  <2>1. /\ Head(a) \in Message /\ t \in Seq(Message) /\ Head(a) = a[1]
        /\ Len(a) \in Nat /\ Len(a) > 0 /\ DOMAIN a = 1 .. Len(a)
    OBVIOUS
  <2>2. /\ Len(t) = Len(a) - 1 /\ DOMAIN t = 1 .. Len(a) - 1
        /\ \A i \in 1 .. Len(a) - 1 : t[i] = a[i + 1]
    OBVIOUS
  <2>3. (t = <<>> => Len(t) = 0) /\ (t # <<>> => Len(t) > 0)
    <3>. HIDE DEF t
    <3>. QED
      BY <2>1
  <2>. QED
    BY <2>1, <2>2, <2>3
<1>. HIDE DEF t
<1>2. /\ IsFiniteSet(Idling(a)) /\ IsFiniteSet(Idling(t))
      /\ Cardinality(Idling(a)) \in Nat /\ Cardinality(Idling(t)) \in Nat
  BY <1>1, IdlesAreFinite
<1>. DEFINE rest == Idling(a) \ {1}
            f == [i \in rest |-> i - 1]
<1>3. /\ \A i \in Idling(a) : i \in 1 .. Len(a) /\ a[i].m = "idle"
      /\ \A i \in 1 .. Len(a) : a[i].m = "idle" => i \in Idling(a)
      /\ \A i \in 1 .. Len(t) : t[i].m = "idle" => i \in Idling(t)
  BY <1>1 DEF Idling
<1>4. IsFiniteSet(rest) /\ Cardinality(rest) \in Nat
  BY <1>2, FS_Subset, FS_CardinalityType
<1>5. Cardinality(rest) <= Cardinality(Idling(t))
  <2>1. f \in [rest -> Idling(t)]
    <3>1. ASSUME NEW i \in rest PROVE i - 1 \in Idling(t)
      <4>1. i \in 1 .. Len(a) /\ a[i].m = "idle" /\ i # 1
        BY <1>3
      <4>2. i - 1 \in 1 .. Len(a) - 1 /\ (i - 1) + 1 = i
        BY <1>1, <4>1
      <4>3. t[i - 1].m = "idle"
        BY <1>1, <4>1, <4>2
      <4>. QED
        BY <1>1, <1>3, <4>2, <4>3
    <3>. QED
      BY <3>1
  <2>2. \A i, j \in rest : f[i] = f[j] => i = j
    BY <1>1, <1>3
  <2>3. f \in Injection(rest, Idling(t))
    <3>. HIDE DEF f, rest
    <3>. QED
      BY <2>1, <2>2 DEF Injection, IsInjective
  <2>. HIDE DEF f, rest
  <2>. QED
    BY <1>2, <2>3, FS_Injection
<1>6. a[1].m # "idle" => rest = Idling(a)
  BY <1>3
<1>7. Cardinality(rest) >= Cardinality(Idling(a)) - 1
  <2>1. CASE 1 \in Idling(a)
    <3>1. Cardinality(rest) = Cardinality(Idling(a)) - 1
      BY <1>2, <2>1, FS_RemoveElement
    <3>. HIDE DEF rest
    <3>. QED
      BY <1>2, <3>1
  <2>2. CASE 1 \notin Idling(a)
    <3>1. rest = Idling(a)
      BY <2>2
    <3>. HIDE DEF rest
    <3>. QED
      BY <1>2, <3>1
  <2>. QED
    BY <2>1, <2>2
<1>. HIDE DEF rest
<1>8. /\ Head(a).m # "idle" => Cardinality(Idling(t)) >= Cardinality(Idling(a))
      /\ Cardinality(Idling(t)) + 1 >= Cardinality(Idling(a))
  BY <1>1, <1>2, <1>4, <1>5, <1>6, <1>7
<1>9. ASSUME Head(a).m \notin {"complete", "failed"}, EndComes(a) PROVE EndComes(t)
  <2>1. PICK i \in 1 .. Len(a) : a[i].m \in {"complete", "failed"}
    BY <1>1, <1>9 DEF EndComes
  <2>2. i # 1
    BY <1>1, <1>9, <2>1
  <2>3. i - 1 \in 1 .. Len(a) - 1 /\ (i - 1) + 1 = i
    BY <1>1, <2>2
  <2>4. t[i - 1] = a[i]
    BY <1>1, <2>3
  <2>. QED
    BY <1>1, <2>1, <2>3, <2>4 DEF EndComes
<1>10. t # <<>> => t[Len(t)] = a[Len(a)]
  <2>1. ASSUME t # <<>> PROVE t[Len(t)] = a[Len(a)]
    <3>1. Len(t) \in 1 .. Len(a) - 1 /\ Len(t) + 1 = Len(a)
      BY <1>1, <2>1
    <3>. QED
      BY <1>1, <3>1
  <2>. QED
    BY <2>1
<1>. QED
  BY <1>1, <1>8, <1>9, <1>10 DEF t

-----------------------------------------------------------------------------
(* The runtime: what its helpers do to it *)

(* Other calls in a runtime.                                                *)
LEMMA RuntimeCalls ==
  ASSUME NEW r \in Runtime, NEW c \in Seq(Call)
  PROVE  /\ [r EXCEPT !.calls = c] \in Runtime
         /\ [r EXCEPT !.calls = c].calls = c
         /\ [r EXCEPT !.calls = c].sent = r.sent /\ [r EXCEPT !.calls = c].inbox = r.inbox
         /\ [r EXCEPT !.calls = c].idles = r.idles /\ [r EXCEPT !.calls = c].cursor = r.cursor
         /\ [r EXCEPT !.calls = c].replaying = r.replaying
         /\ [r EXCEPT !.calls = c].stopping = r.stopping
         /\ [r EXCEPT !.calls = c].terminated = r.terminated
         /\ [r EXCEPT !.calls = c].outcome = r.outcome
         /\ [r EXCEPT !.calls = c].settled = r.settled
         /\ [r EXCEPT !.calls = c].journal = r.journal
BY DEF Runtime

LEMMA RuntimeFields ==
  ASSUME NEW r \in Runtime
  PROVE  /\ r.calls \in Seq(Call) /\ r.sent \in Seq(Reply) /\ r.inbox \in Seq(Message)
         /\ r.idles \in Nat /\ r.cursor \in Nat \ {0} /\ r.replaying \in BOOLEAN
         /\ r.stopping \in BOOLEAN /\ r.terminated \in BOOLEAN
         /\ r.outcome \in {"none", "stopped", "complete", "failed", "stuck"}
         /\ r.settled \in Nat /\ r.journal \in Seq(Entry)
         /\ DOMAIN r.calls = 1 .. Len(r.calls) /\ Len(r.calls) \in Nat
         /\ \A s \in DOMAIN r.calls : r.calls[s] \in Call
BY DEF Runtime

LEMMA CallFields ==
  ASSUME NEW c \in Call
  PROVE  /\ c.key \in Keys /\ c.used \in 0 .. 1 /\ c.value \in Values \cup {Null}
         /\ c.at \in {"working", "over", "cached", "queued", "answered", "stopped"}
         /\ c.abort \in {"none", "ceiling", "skip", "stop", "quit"}
BY DEF Call, Execution

(* A map over the calls that keeps each a call.                             *)
LEMMA MappedCalls ==
  ASSUME NEW c \in Seq(Call), NEW d, d = [s \in DOMAIN c |-> d[s]],
         \A s \in DOMAIN c : d[s] \in Call
  PROVE  d \in Seq(Call) /\ DOMAIN d = DOMAIN c /\ Len(d) = Len(c)
<1>1. DOMAIN c = 1 .. Len(c) /\ Len(c) \in Nat
  OBVIOUS
<1>2. d = [s \in 1 .. Len(c) |-> d[s]] /\ \A s \in 1 .. Len(c) : d[s] \in Call
  BY <1>1
<1>3. d \in Seq(Call)
  BY <1>1, <1>2
<1>. QED
  BY <1>1, <1>2, <1>3

(* Only calls, and what is settled, change from r to q.                     *)
OnlyCalls(r, q) ==
  /\ q \in Runtime /\ DOMAIN q.calls = DOMAIN r.calls /\ Len(q.calls) = Len(r.calls)
  /\ q.sent = r.sent /\ q.inbox = r.inbox /\ q.idles = r.idles /\ q.cursor = r.cursor
  /\ q.replaying = r.replaying /\ q.stopping = r.stopping /\ q.terminated = r.terminated
  /\ q.outcome = r.outcome /\ q.journal = r.journal

LEMMA AbortsTouch ==
  ASSUME NEW r \in Runtime, NEW why \in {"ceiling", "stop", "quit"}
  PROVE  LET q == Aborts(r, why)
         IN /\ OnlyCalls(r, q)
            /\ \A s \in DOMAIN r.calls :
                 /\ q.calls[s].at = r.calls[s].at /\ q.calls[s].key = r.calls[s].key
                 /\ q.calls[s].abort = r.calls[s].abort \/ q.calls[s].abort = why
<1>. DEFINE d == [s \in DOMAIN r.calls |->
               IF r.calls[s].at \in Execution /\ r.calls[s].abort = "none"
               THEN [r.calls[s] EXCEPT !.abort = why] ELSE r.calls[s]]
            q == Aborts(r, why)
<1>1. q = [r EXCEPT !.calls = d]
  BY DEF Aborts
<1>2. \A s \in DOMAIN r.calls : r.calls[s] \in Call
  BY RuntimeFields
<1>3. ASSUME NEW s \in DOMAIN r.calls
      PROVE  /\ d[s] \in Call /\ d[s].at = r.calls[s].at /\ d[s].key = r.calls[s].key
             /\ d[s].abort = r.calls[s].abort \/ d[s].abort = why
  <2>1. CASE r.calls[s].at \in Execution /\ r.calls[s].abort = "none"
    <3>. DEFINE x == [r.calls[s] EXCEPT !.abort = why]
    <3>1. d[s] = x
      BY <2>1
    <3>2. r.calls[s] \in Call /\ why \in {"none", "ceiling", "skip", "stop", "quit"}
      BY <1>2
    <3>3. x \in Call /\ x.at = r.calls[s].at /\ x.key = r.calls[s].key /\ x.abort = why
      BY <3>2 DEF Call, Execution
    <3>. HIDE DEF d, x
    <3>. QED
      BY <3>1, <3>3
  <2>2. CASE ~(r.calls[s].at \in Execution /\ r.calls[s].abort = "none")
    <3>1. d[s] = r.calls[s]
      BY <2>2
    <3>. HIDE DEF d
    <3>. QED
      BY <1>2, <3>1
  <2>. QED
    BY <2>1, <2>2
<1>4. d = [s \in DOMAIN r.calls |-> d[s]]
  OBVIOUS
<1>. HIDE DEF d, q
<1>5. d \in Seq(Call) /\ DOMAIN d = DOMAIN r.calls /\ Len(d) = Len(r.calls)
  BY <1>3, <1>4, RuntimeFields, MappedCalls
<1>6. OnlyCalls(r, q) /\ q.calls = d
  BY <1>1, <1>5, RuntimeCalls DEF OnlyCalls
<1>. QED
  BY <1>3, <1>6 DEF q

(* The state of one call changes.                                           *)
LEMMA OneCallTouch ==
  ASSUME NEW r \in Runtime, NEW seq \in DOMAIN r.calls, NEW c \in Call
  PROVE  LET q == [r EXCEPT !.calls[seq] = c]
         IN /\ OnlyCalls(r, q)
            /\ \A s \in DOMAIN r.calls : q.calls[s] = IF s = seq THEN c ELSE r.calls[s]
<1>. DEFINE d == [r.calls EXCEPT ![seq] = c]
            q == [r EXCEPT !.calls[seq] = c]
<1>1. q = [r EXCEPT !.calls = d]
  OBVIOUS
<1>2. \A s \in DOMAIN r.calls : r.calls[s] \in Call
  BY RuntimeFields
<1>3. /\ \A s \in DOMAIN r.calls : d[s] = IF s = seq THEN c ELSE r.calls[s]
      /\ d = [s \in DOMAIN r.calls |-> d[s]]
  OBVIOUS
<1>. HIDE DEF d, q
<1>4. \A s \in DOMAIN r.calls : d[s] \in Call
  BY <1>2, <1>3
<1>5. d \in Seq(Call) /\ DOMAIN d = DOMAIN r.calls /\ Len(d) = Len(r.calls)
  BY <1>3, <1>4, RuntimeFields, MappedCalls
<1>6. OnlyCalls(r, q) /\ q.calls = d
  BY <1>1, <1>5, RuntimeCalls DEF OnlyCalls
<1>. QED
  BY <1>3, <1>6 DEF q

(* A runtime in the middle of a handler, before the run ends.               *)
Sound(r) ==
  /\ r \in Runtime /\ Len(r.calls) <= MaxCalls
  /\ Recorded(r) /\ Heard(r) /\ ~Ending(r)

LEMMA AnsweredFinite ==
  ASSUME NEW r \in Runtime
  PROVE  /\ IsFiniteSet(Answered(r)) /\ Cardinality(Answered(r)) \in Nat
         /\ Cardinality(Answered(r)) <= Len(r.calls)
<1>1. Answered(r) \subseteq 1 .. Len(r.calls) /\ Len(r.calls) \in Nat
  BY RuntimeFields DEF Answered
<1>2. IsFiniteSet(1 .. Len(r.calls)) /\ Cardinality(1 .. Len(r.calls)) = Len(r.calls)
  <2>1. 0 \in Int /\ 1 \in Int /\ Len(r.calls) \in Int
    BY <1>1
  <2>2. Cardinality(1 .. Len(r.calls)) = IF 1 > Len(r.calls) THEN 0 ELSE Len(r.calls) - 1 + 1
    BY <2>1, FS_Interval
  <2>. QED
    BY <1>1, <2>1, <2>2, FS_Interval
<1>. QED
  BY <1>1, <1>2, FS_Subset, FS_CardinalityType

(* The record and the guest hear of an answer.                              *)
Replied(r, q) ==
  /\ Sound(q) /\ q.calls = r.calls /\ q.cursor = r.cursor
  /\ q.replaying = r.replaying /\ q.idles > 0 /\ q.inbox # <<>>
  /\ Has(q.journal, "live") => Has(r.journal, "live")

LEMMA RepliesSound ==
  ASSUME version \in Versions, NEW r \in Runtime, Len(r.calls) <= MaxCalls, ~Ending(r), Heard(r),
         WellNumbered(r.journal), Numbers(r.journal, "issue") = DOMAIN r.calls,
         NEW seq \in Answered(r), Numbers(r.journal, "done") \subseteq Answered(r) \ {seq},
         Len(r.sent) + 1 <= Cardinality(Answered(r)),
         NEW how \in {"ok", "error", "cut"}, NEW value \in Values \cup {Null}, NEW use \in Nat
  PROVE  Replied(r, Replies(r, seq, how, value, use))
<1>. DEFINE y == [key |-> r.calls[seq].key, thrown |-> how = "error", value |-> value]
            sent == Append(r.sent, y)
            says == Says(sent)
            e == Done(seq, how, value, use)
            jrn == Append(r.journal, e)
            q == Replies(r, seq, how, value, use)
<1>1. q = [r EXCEPT !.journal = jrn, !.idles = @ + 1, !.sent = sent, !.inbox = @ \o says]
  BY DEF Replies
<1>2. /\ r.sent \in Seq(Reply) /\ r.inbox \in Seq(Message) /\ r.journal \in Seq(Entry)
      /\ r.idles \in Nat /\ DOMAIN r.calls = 1 .. Len(r.calls) /\ Len(r.calls) \in Nat
  BY RuntimeFields
<1>3. seq \in DOMAIN r.calls /\ seq \in Nat \ {0} /\ r.calls[seq].key \in Keys
  <2>1. seq \in DOMAIN r.calls /\ r.calls[seq] \in Call
    BY RuntimeFields DEF Answered
  <2>. QED
    BY <1>2, <2>1, CallFields
<1>4. y \in Reply
  BY <1>3 DEF Reply
<1>5. sent \in Seq(Reply) /\ Len(sent) = Len(r.sent) + 1 /\ sent # <<>> /\ Front(sent) = r.sent
  <2>. HIDE DEF y
  <2>1. sent \in Seq(Reply) /\ Len(sent) = Len(r.sent) + 1 /\ sent # <<>> /\ Len(r.sent) \in Nat
    BY <1>2, <1>4
  <2>2. SubSeq(sent, 1, Len(r.sent)) = r.sent
    BY <1>2, <1>4
  <2>. HIDE DEF sent
  <2>3. Len(sent) - 1 = Len(r.sent)
    BY <2>1
  <2>. QED
    BY <2>1, <2>2, <2>3 DEF Front
<1>6. Len(sent) <= MaxCalls /\ Len(sent) <= Cardinality(Answered(r))
  <2>. HIDE DEF sent
  <2>1. Cardinality(Answered(r)) <= Len(r.calls) /\ Cardinality(Answered(r)) \in Nat
    BY AnsweredFinite
  <2>2. Len(sent) \in Nat /\ MaxCalls \in Nat
    BY <1>5, RunAssumption
  <2>. QED
    BY <1>2, <1>5, <2>1, <2>2
<1>7. e \in Entry /\ e.t = "done" /\ e.seq = seq
  <2>. HIDE DEF y, sent, says, jrn, q
  <2>. QED
    BY ONLY <1>3, how \in {"ok", "error", "cut"}, value \in Values \cup {Null}, use \in Nat,
            EntryFields
<1>. HIDE DEF y, e, sent, says
<1>8. /\ jrn \in Seq(Entry) /\ WellNumbered(jrn)
      /\ Numbers(jrn, "issue") = DOMAIN r.calls
      /\ Numbers(jrn, "done") \subseteq Answered(r)
      /\ Has(jrn, "live") => Has(r.journal, "live")
  <2>1. e.seq \in Numbers(r.journal, "issue") /\ e.seq \notin Numbers(r.journal, "done")
    BY <1>3, <1>7
  <2>2. /\ jrn \in Seq(Entry) /\ WellNumbered(jrn)
        /\ Numbers(jrn, "issue") = Numbers(r.journal, "issue")
        /\ Numbers(jrn, "done") = Numbers(r.journal, "done") \cup {e.seq}
        /\ Has(jrn, "live") => Has(r.journal, "live")
    BY <1>2, <1>7, <2>1, AppendDone
  <2>. QED
    BY <1>7, <2>2
<1>9. /\ says \in Seq(Message)
      /\ \/ says = <<>> /\ IsOver(r.sent)
         \/ /\ says # <<>>
            /\ IF IsOver(sent) THEN says[Len(says)].m \in {"complete", "failed"}
               ELSE says[Len(says)].m = "idle"
  BY <1>5, <1>6, SaysProperties DEF says
<1>10. r.inbox \o says \in Seq(Message)
  BY <1>2, <1>9, PostingAdds
<1>. DEFINE box == r.inbox \o says
            idles == r.idles + 1
<1>11. /\ q \in Runtime /\ q.calls = r.calls /\ q.cursor = r.cursor /\ q.replaying = r.replaying
       /\ q.idles = r.idles + 1 /\ q.inbox = r.inbox \o says /\ q.journal = jrn /\ q.sent = sent
       /\ q.stopping = r.stopping /\ q.outcome = r.outcome
  <2>1. q = [r EXCEPT !.journal = jrn, !.idles = idles, !.sent = sent, !.inbox = box]
    BY <1>1
  <2>2. idles \in Nat /\ box \in Seq(Message)
    BY <1>2, <1>10
  <2>. HIDE DEF jrn, q, box, idles
  <2>3. /\ q \in Runtime /\ q.calls = r.calls /\ q.cursor = r.cursor /\ q.replaying = r.replaying
        /\ q.idles = idles /\ q.inbox = box /\ q.journal = jrn /\ q.sent = sent
        /\ q.stopping = r.stopping /\ q.outcome = r.outcome
    BY ONLY r \in Runtime, <1>5, <1>8, <2>1, <2>2 DEF Runtime
  <2>. QED
    BY <2>3 DEF box, idles
<1>. HIDE DEF jrn, q, box, idles
<1>12. /\ ~Ending(q) /\ Answered(q) = Answered(r)
  BY <1>11 DEF Ending, Finished, Answered
<1>13. Recorded(q)
  BY <1>6, <1>8, <1>11, <1>12 DEF Recorded
<1>14. EndComes(r.inbox) \/ (r.idles <= Cardinality(Idling(r.inbox)) /\ ~IsOver(r.sent))
  BY DEF Heard
<1>15. q.inbox # <<>> /\ q.inbox[Len(q.inbox)].m # "call"
  <2>1. CASE says = <<>> /\ IsOver(r.sent)
    <3>1. EndComes(r.inbox)
      BY <1>14, <2>1
    <3>2. r.inbox # <<>>
      BY <3>1 DEF EndComes
    <3>3. q.inbox = r.inbox
      BY <1>2, <1>9, <1>11, <2>1, PostingAdds
    <3>. QED
      BY <3>2, <3>3 DEF Heard
  <2>2. CASE /\ says # <<>>
             /\ IF IsOver(sent) THEN says[Len(says)].m \in {"complete", "failed"}
                ELSE says[Len(says)].m = "idle"
    <3>1. q.inbox # <<>> /\ q.inbox[Len(q.inbox)] = says[Len(says)]
      BY <1>2, <1>9, <1>11, <2>2, PostingAdds
    <3>. QED
      BY <2>2, <3>1
  <2>. QED
    BY <1>9, <2>1, <2>2
<1>16. EndComes(q.inbox) \/ (q.idles <= Cardinality(Idling(q.inbox)) /\ ~IsOver(q.sent))
  <2>1. EndComes(r.inbox) => EndComes(q.inbox)
    BY <1>2, <1>9, <1>11, PostingAdds
  <2>2. CASE r.idles <= Cardinality(Idling(r.inbox)) /\ ~IsOver(r.sent)
    <3>1. says # <<>>
      BY <1>9, <2>2
    <3>2. CASE IsOver(sent)
      <4>1. EndComes(r.inbox \o says)
        BY <1>2, <1>9, <3>1, <3>2, PostingAdds
      <4>. QED
        BY <1>11, <4>1
    <3>3. CASE ~IsOver(sent)
      <4>1. Cardinality(Idling(r.inbox \o says)) >= Cardinality(Idling(r.inbox)) + 1
        BY <1>2, <1>9, <3>1, <3>3, PostingAdds
      <4>2. Cardinality(Idling(r.inbox \o says)) \in Nat /\ Cardinality(Idling(r.inbox)) \in Nat
        BY <1>2, <1>10, IdlesAreFinite
      <4>. QED
        BY <1>2, <1>11, <2>2, <3>3, <4>1, <4>2
    <3>. QED
      BY <3>2, <3>3
  <2>. QED
    BY <1>14, <2>1, <2>2
<1>17. Heard(q)
  BY <1>11, <1>15, <1>16 DEF Heard
<1>18. q.idles > 0
  BY <1>2, <1>11
<1>. QED
  BY <1>8, <1>11, <1>12, <1>13, <1>15, <1>17, <1>18 DEF Sound, q, Replied

(* A call that is over.                                                     *)
LEMMA CallIsOver ==
  ASSUME NEW x \in Call, NEW at \in {"answered", "stopped"}
  PROVE  LET c == [x EXCEPT !.at = at, !.used = 0]
         IN c \in Call /\ c.at = at /\ c.key = x.key /\ c.abort = x.abort /\ c.value = x.value
<1>. DEFINE b == [x EXCEPT !.at = at]
            c == [x EXCEPT !.at = at, !.used = 0]
<1>1. b \in Call /\ b.at = at /\ b.key = x.key /\ b.abort = x.abort /\ b.value = x.value
  BY DEF Call
<1>2. c = [b EXCEPT !.used = 0]
  BY DEF Call
<1>. HIDE DEF b, c
<1>3. c \in Call /\ c.at = b.at /\ c.key = b.key /\ c.abort = b.abort /\ c.value = b.value
  <2>1. 0 \in 0 .. 1
    OBVIOUS
  <2>. QED
    BY <1>1, <1>2, <2>1 DEF Call
<1>. QED
  BY <1>1, <1>3 DEF c

(* What only touches calls and keeps the answered ones answered leaves the  *)
(* record right, and the guest, if nothing is stopped.                      *)
LEMMA TouchRecorded ==
  ASSUME NEW r \in Runtime, Recorded(r), NEW q, OnlyCalls(r, q), Answered(r) \subseteq Answered(q)
  PROVE  Recorded(q)
<1>1. q \in Runtime /\ q.journal = r.journal /\ q.sent = r.sent /\ DOMAIN q.calls = DOMAIN r.calls
  BY DEF OnlyCalls
<1>2. Cardinality(Answered(r)) <= Cardinality(Answered(q))
  BY <1>1, AnsweredFinite, FS_Subset
<1>3. /\ Cardinality(Answered(r)) \in Nat /\ Cardinality(Answered(q)) \in Nat
      /\ Len(r.sent) \in Nat
  BY <1>1, AnsweredFinite, RuntimeFields
<1>4. Len(q.sent) <= Cardinality(Answered(q))
  BY <1>1, <1>2, <1>3 DEF Recorded
<1>. QED
  BY <1>1, <1>4 DEF Recorded

Unstopped(c) == c.at # "stopped" /\ c.abort \notin {"stop", "quit"}

LEMMA TouchSound ==
  ASSUME NEW r, Sound(r), NEW q, OnlyCalls(r, q), Answered(r) \subseteq Answered(q),
         \A s \in DOMAIN r.calls : Unstopped(q.calls[s])
  PROVE  Sound(q)
<1>1. r \in Runtime /\ Recorded(r) /\ Heard(r) /\ ~Ending(r) /\ Len(r.calls) <= MaxCalls
  BY DEF Sound
<1>2. /\ q \in Runtime /\ q.inbox = r.inbox /\ q.sent = r.sent /\ q.idles = r.idles
      /\ DOMAIN q.calls = DOMAIN r.calls /\ Len(q.calls) = Len(r.calls)
      /\ q.stopping = r.stopping /\ q.outcome = r.outcome
  BY DEF OnlyCalls
<1>3. Recorded(q)
  BY <1>1, TouchRecorded
<1>4. Heard(q)
  BY <1>1, <1>2 DEF Heard, Unstopped
<1>5. ~Ending(q)
  BY <1>1, <1>2 DEF Ending, Finished
<1>. QED
  BY <1>1, <1>2, <1>3, <1>4, <1>5 DEF Sound

(* Before the end, the ceilings abort agents and answer nobody.             *)
LEMMA EnforcingTouches ==
  ASSUME NEW r \in Runtime
  PROVE  LET q == EnforceCeilings(r)
         IN /\ OnlyCalls(r, q)
            /\ \A s \in DOMAIN r.calls :
                 /\ q.calls[s].at = r.calls[s].at /\ q.calls[s].key = r.calls[s].key
                 /\ q.calls[s].abort = r.calls[s].abort \/ q.calls[s].abort = "ceiling"
<1>1. CASE ~Ending(r) /\ AtCeiling(r)
  <2>1. EnforceCeilings(r) = Aborts(r, "ceiling")
    BY <1>1 DEF EnforceCeilings
  <2>. QED
    BY <2>1, AbortsTouch
<1>2. CASE ~(~Ending(r) /\ AtCeiling(r))
  <2>1. EnforceCeilings(r) = r
    BY <1>2 DEF EnforceCeilings
  <2>. QED
    BY <2>1 DEF OnlyCalls
<1>. QED
  BY <1>1, <1>2

(* From r to q the same calls are there, the replay is where it was, it is  *)
(* not over because of what is recorded, and the guest keeps waiting for    *)
(* what it was waiting for.                                                 *)
Follows(r, q) ==
  /\ DOMAIN q.calls = DOMAIN r.calls /\ Len(q.calls) = Len(r.calls)
  /\ q.cursor = r.cursor /\ q.replaying = r.replaying
  /\ Has(q.journal, "live") => Has(r.journal, "live")
  /\ r.idles > 0 => q.idles > 0
  /\ r.inbox # <<>> => q.inbox # <<>>

LEMMA FollowsOn ==
  ASSUME NEW r, NEW b, NEW q, Follows(r, b), Follows(b, q)
  PROVE  Follows(r, q)
BY DEF Follows

LEMMA TouchFollows ==
  ASSUME NEW r, NEW q, OnlyCalls(r, q)
  PROVE  Follows(r, q)
BY DEF OnlyCalls, Follows

(* The answer to a call, before the run ends and after.                     *)
Touched(r, seq, q) ==
  /\ OnlyCalls(r, q)
  /\ \A s \in DOMAIN r.calls :
       /\ q.calls[s].at = (IF s = seq THEN "answered" ELSE r.calls[s].at)
       /\ q.calls[s].key = r.calls[s].key
       /\ q.calls[s].abort = r.calls[s].abort \/ q.calls[s].abort = "ceiling"

LEMMA AnswerTouches ==
  ASSUME NEW r \in Runtime, NEW seq \in DOMAIN r.calls, NEW use \in Nat, NEW after,
         after = EnforceCeilings([r EXCEPT !.calls[seq] = [@ EXCEPT !.at = "answered", !.used = 0],
                                       !.settled = @ + use])
  PROVE  Touched(r, seq, after)
<1>. DEFINE c == [r.calls[seq] EXCEPT !.at = "answered", !.used = 0]
            n == r.settled + use
            b == [r EXCEPT !.calls[seq] = c, !.settled = n]
            q == EnforceCeilings(b)
<1>1. after = q
  OBVIOUS
<1>2. r.calls[seq] \in Call
  BY RuntimeFields
<1>3. c \in Call /\ c.at = "answered" /\ c.key = r.calls[seq].key /\ c.abort = r.calls[seq].abort
  <2>. HIDE DEF n, b, q
  <2>. QED
    BY <1>2, CallIsOver
<1>4. n \in Nat
  BY DEF Runtime
<1>. HIDE DEF c, n, q
<1>5. OnlyCalls(r, b) /\ \A s \in DOMAIN r.calls : b.calls[s] = IF s = seq THEN c ELSE r.calls[s]
  <2>. DEFINE a == [r EXCEPT !.calls[seq] = c]
  <2>1. b = [a EXCEPT !.settled = n]
    OBVIOUS
  <2>2. OnlyCalls(r, a) /\ \A s \in DOMAIN r.calls : a.calls[s] = IF s = seq THEN c ELSE r.calls[s]
    BY <1>3, OneCallTouch
  <2>. HIDE DEF a, b
  <2>3. OnlyCalls(a, b) /\ b.calls = a.calls
    <3>1. a \in Runtime
      BY <2>2 DEF OnlyCalls
    <3>. QED
      BY ONLY <2>1, <3>1, <1>4 DEF OnlyCalls, Runtime
  <2>. QED
    BY <2>2, <2>3 DEF OnlyCalls
<1>. HIDE DEF b
<1>6. /\ OnlyCalls(b, q)
      /\ \A s \in DOMAIN b.calls :
           /\ q.calls[s].at = b.calls[s].at /\ q.calls[s].key = b.calls[s].key
           /\ q.calls[s].abort = b.calls[s].abort \/ q.calls[s].abort = "ceiling"
  <2>1. b \in Runtime
    BY <1>5 DEF OnlyCalls
  <2>. QED
    BY <2>1, EnforcingTouches DEF q
<1>7. OnlyCalls(r, q)
  BY <1>5, <1>6 DEF OnlyCalls
<1>8. \A s \in DOMAIN r.calls :
        /\ q.calls[s].at = (IF s = seq THEN "answered" ELSE r.calls[s].at)
        /\ q.calls[s].key = r.calls[s].key
        /\ q.calls[s].abort = r.calls[s].abort \/ q.calls[s].abort = "ceiling"
  BY <1>3, <1>5, <1>6 DEF OnlyCalls
<1>. QED
  BY <1>1, <1>7, <1>8 DEF Touched

\* From r to q the call got its answer, and nothing else happened to the others.
Took(r, seq, q) ==
  /\ Sound(q) /\ Follows(r, q) /\ q.idles > 0 /\ q.inbox # <<>>
  /\ \A s \in DOMAIN r.calls : q.calls[s].at = IF s = seq THEN "answered" ELSE r.calls[s].at

LEMMA AnswerSound ==
  ASSUME version \in Versions, NEW r, Sound(r), NEW seq \in DOMAIN r.calls,
         r.calls[seq].at # "answered",
         NEW how \in {"ok", "error", "cut"}, NEW value \in Values \cup {Null}, NEW use \in Nat
  PROVE  Took(r, seq, Answer(r, seq, how, value, use))
<1>. DEFINE b == EnforceCeilings([r EXCEPT !.calls[seq] = [@ EXCEPT !.at = "answered", !.used = 0],
                                           !.settled = @ + use])
            q == Answer(r, seq, how, value, use)
<1>1. r \in Runtime /\ Recorded(r) /\ Heard(r) /\ ~Ending(r) /\ Len(r.calls) <= MaxCalls
  BY DEF Sound
<1>2. Touched(r, seq, b)
  BY ONLY <1>1, AnswerTouches, seq \in DOMAIN r.calls, use \in Nat
<1>3. q = IF Ending(b) THEN b ELSE Replies(b, seq, how, value, use)
  BY DEF Answer
<1>. HIDE DEF b, q
<1>4. /\ b \in Runtime /\ b.journal = r.journal /\ b.sent = r.sent
      /\ DOMAIN b.calls = DOMAIN r.calls /\ Len(b.calls) = Len(r.calls)
  BY <1>2 DEF OnlyCalls, Touched
<1>5. Answered(b) = Answered(r) \cup {seq} /\ seq \notin Answered(r)
  BY <1>2, <1>4 DEF Answered, Touched
<1>6. Sound(b)
  <2>1. \A s \in DOMAIN r.calls : Unstopped(b.calls[s])
    BY <1>1, <1>2 DEF Heard, Unstopped, Touched
  <2>. QED
    BY <1>2, <1>5, <2>1, TouchSound DEF Touched
<1>7. /\ Numbers(b.journal, "done") \subseteq Answered(b) \ {seq}
      /\ WellNumbered(b.journal) /\ Numbers(b.journal, "issue") = DOMAIN b.calls
  BY <1>1, <1>4, <1>5 DEF Recorded
<1>8. Len(b.sent) + 1 <= Cardinality(Answered(b))
  <2>1. Cardinality(Answered(b)) = Cardinality(Answered(r)) + 1
    BY <1>1, <1>5, AnsweredFinite, FS_AddElement
  <2>2. Len(r.sent) \in Nat /\ Cardinality(Answered(r)) \in Nat
    BY <1>1, AnsweredFinite, RuntimeFields
  <2>3. Len(r.sent) <= Cardinality(Answered(r))
    BY <1>1 DEF Recorded
  <2>. QED
    BY <1>4, <2>1, <2>2, <2>3
<1>9. q = Replies(b, seq, how, value, use) /\ ~Ending(b) /\ Heard(b) /\ Len(b.calls) <= MaxCalls
  BY <1>3, <1>6 DEF Sound
<1>10. Replied(b, q)
  <2>1. seq \in Answered(b)
    BY <1>5
  <2>2. Replied(b, Replies(b, seq, how, value, use))
    BY ONLY version \in Versions, <1>4, <1>7, <1>8, <1>9, <2>1, RepliesSound,
            how \in {"ok", "error", "cut"}, value \in Values \cup {Null}, use \in Nat
  <2>. QED
    BY <1>9, <2>2
<1>11. Follows(r, q)
  BY <1>2, <1>10 DEF OnlyCalls, Follows, Touched, Replied
<1>. QED
  BY <1>2, <1>10, <1>11 DEF q, Took, Touched, OnlyCalls, Replied

LEMMA AnswerEnding ==
  ASSUME NEW r \in Runtime, Recorded(r), Ending(r), NEW seq \in DOMAIN r.calls, NEW use \in Nat,
         NEW how, NEW value
  PROVE  LET q == Answer(r, seq, how, value, use)
         IN /\ OnlyCalls(r, q) /\ Recorded(q)
            /\ \A s \in DOMAIN r.calls :
                 q.calls[s].at = IF s = seq THEN "answered" ELSE r.calls[s].at
<1>. DEFINE b == EnforceCeilings([r EXCEPT !.calls[seq] = [@ EXCEPT !.at = "answered", !.used = 0],
                                           !.settled = @ + use])
            q == Answer(r, seq, how, value, use)
<1>1. Touched(r, seq, b)
  BY ONLY AnswerTouches, r \in Runtime, seq \in DOMAIN r.calls, use \in Nat
<1>2. q = IF Ending(b) THEN b ELSE Replies(b, seq, how, value, use)
  BY DEF Answer
<1>. HIDE DEF b, q
<1>3. Ending(b)
  BY <1>1 DEF Touched, OnlyCalls, Ending, Finished
<1>4. Answered(r) \subseteq Answered(b)
  BY <1>1 DEF Touched, OnlyCalls, Answered
<1>5. Recorded(b)
  BY <1>1, <1>4, TouchRecorded DEF Touched
<1>. QED
  BY <1>1, <1>2, <1>3, <1>5 DEF q, Touched

(* A refusal at a time.                                                     *)
Refusing(r, seqs, q) ==
  /\ q[0] = r /\ RefuseAll(r, seqs) = q[Len(seqs)]
  /\ \A i \in 1 .. Len(seqs) : q[i] = Refuse(q[i - 1], seqs[i])

LEMMA RefuseAllUnfolds ==
  ASSUME NEW r, NEW seqs, Len(seqs) \in Nat
  PROVE  \E q : Refusing(r, seqs, q)
<1>. DEFINE n == Len(seqs)
            More(f, i) == IF i = 0 THEN r ELSE Refuse(f[i - 1], seqs[i])
            Is(f, k) == f = [i \in 0 .. k |-> More(f, i)]
            T == {k \in 0 .. n : \E f : Is(f, k)}
            q == CHOOSE f : Is(f, n)
<1>1. RefuseAll(r, seqs) = q[n]
  BY DEF RefuseAll
<1>2. n \in Nat
  OBVIOUS
<1>. HIDE DEF n
<1>3. 0 \in T
  <2>. DEFINE g == [i \in 0 .. 0 |-> r]
  <2>1. \A i \in 0 .. 0 : More(g, i) = r
    OBVIOUS
  <2>2. Is(g, 0)
    <3>. HIDE DEF More
    <3>. QED
      BY <2>1
  <2>. HIDE DEF g, Is
  <2>. QED
    BY <1>2, <2>2
<1>4. ASSUME NEW k \in 0 .. n - 1, k \in T PROVE k + 1 \in T
  <2>1. PICK f : Is(f, k)
    BY <1>4
  <2>2. \A i \in 0 .. k : f[i] = More(f, i)
    <3>. HIDE DEF More
    <3>. QED
      BY <2>1
  <2>. DEFINE g == [i \in 0 .. k + 1 |-> IF i <= k THEN f[i] ELSE More(f, i)]
  <2>3. ASSUME NEW i \in 0 .. k + 1 PROVE g[i] = More(f, i)
    <3>. HIDE DEF More
    <3>. QED
      BY <1>2, <2>2
  <2>4. ASSUME NEW i \in 0 .. k + 1 PROVE More(g, i) = More(f, i)
    <3>1. CASE i = 0
      BY <3>1
    <3>2. CASE i # 0
      <4>1. i - 1 \in 0 .. k /\ g[i - 1] = f[i - 1]
        <5>. HIDE DEF More
        <5>. QED
          BY <1>2, <3>2
      <4>. HIDE DEF g
      <4>. QED
        BY <3>2, <4>1
    <3>. QED
      BY <3>1, <3>2
  <2>5. Is(g, k + 1)
    <3>. HIDE DEF More
    <3>. QED
      BY <2>3, <2>4
  <2>. HIDE DEF g, Is
  <2>. QED
    BY <1>2, <2>5
<1>5. Is(q, n)
  <2>1. n \in T
    <3>. HIDE DEF T
    <3>1. \A k \in 0 .. n : k \in T
      BY <1>2, <1>3, <1>4, UpTo
    <3>. QED
      BY <1>2, <3>1
  <2>. HIDE DEF Is
  <2>. QED
    BY <2>1
<1>. HIDE DEF q, T
<1>6. \A i \in 0 .. n : q[i] = More(q, i)
  <2>. HIDE DEF More
  <2>. QED
    BY <1>5
<1>. HIDE DEF Is
<1>7. q[0] = r /\ \A i \in 1 .. n : q[i] = Refuse(q[i - 1], seqs[i])
  BY <1>2, <1>6
<1>8. Refusing(r, seqs, q)
  BY <1>1, <1>7 DEF n, Refusing
<1>. QED
  BY <1>8

(* An abandoned answer at a time.                                           *)
LEMMA AbandonAllUnfolds ==
  ASSUME NEW r, NEW dones, Len(dones) \in Nat
  PROVE  \E q : /\ q[0] = r /\ AbandonAll(r, dones) = q[Len(dones)]
                /\ \A i \in 1 .. Len(dones) : q[i] = Abandon(q[i - 1], dones[i].usage)
<1>. DEFINE n == Len(dones)
            More(f, i) == IF i = 0 THEN r ELSE Abandon(f[i - 1], dones[i].usage)
            Is(f, k) == f = [i \in 0 .. k |-> More(f, i)]
            T == {k \in 0 .. n : \E f : Is(f, k)}
            q == CHOOSE f : Is(f, n)
<1>1. AbandonAll(r, dones) = q[n]
  BY DEF AbandonAll
<1>2. n \in Nat
  OBVIOUS
<1>. HIDE DEF n
<1>3. 0 \in T
  <2>. DEFINE g == [i \in 0 .. 0 |-> r]
  <2>1. \A i \in 0 .. 0 : More(g, i) = r
    OBVIOUS
  <2>2. Is(g, 0)
    <3>. HIDE DEF More
    <3>. QED
      BY <2>1
  <2>. HIDE DEF g, Is
  <2>. QED
    BY <1>2, <2>2
<1>4. ASSUME NEW k \in 0 .. n - 1, k \in T PROVE k + 1 \in T
  <2>1. PICK f : Is(f, k)
    BY <1>4
  <2>2. \A i \in 0 .. k : f[i] = More(f, i)
    <3>. HIDE DEF More
    <3>. QED
      BY <2>1
  <2>. DEFINE g == [i \in 0 .. k + 1 |-> IF i <= k THEN f[i] ELSE More(f, i)]
  <2>3. ASSUME NEW i \in 0 .. k + 1 PROVE g[i] = More(f, i)
    <3>. HIDE DEF More
    <3>. QED
      BY <1>2, <2>2
  <2>4. ASSUME NEW i \in 0 .. k + 1 PROVE More(g, i) = More(f, i)
    <3>1. CASE i = 0
      BY <3>1
    <3>2. CASE i # 0
      <4>1. i - 1 \in 0 .. k /\ g[i - 1] = f[i - 1]
        <5>. HIDE DEF More
        <5>. QED
          BY <1>2, <3>2
      <4>. HIDE DEF g
      <4>. QED
        BY <3>2, <4>1
    <3>. QED
      BY <3>1, <3>2
  <2>5. Is(g, k + 1)
    <3>. HIDE DEF More
    <3>. QED
      BY <2>3, <2>4
  <2>. HIDE DEF g, Is
  <2>. QED
    BY <1>2, <2>5
<1>5. Is(q, n)
  <2>1. n \in T
    <3>. HIDE DEF T
    <3>1. \A k \in 0 .. n : k \in T
      BY <1>2, <1>3, <1>4, UpTo
    <3>. QED
      BY <1>2, <3>1
  <2>. HIDE DEF Is
  <2>. QED
    BY <2>1
<1>. HIDE DEF q, T
<1>6. \A i \in 0 .. n : q[i] = More(q, i)
  <2>. HIDE DEF More
  <2>. QED
    BY <1>5
<1>. HIDE DEF Is
<1>7. q[0] = r /\ \A i \in 1 .. n : q[i] = Abandon(q[i - 1], dones[i].usage)
  BY <1>2, <1>6
<1>. QED
  BY <1>1, <1>7 DEF n

(* A leftover at a time.                                                    *)
LEMMA DeliverLeftoversUnfolds ==
  ASSUME NEW r, NEW seqs, Len(seqs) \in Nat
  PROVE  \E q : /\ q[0] = r /\ DeliverLeftovers(r, seqs) = q[Len(seqs)]
                /\ \A i \in 1 .. Len(seqs) : q[i] = Delivers(q[i - 1], seqs[i])
<1>. DEFINE n == Len(seqs)
            More(f, i) == IF i = 0 THEN r ELSE Delivers(f[i - 1], seqs[i])
            Is(f, k) == f = [i \in 0 .. k |-> More(f, i)]
            T == {k \in 0 .. n : \E f : Is(f, k)}
            q == CHOOSE f : Is(f, n)
<1>1. DeliverLeftovers(r, seqs) = q[n]
  BY DEF DeliverLeftovers
<1>2. n \in Nat
  OBVIOUS
<1>. HIDE DEF n
<1>3. 0 \in T
  <2>. DEFINE g == [i \in 0 .. 0 |-> r]
  <2>1. \A i \in 0 .. 0 : More(g, i) = r
    OBVIOUS
  <2>2. Is(g, 0)
    <3>. HIDE DEF More
    <3>. QED
      BY <2>1
  <2>. HIDE DEF g, Is
  <2>. QED
    BY <1>2, <2>2
<1>4. ASSUME NEW k \in 0 .. n - 1, k \in T PROVE k + 1 \in T
  <2>1. PICK f : Is(f, k)
    BY <1>4
  <2>2. \A i \in 0 .. k : f[i] = More(f, i)
    <3>. HIDE DEF More
    <3>. QED
      BY <2>1
  <2>. DEFINE g == [i \in 0 .. k + 1 |-> IF i <= k THEN f[i] ELSE More(f, i)]
  <2>3. ASSUME NEW i \in 0 .. k + 1 PROVE g[i] = More(f, i)
    <3>. HIDE DEF More
    <3>. QED
      BY <1>2, <2>2
  <2>4. ASSUME NEW i \in 0 .. k + 1 PROVE More(g, i) = More(f, i)
    <3>1. CASE i = 0
      BY <3>1
    <3>2. CASE i # 0
      <4>1. i - 1 \in 0 .. k /\ g[i - 1] = f[i - 1]
        <5>. HIDE DEF More
        <5>. QED
          BY <1>2, <3>2
      <4>. HIDE DEF g
      <4>. QED
        BY <3>2, <4>1
    <3>. QED
      BY <3>1, <3>2
  <2>5. Is(g, k + 1)
    <3>. HIDE DEF More
    <3>. QED
      BY <2>3, <2>4
  <2>. HIDE DEF g, Is
  <2>. QED
    BY <1>2, <2>5
<1>5. Is(q, n)
  <2>1. n \in T
    <3>. HIDE DEF T
    <3>1. \A k \in 0 .. n : k \in T
      BY <1>2, <1>3, <1>4, UpTo
    <3>. QED
      BY <1>2, <3>1
  <2>. HIDE DEF Is
  <2>. QED
    BY <2>1
<1>. HIDE DEF q, T
<1>6. \A i \in 0 .. n : q[i] = More(q, i)
  <2>. HIDE DEF More
  <2>. QED
    BY <1>5
<1>. HIDE DEF Is
<1>7. q[0] = r /\ \A i \in 1 .. n : q[i] = Delivers(q[i - 1], seqs[i])
  BY <1>2, <1>6
<1>. QED
  BY <1>1, <1>7 DEF n

(* An answer of the record at a time.                                       *)
LEMMA DeliverAllUnfolds ==
  ASSUME NEW r, Len(stream) \in Nat
  PROVE  \E q : /\ q[0] = r /\ DeliverAll(r) = q[Len(stream)]
                /\ \A i \in 1 .. Len(stream) : q[i] = DeliverNext(q[i - 1])
<1>. DEFINE n == Len(stream)
            More(f, i) == IF i = 0 THEN r ELSE DeliverNext(f[i - 1])
            Is(f, k) == f = [i \in 0 .. k |-> More(f, i)]
            T == {k \in 0 .. n : \E f : Is(f, k)}
            q == CHOOSE f : Is(f, n)
<1>1. DeliverAll(r) = q[n]
  BY DEF DeliverAll
<1>2. n \in Nat
  OBVIOUS
<1>. HIDE DEF n
<1>3. 0 \in T
  <2>. DEFINE g == [i \in 0 .. 0 |-> r]
  <2>1. \A i \in 0 .. 0 : More(g, i) = r
    OBVIOUS
  <2>2. Is(g, 0)
    <3>. HIDE DEF More
    <3>. QED
      BY <2>1
  <2>. HIDE DEF g, Is
  <2>. QED
    BY <1>2, <2>2
<1>4. ASSUME NEW k \in 0 .. n - 1, k \in T PROVE k + 1 \in T
  <2>1. PICK f : Is(f, k)
    BY <1>4
  <2>2. \A i \in 0 .. k : f[i] = More(f, i)
    <3>. HIDE DEF More
    <3>. QED
      BY <2>1
  <2>. DEFINE g == [i \in 0 .. k + 1 |-> IF i <= k THEN f[i] ELSE More(f, i)]
  <2>3. ASSUME NEW i \in 0 .. k + 1 PROVE g[i] = More(f, i)
    <3>. HIDE DEF More
    <3>. QED
      BY <1>2, <2>2
  <2>4. ASSUME NEW i \in 0 .. k + 1 PROVE More(g, i) = More(f, i)
    <3>1. CASE i = 0
      BY <3>1
    <3>2. CASE i # 0
      <4>1. i - 1 \in 0 .. k /\ g[i - 1] = f[i - 1]
        <5>. HIDE DEF More
        <5>. QED
          BY <1>2, <3>2
      <4>. HIDE DEF g
      <4>. QED
        BY <3>2, <4>1
    <3>. QED
      BY <3>1, <3>2
  <2>5. Is(g, k + 1)
    <3>. HIDE DEF More
    <3>. QED
      BY <2>3, <2>4
  <2>. HIDE DEF g, Is
  <2>. QED
    BY <1>2, <2>5
<1>5. Is(q, n)
  <2>1. n \in T
    <3>. HIDE DEF T
    <3>1. \A k \in 0 .. n : k \in T
      BY <1>2, <1>3, <1>4, UpTo
    <3>. QED
      BY <1>2, <3>1
  <2>. HIDE DEF Is
  <2>. QED
    BY <2>1
<1>. HIDE DEF q, T
<1>6. \A i \in 0 .. n : q[i] = More(q, i)
  <2>. HIDE DEF More
  <2>. QED
    BY <1>5
<1>. HIDE DEF Is
<1>7. q[0] = r /\ \A i \in 1 .. n : q[i] = DeliverNext(q[i - 1])
  BY <1>2, <1>6
<1>. QED
  BY <1>1, <1>7 DEF n

-----------------------------------------------------------------------------
(* Waiting calls *)

LEMMA QueuedCalls ==
  ASSUME NEW r \in Runtime
  PROVE  LET next == Queued(r)
         IN /\ Len(next) \in Nat /\ DOMAIN next = 1 .. Len(next)
            /\ next # <<>> => 1 \in DOMAIN next
            /\ \A i \in DOMAIN next : next[i] \in DOMAIN r.calls /\ r.calls[next[i]].at = "queued"
            /\ \A i, j \in DOMAIN next : next[i] = next[j] => i = j
            /\ \A s \in DOMAIN r.calls : r.calls[s].at = "queued" => \E i \in DOMAIN next : next[i] = s
<1>. DEFINE S == {s \in DOMAIN r.calls : r.calls[s].at = "queued"}
            next == Queued(r)
<1>1. DOMAIN r.calls = 1 .. Len(r.calls) /\ Len(r.calls) \in Nat
  BY RuntimeFields
<1>2. Ascends(next, S, Len(r.calls))
  BY <1>1, AscendingAscends DEF Queued
<1>3. S = S \cap (1 .. Len(r.calls)) /\ S \subseteq Nat
  BY <1>1
<1>. HIDE DEF next
<1>4. /\ next \in Seq(S)
      /\ \A i, j \in DOMAIN next : i < j => next[i] < next[j]
      /\ \A x \in S : \E i \in DOMAIN next : next[i] = x
  <2>. HIDE DEF S
  <2>. QED
    BY <1>2, <1>3 DEF Ascends
<1>5. /\ Len(next) \in Nat /\ DOMAIN next = 1 .. Len(next)
      /\ next # <<>> => 1 \in DOMAIN next
      /\ \A i \in DOMAIN next : next[i] \in S /\ i \in Nat
  <2>. HIDE DEF S
  <2>. QED
    BY <1>4
<1>6. \A i, j \in DOMAIN next : next[i] = next[j] => i = j
  <2>1. \A i, j \in DOMAIN next : i < j \/ j < i \/ i = j
    BY <1>5
  <2>2. \A i \in DOMAIN next : next[i] \in Nat
    BY <1>3, <1>5
  <2>. QED
    BY <1>4, <2>1, <2>2
<1>7. \A i \in DOMAIN next : next[i] \in DOMAIN r.calls /\ r.calls[next[i]].at = "queued"
  BY <1>5
<1>8. \A s \in DOMAIN r.calls : r.calls[s].at = "queued" => \E i \in DOMAIN next : next[i] = s
  BY <1>4
<1>. QED
  BY <1>5, <1>6, <1>7, <1>8 DEF next

LEMMA RefuseSound ==
  ASSUME version \in Versions, NEW r, Sound(r), NEW seq \in DOMAIN r.calls,
         r.calls[seq].at # "answered"
  PROVE  Took(r, seq, Refuse(r, seq))
<1>1. "error" \in {"ok", "error", "cut"} /\ Null \in Values \cup {Null} /\ 0 \in Nat
  OBVIOUS
<1>. QED
  BY ONLY <1>1, version \in Versions, Sound(r), seq \in DOMAIN r.calls,
          r.calls[seq].at # "answered", AnswerSound DEF Refuse

LEMMA RefuseAllSound ==
  ASSUME version \in Versions, NEW r, Sound(r)
  PROVE  LET q == RefuseAll(r, Queued(r))
         IN /\ Sound(q) /\ Follows(r, q)
            /\ \A s \in DOMAIN r.calls :
                 q.calls[s].at = IF r.calls[s].at = "queued" THEN "answered" ELSE r.calls[s].at
<1>. DEFINE next == Queued(r)
            Before(i, s) == \E j \in 1 .. i : next[j] = s
<1>1. r \in Runtime
  BY DEF Sound
<1>2. /\ Len(next) \in Nat /\ DOMAIN next = 1 .. Len(next)
      /\ next # <<>> => 1 \in DOMAIN next
      /\ \A i \in DOMAIN next : next[i] \in DOMAIN r.calls /\ r.calls[next[i]].at = "queued"
      /\ \A i, j \in DOMAIN next : next[i] = next[j] => i = j
      /\ \A s \in DOMAIN r.calls : r.calls[s].at = "queued" => \E i \in DOMAIN next : next[i] = s
  BY <1>1, QueuedCalls
<1>. HIDE DEF next
<1>3. \E q : Refusing(r, next, q)
  BY ONLY <1>2, RefuseAllUnfolds
<1>4. PICK q : Refusing(r, next, q)
  BY <1>3
<1>5. /\ q[0] = r /\ RefuseAll(r, next) = q[Len(next)]
      /\ \A i \in 1 .. Len(next) : q[i] = Refuse(q[i - 1], next[i])
  BY <1>4 DEF Refusing
<1>. DEFINE Good(i) == /\ Sound(q[i]) /\ Follows(r, q[i])
                       /\ \A s \in DOMAIN r.calls :
                            q[i].calls[s].at = IF Before(i, s) THEN "answered" ELSE r.calls[s].at
            T == {i \in 0 .. Len(next) : Good(i)}
<1>6. 0 \in T
  <2>1. Follows(r, r) /\ \A s \in DOMAIN r.calls : ~Before(0, s)
    BY DEF Follows
  <2>2. Good(0)
    <3>. HIDE DEF Before
    <3>. QED
      BY <1>5, <2>1
  <2>. QED
    BY <1>2, <2>2
<1>7. ASSUME NEW k \in 0 .. Len(next) - 1, k \in T PROVE k + 1 \in T
  <2>1. k + 1 \in DOMAIN next /\ (k + 1) - 1 = k /\ k \in Nat /\ k + 1 \in 0 .. Len(next)
    BY <1>2
  <2>2. q[k + 1] = Refuse(q[k], next[k + 1])
    BY <1>2, <1>5, <2>1
  <2>3. Good(k)
    BY <1>7
  <2>4. next[k + 1] \in DOMAIN r.calls /\ ~Before(k, next[k + 1]) /\ r.calls[next[k + 1]].at = "queued"
    BY <1>2, <2>1
  <2>5. next[k + 1] \in DOMAIN q[k].calls /\ q[k].calls[next[k + 1]].at # "answered"
    <3>1. DOMAIN q[k].calls = DOMAIN r.calls
      BY <2>3 DEF Follows
    <3>. HIDE DEF Before
    <3>. QED
      BY <2>3, <2>4, <3>1
  <2>6. /\ Sound(q[k + 1]) /\ Follows(q[k], q[k + 1])
        /\ \A s \in DOMAIN q[k].calls :
             q[k + 1].calls[s].at = IF s = next[k + 1] THEN "answered" ELSE q[k].calls[s].at
    <3>1. Sound(q[k])
      BY <2>3
    <3>. HIDE DEF Good, T, Before
    <3>. QED
      BY <2>2, <2>5, <3>1, RefuseSound DEF Took
  <2>7. Follows(r, q[k + 1])
    BY <2>3, <2>6, FollowsOn
  <2>8. \A s \in DOMAIN r.calls : Before(k + 1, s) <=> Before(k, s) \/ s = next[k + 1]
    <3>1. \A j : j \in 1 .. k + 1 <=> j \in 1 .. k \/ j = k + 1
      BY <2>1
    <3>. QED
      BY <3>1
  <2>9. \A s \in DOMAIN r.calls :
          q[k + 1].calls[s].at = IF Before(k + 1, s) THEN "answered" ELSE r.calls[s].at
    <3>1. DOMAIN q[k].calls = DOMAIN r.calls
      BY <2>3 DEF Follows
    <3>. HIDE DEF Before
    <3>. QED
      BY <2>3, <2>6, <2>8, <3>1
  <2>. HIDE DEF Before
  <2>. QED
    BY <2>1, <2>6, <2>7, <2>9
<1>8. Len(next) \in T
  <2>. HIDE DEF T
  <2>1. \A k \in 0 .. Len(next) : k \in T
    BY <1>2, <1>6, <1>7, UpTo
  <2>. QED
    BY <1>2, <2>1
<1>9. \A s \in DOMAIN r.calls : Before(Len(next), s) <=> r.calls[s].at = "queued"
  BY <1>2
<1>10. Good(Len(next))
  BY <1>8
<1>11. RefuseAll(r, Queued(r)) = q[Len(next)]
  BY <1>5 DEF next
<1>. HIDE DEF Before
<1>. QED
  BY <1>9, <1>10, <1>11

\* Nobody waits for nothing.
Lively(r) == Executing(r) # {} \/ \A s \in DOMAIN r.calls : r.calls[s].at # "queued"

\* Calls only get on: from the queue to an agent or to an answer.
GetsOn(c, d) == d.at = c.at \/ (c.at = "queued" /\ d.at \in {"working", "answered"})

LEMMA ExecutingFinite ==
  ASSUME NEW r \in Runtime
  PROVE  IsFiniteSet(Executing(r)) /\ Cardinality(Executing(r)) \in Nat
<1>1. Executing(r) \subseteq 1 .. Len(r.calls) /\ Len(r.calls) \in Nat
  BY RuntimeFields DEF Executing
<1>2. IsFiniteSet(1 .. Len(r.calls))
  BY <1>1, FS_Interval
<1>. QED
  BY <1>1, <1>2, FS_Subset, FS_CardinalityType

LEMMA PumpLiveSound ==
  ASSUME version \in Versions, NEW r, Sound(r)
  PROVE  LET q == PumpLive(r)
         IN /\ Sound(q) /\ Follows(r, q) /\ Lively(q)
            /\ \A s \in DOMAIN r.calls : GetsOn(r.calls[s], q.calls[s])
<1>. DEFINE free == Concurrency - Cardinality(Executing(r))
            next == Queued(r)
            d == [s \in DOMAIN r.calls |->
                   IF \E i \in DOMAIN next : next[i] = s /\ i <= free
                   THEN [r.calls[s] EXCEPT !.at = "working"] ELSE r.calls[s]]
            q == PumpLive(r)
<1>1. r \in Runtime /\ ~Ending(r) /\ Heard(r) /\ Recorded(r)
  BY DEF Sound
<1>2. Concurrency \in Nat \ {0} /\ Cardinality(Executing(r)) \in Nat
  BY <1>1, ExecutingFinite, RunAssumption
<1>3. q = IF free <= 0 THEN r ELSE IF AtCeiling(r) THEN RefuseAll(r, Queued(r))
          ELSE [r EXCEPT !.calls = d]
  BY <1>1 DEF PumpLive
<1>4. CASE free <= 0
  <2>1. Executing(r) # {}
    <3>1. Cardinality(Executing(r)) > 0
      BY <1>2, <1>4
    <3>. QED
      BY <3>1, FS_EmptySet
  <2>. HIDE DEF free, d, next
  <2>2. q = r
    BY <1>3, <1>4
  <2>. HIDE DEF q
  <2>3. Sound(q) /\ Follows(r, q) /\ Lively(q)
    BY <2>1, <2>2 DEF Follows, Lively
  <2>. QED
    BY <2>2, <2>3 DEF GetsOn, q
<1>5. CASE ~(free <= 0) /\ AtCeiling(r)
  <2>. HIDE DEF free, d, next
  <2>1. q = RefuseAll(r, Queued(r))
    BY <1>3, <1>5
  <2>. HIDE DEF q
  <2>2. /\ Sound(q) /\ Follows(r, q)
        /\ \A s \in DOMAIN r.calls :
             q.calls[s].at = IF r.calls[s].at = "queued" THEN "answered" ELSE r.calls[s].at
    BY <2>1, RefuseAllSound
  <2>3. Lively(q)
    BY <2>2 DEF Follows, Lively
  <2>. QED
    BY <2>2, <2>3 DEF GetsOn, q
<1>6. CASE ~(free <= 0) /\ ~AtCeiling(r)
  <2>1. q = [r EXCEPT !.calls = d]
    <3>. HIDE DEF free, d, next
    <3>. QED
      BY <1>3, <1>6
  <2>2. /\ Len(next) \in Nat /\ DOMAIN next = 1 .. Len(next)
        /\ next # <<>> => 1 \in DOMAIN next
        /\ \A i \in DOMAIN next : next[i] \in DOMAIN r.calls /\ r.calls[next[i]].at = "queued"
        /\ \A s \in DOMAIN r.calls : r.calls[s].at = "queued" => \E i \in DOMAIN next : next[i] = s
    BY <1>1, QueuedCalls
  <2>3. 1 <= free
    BY <1>2, <1>6
  <2>. HIDE DEF next, free
  <2>4. ASSUME NEW s \in DOMAIN r.calls
        PROVE  /\ d[s] \in Call /\ Unstopped(d[s]) /\ GetsOn(r.calls[s], d[s])
               /\ r.calls[s].at = "answered" => d[s].at = "answered"
    <3>1. r.calls[s] \in Call /\ Unstopped(r.calls[s])
      BY <1>1, RuntimeFields DEF Heard, Unstopped
    <3>2. CASE \E i \in DOMAIN next : next[i] = s /\ i <= free
      <4>1. d[s] = [r.calls[s] EXCEPT !.at = "working"] /\ r.calls[s].at = "queued"
        BY <2>2, <3>2
      <4>. HIDE DEF d
      <4>2. d[s] \in Call /\ d[s].at = "working" /\ d[s].abort = r.calls[s].abort
        BY <3>1, <4>1 DEF Call, Execution
      <4>. QED
        BY <3>1, <4>1, <4>2 DEF Unstopped, GetsOn
    <3>3. CASE ~\E i \in DOMAIN next : next[i] = s /\ i <= free
      <4>1. d[s] = r.calls[s]
        BY <3>3
      <4>. HIDE DEF d
      <4>. QED
        BY <3>1, <4>1 DEF GetsOn
    <3>. QED
      BY <3>2, <3>3
  <2>5. next # <<>> => next[1] \in DOMAIN r.calls /\ d[next[1]].at = "working"
    <3>1. SUFFICES ASSUME next # <<>>
                   PROVE  next[1] \in DOMAIN r.calls /\ d[next[1]].at = "working"
      OBVIOUS
    <3>2. 1 \in DOMAIN next
      BY <2>2, <3>1
    <3>3. next[1] \in DOMAIN r.calls /\ r.calls[next[1]] \in Call
      BY <1>1, <2>2, <3>2, RuntimeFields
    <3>4. d[next[1]] = [r.calls[next[1]] EXCEPT !.at = "working"]
      BY <2>3, <3>2, <3>3
    <3>. HIDE DEF d
    <3>. QED
      BY <3>3, <3>4 DEF Call
  <2>6. d = [s \in DOMAIN r.calls |-> d[s]]
    OBVIOUS
  <2>. HIDE DEF d, q
  <2>7. d \in Seq(Call) /\ DOMAIN d = DOMAIN r.calls /\ Len(d) = Len(r.calls)
    BY <1>1, <2>4, <2>6, RuntimeFields, MappedCalls
  <2>8. OnlyCalls(r, q) /\ q.calls = d
    BY <1>1, <2>1, <2>7, RuntimeCalls DEF OnlyCalls
  <2>9. Answered(r) \subseteq Answered(q)
    BY <2>4, <2>7, <2>8 DEF Answered
  <2>10. Sound(q)
    BY <2>4, <2>8, <2>9, TouchSound
  <2>11. Lively(q)
    <3>1. CASE next = <<>>
      <4>1. \A s \in DOMAIN r.calls : r.calls[s].at # "queued"
        BY <2>2, <3>1
      <4>. QED
        BY <2>4, <2>7, <2>8, <4>1 DEF Lively, GetsOn
    <3>2. CASE next # <<>>
      BY <2>5, <2>7, <2>8, <3>2 DEF Lively, Executing, Execution
    <3>. QED
      BY <3>1, <3>2
  <2>. QED
    BY <2>4, <2>8, <2>10, <2>11, TouchFollows DEF q
<1>. QED
  BY <1>4, <1>5, <1>6

(* A call that is made now: it waits for a place or is refused.             *)
LEMMA DispatchLiveSound ==
  ASSUME version \in Versions, NEW r, Sound(r), Lively(r), NEW seq \in DOMAIN r.calls,
         r.calls[seq].at = "cached", NEW q, q = DispatchLive(r, seq)
  PROVE  /\ Sound(q) /\ Follows(r, q) /\ Lively(q)
         /\ q.calls[seq].at \in {"queued", "working", "answered"}
         /\ \A s \in DOMAIN r.calls \ {seq} : GetsOn(r.calls[s], q.calls[s])
<1>1. r \in Runtime /\ ~Ending(r) /\ Heard(r)
  BY DEF Sound
<1>2. CASE AtCeiling(r)
  <2>1. q = Refuse(r, seq)
    BY <1>2 DEF DispatchLive
  <2>2. /\ Sound(q) /\ Follows(r, q)
        /\ \A s \in DOMAIN r.calls : q.calls[s].at = IF s = seq THEN "answered" ELSE r.calls[s].at
    BY <2>1, RefuseSound DEF Took
  <2>3. DOMAIN q.calls = DOMAIN r.calls
    BY <2>2 DEF Follows
  <2>4. Executing(q) = Executing(r)
    BY <2>2, <2>3 DEF Executing, Execution
  <2>5. Lively(q)
    BY <2>2, <2>3, <2>4 DEF Lively
  <2>. QED
    BY <2>2, <2>5 DEF GetsOn
<1>3. CASE ~AtCeiling(r)
  <2>. DEFINE c == [r.calls[seq] EXCEPT !.at = "queued"]
              b == [r EXCEPT !.calls[seq] = c]
  <2>1. q = PumpLive(b)
    BY <1>3 DEF DispatchLive
  <2>2. r.calls[seq] \in Call /\ Unstopped(r.calls[seq])
    BY <1>1, RuntimeFields DEF Heard, Unstopped
  <2>3. c \in Call /\ c.at = "queued" /\ Unstopped(c)
    BY <2>2 DEF Call, Unstopped
  <2>. HIDE DEF c
  <2>4. OnlyCalls(r, b) /\ \A s \in DOMAIN r.calls : b.calls[s] = IF s = seq THEN c ELSE r.calls[s]
    BY <1>1, <2>3, OneCallTouch
  <2>. HIDE DEF b
  <2>5. DOMAIN b.calls = DOMAIN r.calls
    BY <2>4 DEF OnlyCalls
  <2>6. Sound(b)
    <3>1. Answered(r) \subseteq Answered(b)
      BY <2>4, <2>5 DEF Answered
    <3>2. \A s \in DOMAIN r.calls : Unstopped(b.calls[s])
      BY <1>1, <2>3, <2>4 DEF Heard, Unstopped
    <3>. QED
      BY <2>4, <3>1, <3>2, TouchSound
  <2>7. /\ Sound(q) /\ Follows(b, q) /\ Lively(q)
        /\ \A s \in DOMAIN b.calls : GetsOn(b.calls[s], q.calls[s])
    BY <2>1, <2>6, PumpLiveSound
  <2>8. Follows(r, q)
    BY <2>4, <2>7, TouchFollows, FollowsOn
  <2>9. q.calls[seq].at \in {"queued", "working", "answered"}
    BY <2>3, <2>4, <2>5, <2>7 DEF GetsOn
  <2>10. \A s \in DOMAIN r.calls \ {seq} : GetsOn(r.calls[s], q.calls[s])
    BY <2>4, <2>5, <2>7
  <2>. QED
    BY <2>7, <2>8, <2>9, <2>10
<1>. QED
  BY <1>2, <1>3

(* What an answer that is not used has cost.                                *)
LEMMA AbandonKeeps ==
  ASSUME NEW r \in Runtime, Recorded(r), NEW use, use \in Nat, NEW q, q = Abandon(r, use)
  PROVE  /\ q \in Runtime /\ Recorded(q) /\ Follows(r, q)
         /\ q.calls = r.calls /\ q.sent = r.sent /\ q.inbox = r.inbox /\ q.idles = r.idles
         /\ q.stopping = r.stopping /\ q.outcome = r.outcome /\ q.terminated = r.terminated
<1>1. CASE use = 0
  <2>1. q = r
    BY <1>1 DEF Abandon
  <2>. QED
    BY <2>1 DEF Follows
<1>2. CASE use # 0
  <2>. DEFINE n == r.settled + use
              jrn == Append(r.journal, Abandoned(use))
  <2>1. q = [r EXCEPT !.settled = n, !.journal = jrn]
    BY <1>2 DEF Abandon
  <2>2. n \in Nat /\ use \in Nat \ {0}
    BY <1>2 DEF Runtime
  <2>3. r.journal \in Seq(Entry) /\ Abandoned(use) \in Entry /\ Abandoned(use).t = "abandoned"
    BY <2>2, RuntimeFields, EntryFields
  <2>4. /\ jrn \in Seq(Entry) /\ Numbers(jrn, "issue") = Numbers(r.journal, "issue")
        /\ Numbers(jrn, "done") = Numbers(r.journal, "done")
        /\ WellNumbered(r.journal) => WellNumbered(jrn)
        /\ Has(jrn, "live") => Has(r.journal, "live")
    BY <2>3, AppendOther
  <2>. HIDE DEF n, jrn
  <2>5. /\ q \in Runtime /\ q.journal = jrn
        /\ q.calls = r.calls /\ q.sent = r.sent /\ q.inbox = r.inbox /\ q.idles = r.idles
        /\ q.cursor = r.cursor /\ q.replaying = r.replaying
        /\ q.stopping = r.stopping /\ q.outcome = r.outcome /\ q.terminated = r.terminated
    BY ONLY r \in Runtime, <2>1, <2>2, <2>4 DEF Runtime
  <2>6. Recorded(q)
    BY <2>4, <2>5 DEF Recorded, Answered
  <2>7. Follows(r, q)
    BY <2>4, <2>5 DEF Follows
  <2>. QED
    BY <2>5, <2>6, <2>7
<1>. QED
  BY <1>1, <1>2

LEMMA AbandonSound ==
  ASSUME NEW r, Sound(r), NEW use, use \in Nat, NEW q, q = Abandon(r, use)
  PROVE  Sound(q) /\ Follows(r, q) /\ q.calls = r.calls
<1>1. r \in Runtime /\ Recorded(r) /\ Heard(r) /\ ~Ending(r) /\ Len(r.calls) <= MaxCalls
  BY DEF Sound
<1>2. /\ q \in Runtime /\ Recorded(q) /\ Follows(r, q)
      /\ q.calls = r.calls /\ q.sent = r.sent /\ q.inbox = r.inbox /\ q.idles = r.idles
      /\ q.stopping = r.stopping /\ q.outcome = r.outcome
  BY <1>1, AbandonKeeps
<1>3. Heard(q)
  BY <1>1, <1>2 DEF Heard
<1>4. ~Ending(q)
  BY <1>1, <1>2 DEF Ending, Finished
<1>. QED
  BY <1>1, <1>2, <1>3, <1>4 DEF Sound

LEMMA AbandonAllSound ==
  ASSUME NEW r, Sound(r), NEW dones, Len(dones) \in Nat,
         \A i \in 1 .. Len(dones) : dones[i].usage \in Nat,
         NEW p, p = AbandonAll(r, dones)
  PROVE  Sound(p) /\ Follows(r, p) /\ p.calls = r.calls
<1>1. PICK q : /\ q[0] = r /\ AbandonAll(r, dones) = q[Len(dones)]
               /\ \A i \in 1 .. Len(dones) : q[i] = Abandon(q[i - 1], dones[i].usage)
  BY AbandonAllUnfolds
<1>. DEFINE Good(i) == Sound(q[i]) /\ Follows(r, q[i]) /\ q[i].calls = r.calls
            T == {i \in 0 .. Len(dones) : Good(i)}
<1>2. 0 \in T
  <2>1. Follows(r, r)
    BY DEF Follows
  <2>. QED
    BY <1>1, <2>1
<1>3. ASSUME NEW k \in 0 .. Len(dones) - 1, k \in T PROVE k + 1 \in T
  <2>1. k + 1 \in 1 .. Len(dones) /\ (k + 1) - 1 = k /\ k + 1 \in 0 .. Len(dones)
    OBVIOUS
  <2>2. q[k + 1] = Abandon(q[k], dones[k + 1].usage) /\ dones[k + 1].usage \in Nat
    BY <1>1, <2>1
  <2>3. Good(k)
    BY <1>3
  <2>4. Sound(q[k + 1]) /\ Follows(q[k], q[k + 1]) /\ q[k + 1].calls = q[k].calls
    <3>1. Sound(q[k])
      BY <2>3
    <3>. HIDE DEF Good, T
    <3>. QED
      BY <2>2, <3>1, AbandonSound
  <2>5. Follows(r, q[k + 1])
    BY <2>3, <2>4, FollowsOn
  <2>. QED
    BY <2>1, <2>3, <2>4, <2>5
<1>4. Len(dones) \in T
  <2>. HIDE DEF T
  <2>1. \A k \in 0 .. Len(dones) : k \in T
    BY <1>2, <1>3, UpTo
  <2>. QED
    BY <2>1
<1>. QED
  BY <1>1, <1>4

-----------------------------------------------------------------------------
(* The replay *)

StreamOK == source \in Seq(Entry) /\ WellNumbered(source)

LEMMA StreamFacts ==
  ASSUME StreamOK
  PROVE  /\ stream \in Seq(Entry) /\ WellNumbered(stream)
         /\ Len(stream) \in Nat /\ DOMAIN stream = 1 .. Len(stream)
         /\ \A i \in DOMAIN stream : stream[i] \in Entry /\ stream[i].t \in {"issue", "done"}
         /\ stream # <<>> => source # <<>>
<1>1. /\ stream \in Seq(Entry) /\ WellNumbered(stream)
      /\ \A i \in DOMAIN stream : stream[i].t \in {"issue", "done"}
      /\ stream # <<>> => source # <<>>
  BY StreamWellNumbered DEF StreamOK, stream
<1>2. Len(stream) \in Nat /\ DOMAIN stream = 1 .. Len(stream) /\ \A i \in DOMAIN stream : stream[i] \in Entry
  BY <1>1
<1>. QED
  BY <1>1, <1>2

LEMMA DoneOfFields ==
  ASSUME StreamOK, NEW seq, HasDone(seq), NEW done, done = DoneOf(seq)
  PROVE  /\ done.t = "done" /\ done.seq = seq /\ seq \in Nat \ {0}
         /\ done.value \in Values \cup {Null} /\ done.usage \in Nat
<1>. DEFINE D == DonesOf(stream, seq)
            last(i) == \A j \in D : j <= i
            c == CHOOSE i \in D : last(i)
<1>1. PICK i \in D : TRUE
  BY DEF HasDone
<1>2. D \subseteq Places(stream, "done") /\ \A j \in D : stream[j].seq = seq /\ j \in Nat
  BY StreamFacts DEF DonesOf, Places
<1>3. \A j \in D : j = i
  BY <1>1, <1>2, StreamFacts DEF WellNumbered
<1>4. i \in D /\ last(i)
  BY <1>1, <1>2, <1>3
<1>5. c \in D
  <2>. HIDE DEF D, last
  <2>. QED
    BY <1>4
<1>6. done = stream[c]
  BY DEF DoneOf
<1>. HIDE DEF c
<1>7. done \in Entry /\ done.t = "done" /\ done.seq = seq
  BY <1>5, <1>6, StreamFacts DEF DonesOf
<1>. QED
  BY <1>7, IssueFields

(* An answer of the record.                                                 *)
LEMMA DeliverCachedSound ==
  ASSUME version \in Versions, NEW r, Sound(r), NEW done, done.seq \in DOMAIN r.calls,
         r.calls[done.seq].at = "cached",
         done.value \in Values \cup {Null}, done.usage \in Nat
  PROVE  Took(r, done.seq, DeliverCached(r, done))
<1>1. r.calls[done.seq].at # "answered" /\ "ok" \in {"ok", "error", "cut"}
  OBVIOUS
<1>. QED
  BY <1>1, AnswerSound DEF DeliverCached

\* What became of a call whose answer stands in the record.
Dealt(c, s) ==
  /\ c.at \in {"queued", "working", "answered"}
  /\ c.at \in Execution \cup {"queued"} /\ HasDone(s) => RerunsOnResume(DoneOf(s))

LEMMA DeliversSound ==
  ASSUME version \in Versions, StreamOK, NEW r, Sound(r), Lively(r), NEW seq \in DOMAIN r.calls,
         r.calls[seq].at = "cached", NEW q, q = Delivers(r, seq)
  PROVE  /\ Sound(q) /\ Follows(r, q) /\ Lively(q)
         /\ Dealt(q.calls[seq], seq)
         /\ \A s \in DOMAIN r.calls \ {seq} : GetsOn(r.calls[s], q.calls[s])
<1>. DEFINE done == DoneOf(seq)
<1>1. CASE HasDone(seq) /\ ~RerunsOnResume(done)
  <2>1. /\ done.t = "done" /\ done.seq = seq /\ seq \in Nat \ {0}
        /\ done.value \in Values \cup {Null} /\ done.usage \in Nat
    BY <1>1, DoneOfFields
  <2>2. q = DeliverCached(r, done)
    BY <1>1 DEF Delivers
  <2>. HIDE DEF done
  <2>3. /\ Sound(q) /\ Follows(r, q)
        /\ \A s \in DOMAIN r.calls : q.calls[s].at = IF s = seq THEN "answered" ELSE r.calls[s].at
    BY <2>1, <2>2, DeliverCachedSound DEF Took
  <2>4. DOMAIN q.calls = DOMAIN r.calls
    BY <2>3 DEF Follows
  <2>5. Executing(q) = Executing(r)
    BY <2>3, <2>4 DEF Executing, Execution
  <2>6. Lively(q)
    BY <2>3, <2>4, <2>5 DEF Lively
  <2>. QED
    BY <2>3, <2>6 DEF GetsOn, Dealt, Execution
<1>2. CASE ~(HasDone(seq) /\ ~RerunsOnResume(done))
  <2>. DEFINE b == IF HasDone(seq) THEN Abandon(r, done.usage) ELSE r
  <2>1. q = DispatchLive(b, seq)
    BY <1>2 DEF Delivers
  <2>2. Sound(b) /\ Follows(r, b) /\ b.calls = r.calls
    <3>1. CASE HasDone(seq)
      <4>1. b = Abandon(r, done.usage) /\ done.usage \in Nat
        BY <3>1, DoneOfFields
      <4>. QED
        BY <4>1, AbandonSound
    <3>2. CASE ~HasDone(seq)
      BY <3>2 DEF Follows
    <3>. QED
      BY <3>1, <3>2
  <2>. HIDE DEF b
  <2>3. Lively(b)
    BY <2>2 DEF Lively, Executing
  <2>4. /\ Sound(q) /\ Follows(b, q) /\ Lively(q)
        /\ q.calls[seq].at \in {"queued", "working", "answered"}
        /\ \A s \in DOMAIN b.calls \ {seq} : GetsOn(b.calls[s], q.calls[s])
    BY <2>1, <2>2, <2>3, DispatchLiveSound
  <2>5. Follows(r, q)
    BY <2>2, <2>4, FollowsOn
  <2>6. Dealt(q.calls[seq], seq)
    BY <1>2, <2>4 DEF Dealt
  <2>. QED
    BY <2>2, <2>4, <2>5, <2>6
<1>. QED
  BY <1>1, <1>2

(* A call of the record that was not delivered: later steps leave it dealt  *)
(* with.                                                                    *)
LEMMA DealtStays ==
  ASSUME NEW c, NEW d, NEW s, Dealt(c, s), GetsOn(c, d)
  PROVE  Dealt(d, s)
<1>1. CASE d.at = c.at
  BY <1>1 DEF Dealt
<1>2. CASE c.at = "queued" /\ d.at \in {"working", "answered"}
  BY <1>2 DEF Dealt
<1>. QED
  BY <1>1, <1>2 DEF GetsOn

LEMMA LeftoverCalls ==
  ASSUME NEW r \in Runtime, Matched(r) \subseteq DOMAIN r.calls
  PROVE  LET seqs == Leftovers(r)
         IN /\ Len(seqs) \in Nat
            /\ \A i \in 1 .. Len(seqs) : seqs[i] \in Matched(r) \ Delivered(r)
            /\ \A i, j \in 1 .. Len(seqs) : seqs[i] = seqs[j] => i = j
            /\ \A s \in Matched(r) \ Delivered(r) : \E i \in 1 .. Len(seqs) : seqs[i] = s
            /\ seqs = <<>> <=> Matched(r) \ Delivered(r) = {}
<1>. DEFINE L == Matched(r) \ Delivered(r)
            seqs == Leftovers(r)
<1>1. DOMAIN r.calls = 1 .. Len(r.calls) /\ Len(r.calls) \in Nat
  BY RuntimeFields
<1>2. Ascends(seqs, L, Len(r.calls))
  BY <1>1, AscendingAscends DEF Leftovers
<1>3. L = L \cap (1 .. Len(r.calls)) /\ L \subseteq Nat
  BY <1>1
<1>. HIDE DEF seqs, L
<1>4. /\ seqs \in Seq(L)
      /\ \A i, j \in DOMAIN seqs : i < j => seqs[i] < seqs[j]
      /\ \A x \in L : \E i \in DOMAIN seqs : seqs[i] = x
  BY <1>2, <1>3 DEF Ascends
<1>5. /\ Len(seqs) \in Nat /\ DOMAIN seqs = 1 .. Len(seqs)
      /\ \A i \in DOMAIN seqs : seqs[i] \in L /\ i \in Nat
      /\ seqs # <<>> => 1 \in DOMAIN seqs
      /\ seqs = <<>> => DOMAIN seqs = {}
  BY <1>4
<1>6. \A i, j \in DOMAIN seqs : seqs[i] = seqs[j] => i = j
  <2>1. \A i, j \in DOMAIN seqs : i < j \/ j < i \/ i = j
    BY <1>5
  <2>2. \A i \in DOMAIN seqs : seqs[i] \in Nat
    BY <1>3, <1>5
  <2>. QED
    BY <1>4, <2>1, <2>2
<1>7. seqs = <<>> <=> L = {}
  <2>1. seqs = <<>> => L = {}
    BY <1>4, <1>5
  <2>2. seqs # <<>> => L # {}
    BY <1>5
  <2>. QED
    BY <2>1, <2>2
<1>. QED
  BY <1>4, <1>5, <1>6, <1>7 DEF seqs, L

LEMMA DeliverLeftoversSound ==
  ASSUME version \in Versions, StreamOK, NEW r, Sound(r), Lively(r),
         NEW L, L \subseteq DOMAIN r.calls, \A s \in L : r.calls[s].at = "cached",
         NEW seqs, Len(seqs) \in Nat, \A i \in 1 .. Len(seqs) : seqs[i] \in L,
         \A i, j \in 1 .. Len(seqs) : seqs[i] = seqs[j] => i = j,
         \A s \in L : \E i \in 1 .. Len(seqs) : seqs[i] = s,
         NEW p, p = DeliverLeftovers(r, seqs)
  PROVE  /\ Sound(p) /\ Follows(r, p) /\ Lively(p)
         /\ \A s \in L : Dealt(p.calls[s], s)
         /\ \A s \in DOMAIN r.calls \ L : GetsOn(r.calls[s], p.calls[s])
<1>. DEFINE N == Len(seqs)
            Before(i, s) == \E j \in 1 .. i : seqs[j] = s
<1>1. PICK q : /\ q[0] = r /\ DeliverLeftovers(r, seqs) = q[N]
               /\ \A i \in 1 .. N : q[i] = Delivers(q[i - 1], seqs[i])
  BY DeliverLeftoversUnfolds
<1>2. N \in Nat /\ \A i \in 1 .. N : seqs[i] \in L
  OBVIOUS
<1>. HIDE DEF N
<1>. DEFINE Good(i) ==
              /\ Sound(q[i]) /\ Follows(r, q[i]) /\ Lively(q[i])
              /\ \A s \in L : IF Before(i, s) THEN Dealt(q[i].calls[s], s)
                              ELSE q[i].calls[s].at = "cached"
              /\ \A s \in DOMAIN r.calls \ L : GetsOn(r.calls[s], q[i].calls[s])
            T == {i \in 0 .. N : Good(i)}
<1>3. 0 \in T
  <2>1. /\ Follows(r, r) /\ \A s \in L : ~Before(0, s)
        /\ \A s \in DOMAIN r.calls : GetsOn(r.calls[s], r.calls[s])
    BY DEF Follows, GetsOn
  <2>. HIDE DEF Before
  <2>2. Good(0)
    BY <1>1, <2>1
  <2>. HIDE DEF Good
  <2>. QED
    BY <1>2, <2>2
<1>4. ASSUME NEW k \in 0 .. N - 1, k \in T PROVE k + 1 \in T
  <2>1. k + 1 \in 1 .. N /\ (k + 1) - 1 = k /\ k \in Nat /\ k + 1 \in 0 .. N
    BY <1>2
  <2>2. q[k + 1] = Delivers(q[k], seqs[k + 1])
    BY <1>1, <2>1
  <2>3. Good(k)
    BY <1>4
  <2>. DEFINE x == seqs[k + 1]
              a == q[k]
              b == q[k + 1]
  <2>4. x \in L /\ ~Before(k, x)
    BY <1>2, <2>1 DEF N
  <2>5. \A s \in L : Before(k + 1, s) <=> Before(k, s) \/ s = x
    <3>1. \A j : j \in 1 .. k + 1 <=> j \in 1 .. k \/ j = k + 1
      BY <2>1
    <3>. QED
      BY <3>1
  <2>6. /\ Sound(a) /\ Follows(r, a) /\ Lively(a) /\ DOMAIN a.calls = DOMAIN r.calls
        /\ \A s \in L : IF Before(k, s) THEN Dealt(a.calls[s], s) ELSE a.calls[s].at = "cached"
        /\ \A s \in DOMAIN r.calls \ L : GetsOn(r.calls[s], a.calls[s])
    <3>. HIDE DEF Before
    <3>. QED
      BY <2>3 DEF Follows
  <2>7. b = Delivers(a, x)
    BY <2>2
  <2>8. k + 1 \in T <=> Good(k + 1)
    <3>. HIDE DEF Good
    <3>. QED
      BY <2>1
  <2>9. Good(k + 1) <=>
          /\ Sound(b) /\ Follows(r, b) /\ Lively(b)
          /\ \A s \in L : IF Before(k + 1, s) THEN Dealt(b.calls[s], s)
                          ELSE b.calls[s].at = "cached"
          /\ \A s \in DOMAIN r.calls \ L : GetsOn(r.calls[s], b.calls[s])
    OBVIOUS
  <2>. HIDE DEF Before, Good, T, x, a, b
  <2>10. /\ Sound(b) /\ Follows(a, b) /\ Lively(b)
         /\ Dealt(b.calls[x], x)
         /\ \A s \in DOMAIN a.calls \ {x} : GetsOn(a.calls[s], b.calls[s])
    BY <2>4, <2>6, <2>7, DeliversSound
  <2>11. Follows(r, b)
    BY <2>6, <2>10, FollowsOn
  <2>12. ASSUME NEW s \in L
         PROVE  IF Before(k + 1, s) THEN Dealt(b.calls[s], s) ELSE b.calls[s].at = "cached"
    <3>1. CASE s = x
      BY <2>5, <2>10, <3>1
    <3>2. CASE s # x /\ Before(k, s)
      <4>1. Dealt(a.calls[s], s) /\ GetsOn(a.calls[s], b.calls[s])
        BY <2>6, <2>10, <3>2
      <4>. QED
        BY <2>5, <3>2, <4>1, DealtStays
    <3>3. CASE s # x /\ ~Before(k, s)
      <4>1. a.calls[s].at = "cached" /\ GetsOn(a.calls[s], b.calls[s])
        BY <2>6, <2>10, <3>3
      <4>. QED
        BY <2>5, <3>3, <4>1 DEF GetsOn
    <3>. QED
      BY <3>1, <3>2, <3>3
  <2>13. ASSUME NEW s \in DOMAIN r.calls \ L PROVE GetsOn(r.calls[s], b.calls[s])
    <3>1. GetsOn(r.calls[s], a.calls[s]) /\ GetsOn(a.calls[s], b.calls[s])
      BY <2>4, <2>6, <2>10
    <3>. QED
      BY <3>1 DEF GetsOn
  <2>. QED
    BY <2>8, <2>9, <2>10, <2>11, <2>12, <2>13
<1>5. N \in T
  <2>. HIDE DEF T
  <2>1. \A k \in 0 .. N : k \in T
    BY <1>2, <1>3, <1>4, UpTo
  <2>. QED
    BY <1>2, <2>1
<1>6. \A s \in L : Before(N, s)
  BY DEF N
<1>7. Good(N)
  BY <1>5
<1>. HIDE DEF Before
<1>. QED
  BY <1>1, <1>6, <1>7 DEF N

(* What the cursor has passed: answers come after their calls, and nothing  *)
(* comes twice.                                                             *)
LEMMA WalkedSoFar ==
  ASSUME StreamOK, NEW r, r.cursor \in Nat \ {0}, r.cursor <= Len(stream) + 1
  PROVE  /\ Delivered(r) \subseteq Matched(r)
         /\ r.cursor <= Len(stream) /\ stream[r.cursor].t = "done"
              => stream[r.cursor].seq \notin Delivered(r)
         /\ r.cursor <= Len(stream) /\ stream[r.cursor].t = "issue"
              => /\ stream[r.cursor].seq \notin Matched(r)
                 /\ \A n \in 1 .. stream[r.cursor].seq - 1 : n \in Matched(r)
<1>. DEFINE c == r.cursor
            Issues1 == {j \in 1 .. c - 1 : stream[j].t = "issue"}
            Dones1 == {j \in 1 .. c - 1 : stream[j].t = "done"}
<1>1. /\ Matched(r) = {stream[i].seq : i \in Issues1}
      /\ Delivered(r) = {stream[i].seq : i \in Dones1}
  BY DEF Matched, Delivered
<1>2. /\ Len(stream) \in Nat /\ DOMAIN stream = 1 .. Len(stream) /\ c \in Nat \ {0}
      /\ c <= Len(stream) + 1 /\ WellNumbered(stream)
  BY StreamFacts
<1>. HIDE DEF c
<1>3. /\ \A j : j \in Issues1 <=> j \in Places(stream, "issue") /\ j < c
      /\ \A j : j \in Dones1 <=> j \in Places(stream, "done") /\ j < c
  BY <1>2 DEF Places
<1>4. c <= Len(stream) => c \in DOMAIN stream
  BY <1>2
<1>. HIDE DEF Issues1, Dones1
<1>5. Delivered(r) \subseteq Matched(r)
  <2>1. SUFFICES ASSUME NEW i \in Dones1 PROVE \E j \in Issues1 : stream[j].seq = stream[i].seq
    BY <1>1
  <2>2. i \in Places(stream, "done") /\ i < c
    BY <1>3
  <2>3. PICK j \in Places(stream, "issue") : j < i /\ stream[j].seq = stream[i].seq
    BY <1>2, <2>2 DEF WellNumbered
  <2>4. j \in Nat /\ i \in Nat
    BY <1>2, <2>2, <2>3 DEF Places
  <2>5. j < c
    BY <1>2, <2>2, <2>3, <2>4
  <2>. QED
    BY <1>3, <2>3, <2>5
<1>6. ASSUME c <= Len(stream), stream[c].t = "done" PROVE stream[c].seq \notin Delivered(r)
  <2>1. SUFFICES ASSUME NEW i \in Dones1, stream[i].seq = stream[c].seq PROVE FALSE
    BY <1>1
  <2>2. i \in Places(stream, "done") /\ i < c /\ c \in Places(stream, "done")
    BY <1>3, <1>4, <1>6 DEF Places
  <2>3. i = c
    BY <1>2, <2>1, <2>2 DEF WellNumbered
  <2>. QED
    BY <1>2, <2>2, <2>3
<1>7. ASSUME c <= Len(stream), stream[c].t = "issue"
      PROVE  /\ stream[c].seq \notin Matched(r)
             /\ \A n \in 1 .. stream[c].seq - 1 : n \in Matched(r)
  <2>1. c \in Places(stream, "issue")
    BY <1>4, <1>7 DEF Places
  <2>2. stream[c].seq \notin Matched(r)
    <3>1. SUFFICES ASSUME NEW i \in Issues1, stream[i].seq = stream[c].seq PROVE FALSE
      BY <1>1
    <3>2. i \in Places(stream, "issue") /\ i < c
      BY <1>3
    <3>3. i = c
      BY <1>2, <2>1, <3>1, <3>2 DEF WellNumbered
    <3>. QED
      BY <1>2, <3>2, <3>3
  <2>3. ASSUME NEW n \in 1 .. stream[c].seq - 1 PROVE n \in Matched(r)
    <3>1. PICK j \in Places(stream, "issue") : j < c /\ stream[j].seq = n
      BY <1>2, <2>1 DEF WellNumbered
    <3>. QED
      BY <1>1, <1>3, <3>1
  <2>. QED
    BY <2>2, <2>3
<1>. QED
  BY <1>5, <1>6, <1>7 DEF c

LEMMA CursorMoves ==
  ASSUME StreamOK, NEW r, NEW q, r.cursor \in Nat \ {0}, r.cursor <= Len(stream),
         q.cursor = r.cursor + 1
  PROVE  /\ Matched(q) = IF stream[r.cursor].t = "issue"
                         THEN Matched(r) \cup {stream[r.cursor].seq} ELSE Matched(r)
         /\ Delivered(q) = IF stream[r.cursor].t = "done"
                           THEN Delivered(r) \cup {stream[r.cursor].seq} ELSE Delivered(r)
<1>. DEFINE Passed(n, t) == {j \in 1 .. n : stream[j].t = t}
            c == r.cursor
            b == r.cursor - 1
<1>1. /\ q.cursor - 1 = c /\ c \in Nat /\ b \in Nat
      /\ \A j : j \in 1 .. c <=> j \in 1 .. b \/ j = c
  OBVIOUS
<1>2. /\ Matched(r) = {stream[i].seq : i \in Passed(b, "issue")}
      /\ Delivered(r) = {stream[i].seq : i \in Passed(b, "done")}
  BY DEF Matched, Delivered
<1>3. /\ Matched(q) = {stream[i].seq : i \in Passed(q.cursor - 1, "issue")}
      /\ Delivered(q) = {stream[i].seq : i \in Passed(q.cursor - 1, "done")}
  BY DEF Matched, Delivered
<1>. HIDE DEF b, c
<1>4. /\ Passed(c, "issue") = IF stream[c].t = "issue" THEN Passed(b, "issue") \cup {c}
                              ELSE Passed(b, "issue")
      /\ Passed(c, "done") = IF stream[c].t = "done" THEN Passed(b, "done") \cup {c}
                             ELSE Passed(b, "done")
  BY <1>1
<1>. HIDE DEF Passed
<1>5. Matched(q) = IF stream[c].t = "issue" THEN Matched(r) \cup {stream[c].seq} ELSE Matched(r)
  BY <1>1, <1>2, <1>3, <1>4
<1>6. Delivered(q) = IF stream[c].t = "done" THEN Delivered(r) \cup {stream[c].seq} ELSE Delivered(r)
  BY <1>1, <1>2, <1>3, <1>4
<1>. QED
  BY <1>5, <1>6 DEF c

(* The walk knows only the cursor.                                          *)
LEMMA SameWalk ==
  ASSUME NEW r, NEW q, q.cursor = r.cursor
  PROVE  Matched(q) = Matched(r) /\ Delivered(q) = Delivered(r)
BY DEF Matched, Delivered

\* From r to q the replay has come to its end, the calls are the ones there were.
Leaves(r, q) ==
  /\ DOMAIN q.calls = DOMAIN r.calls /\ Len(q.calls) = Len(r.calls)
  /\ q.cursor = r.cursor /\ ~q.replaying
  /\ r.idles > 0 => q.idles > 0
  /\ r.inbox # <<>> => q.inbox # <<>>

LEMMA EndReplaySound ==
  ASSUME NEW r, Sound(r)
  PROVE  LET q == EndReplay(r)
         IN /\ Sound(q) /\ q.calls = r.calls /\ Leaves(r, q)
<1>. DEFINE jrn == Append(r.journal, Live)
            q == EndReplay(r)
<1>1. q = [r EXCEPT !.replaying = FALSE, !.journal = jrn]
  BY DEF EndReplay
<1>2. r \in Runtime /\ Recorded(r) /\ Heard(r) /\ ~Ending(r) /\ Len(r.calls) <= MaxCalls
  BY DEF Sound
<1>3. r.journal \in Seq(Entry) /\ Live \in Entry /\ Live.t = "live"
  BY <1>2, RuntimeFields, EntryFields
<1>4. /\ jrn \in Seq(Entry) /\ Numbers(jrn, "issue") = Numbers(r.journal, "issue")
      /\ Numbers(jrn, "done") = Numbers(r.journal, "done")
      /\ WellNumbered(r.journal) => WellNumbered(jrn)
  BY <1>3, AppendOther
<1>. HIDE DEF jrn, q
<1>5. /\ q \in Runtime /\ q.journal = jrn /\ q.replaying = FALSE
      /\ q.calls = r.calls /\ q.sent = r.sent /\ q.inbox = r.inbox /\ q.idles = r.idles
      /\ q.cursor = r.cursor /\ q.stopping = r.stopping /\ q.outcome = r.outcome
  BY ONLY <1>1, <1>2, <1>4 DEF Runtime
<1>6. Recorded(q)
  BY <1>2, <1>4, <1>5 DEF Recorded, Answered
<1>7. Heard(q)
  BY <1>2, <1>5 DEF Heard
<1>8. ~Ending(q)
  BY <1>2, <1>5 DEF Ending, Finished
<1>9. Leaves(r, q)
  BY <1>5 DEF Leaves
<1>. QED
  BY <1>2, <1>5, <1>6, <1>7, <1>8, <1>9 DEF Sound, q

LEMMA UsagesOfDones ==
  ASSUME StreamOK, NEW r
  PROVE  LET dones == UnmatchedDones(r)
         IN Len(dones) \in Nat /\ \A i \in 1 .. Len(dones) : dones[i].usage \in Nat
<1>. DEFINE S == {i \in DOMAIN stream : stream[i].t = "done" /\ stream[i].seq \notin Matched(r)}
            dones == UnmatchedDones(r)
<1>1. dones = Selected(stream, S) /\ S \subseteq DOMAIN stream
  BY DEF UnmatchedDones
<1>2. dones \in Seq(Entry) /\ \E p : Embeds(p, dones, stream, S)
  <2>. HIDE DEF S, dones
  <2>. QED
    BY <1>1, StreamFacts, SelectedEmbeds
<1>3. PICK p : Embeds(p, dones, stream, S)
  BY <1>2
<1>4. DOMAIN dones = 1 .. Len(dones) /\ Len(dones) \in Nat
  <2>. HIDE DEF dones
  <2>. QED
    BY <1>2
<1>. HIDE DEF dones
<1>5. ASSUME NEW i \in 1 .. Len(dones) PROVE dones[i].usage \in Nat
  <2>1. p[i] \in S /\ dones[i] = stream[p[i]]
    <3>. HIDE DEF S
    <3>. QED
      BY <1>3, <1>4 DEF Embeds
  <2>2. dones[i] \in Entry /\ dones[i].t = "done"
    BY <2>1, StreamFacts
  <2>. QED
    BY <2>2, IssueFields
<1>. QED
  BY <1>4, <1>5 DEF dones

\* The calls of the record wait for it, or were delivered.
Midway(r) ==
  /\ Matched(r) \subseteq DOMAIN r.calls /\ r.cursor <= Len(stream) + 1
  /\ \A s \in DOMAIN r.calls : r.calls[s].at = IF s \in Delivered(r) THEN "answered" ELSE "cached"

\* The calls of the record are dealt with, the others are not begun.
Diverged(r) ==
  /\ Matched(r) \subseteq DOMAIN r.calls
  /\ \A s \in Matched(r) : Dealt(r.calls[s], s)
  /\ \A s \in DOMAIN r.calls \ Matched(r) : r.calls[s].at = "cached"

LEMMA DivergeSound ==
  ASSUME version \in Versions, StreamOK, NEW r, Sound(r), Midway(r)
  PROVE  LET q == Diverge(r)
         IN Sound(q) /\ Leaves(r, q) /\ Lively(q) /\ Diverged(q)
<1>. DEFINE a == EndReplay(r)
            seqs == Leftovers(r)
            b == DeliverLeftovers(a, seqs)
            dones == UnmatchedDones(r)
            q == Diverge(r)
            L == Matched(r) \ Delivered(r)
<1>1. q = AbandonAll(b, dones)
  BY DEF Diverge
<1>2. r \in Runtime /\ r.cursor \in Nat \ {0}
  BY DEF Sound, Runtime
<1>3. Sound(a) /\ a.calls = r.calls /\ Leaves(r, a)
  BY EndReplaySound
<1>4. /\ Len(seqs) \in Nat
      /\ \A i \in 1 .. Len(seqs) : seqs[i] \in L
      /\ \A i, j \in 1 .. Len(seqs) : seqs[i] = seqs[j] => i = j
      /\ \A s \in L : \E i \in 1 .. Len(seqs) : seqs[i] = s
  BY <1>2, LeftoverCalls DEF Midway
<1>5. Len(dones) \in Nat /\ \A i \in 1 .. Len(dones) : dones[i].usage \in Nat
  BY UsagesOfDones
<1>6. b = DeliverLeftovers(a, seqs)
  OBVIOUS
<1>. HIDE DEF a, seqs, b, dones, q
<1>7. Lively(a)
  <2>1. \A s \in DOMAIN r.calls : r.calls[s].at \in {"answered", "cached"}
    BY DEF Midway
  <2>. QED
    BY <1>3, <2>1 DEF Lively
<1>8. L \subseteq DOMAIN a.calls /\ \A s \in L : a.calls[s].at = "cached"
  BY <1>3 DEF Midway
<1>9. /\ Sound(b) /\ Follows(a, b) /\ Lively(b)
      /\ \A s \in L : Dealt(b.calls[s], s)
      /\ \A s \in DOMAIN a.calls \ L : GetsOn(a.calls[s], b.calls[s])
  <2>. HIDE DEF L
  <2>. QED
    BY <1>3, <1>4, <1>6, <1>7, <1>8, DeliverLeftoversSound
<1>10. Sound(q) /\ Follows(b, q) /\ q.calls = b.calls
  BY <1>1, <1>5, <1>9, AbandonAllSound
<1>11. Leaves(r, q)
  BY <1>3, <1>9, <1>10 DEF Leaves, Follows
<1>12. Lively(q)
  BY <1>9, <1>10 DEF Lively, Executing
<1>13. Diverged(q)
  <2>1. Matched(q) = Matched(r)
    BY <1>11, SameWalk DEF Leaves
  <2>2. Delivered(r) \subseteq Matched(r)
    BY <1>2, WalkedSoFar DEF Midway
  <2>3. DOMAIN q.calls = DOMAIN r.calls /\ Matched(r) \subseteq DOMAIN r.calls
    BY <1>11 DEF Leaves, Midway
  <2>4. ASSUME NEW s \in Matched(r) PROVE Dealt(q.calls[s], s)
    <3>1. CASE s \in L
      BY <1>9, <1>10, <3>1
    <3>2. CASE s \in Delivered(r)
      <4>1. GetsOn(r.calls[s], q.calls[s]) /\ r.calls[s].at = "answered"
        BY <1>3, <1>9, <1>10, <2>3, <3>2 DEF Midway
      <4>2. q.calls[s].at = "answered"
        BY <4>1 DEF GetsOn
      <4>. QED
        BY <4>2 DEF Dealt, Execution
    <3>. QED
      BY <3>1, <3>2
  <2>5. ASSUME NEW s \in DOMAIN r.calls \ Matched(r) PROVE q.calls[s].at = "cached"
    <3>1. GetsOn(r.calls[s], q.calls[s]) /\ r.calls[s].at = "cached"
      BY <1>3, <1>9, <1>10, <2>2 DEF Midway
    <3>. QED
      BY <3>1 DEF GetsOn
  <2>. QED
    BY <2>1, <2>3, <2>4, <2>5 DEF Diverged
<1>. QED
  BY <1>10, <1>11, <1>12, <1>13 DEF q

LEMMA CursorSound ==
  ASSUME NEW r, Sound(r)
  PROVE  LET q == [r EXCEPT !.cursor = @ + 1]
         IN /\ Sound(q) /\ q.calls = r.calls /\ q.cursor = r.cursor + 1
            /\ q.replaying = r.replaying /\ q.inbox = r.inbox /\ q.idles = r.idles
            /\ q.journal = r.journal
<1>. DEFINE c == r.cursor + 1
            q == [r EXCEPT !.cursor = @ + 1]
<1>1. q = [r EXCEPT !.cursor = c]
  OBVIOUS
<1>2. r \in Runtime /\ Recorded(r) /\ Heard(r) /\ ~Ending(r) /\ Len(r.calls) <= MaxCalls
  BY DEF Sound
<1>3. r.cursor \in Nat \ {0}
  BY <1>2 DEF Runtime
<1>4. c \in Nat \ {0}
  BY <1>3
<1>. HIDE DEF c, q
<1>5. /\ q \in Runtime /\ q.journal = r.journal /\ q.replaying = r.replaying /\ q.cursor = c
      /\ q.calls = r.calls /\ q.sent = r.sent /\ q.inbox = r.inbox /\ q.idles = r.idles
      /\ q.stopping = r.stopping /\ q.outcome = r.outcome
  BY ONLY <1>1, <1>2, <1>4 DEF Runtime
<1>6. Recorded(q)
  BY <1>2, <1>5 DEF Recorded, Answered
<1>7. Heard(q)
  BY <1>2, <1>5 DEF Heard
<1>8. ~Ending(q)
  BY <1>2, <1>5 DEF Ending, Finished
<1>9. Sound(q)
  BY <1>2, <1>5, <1>6, <1>7, <1>8 DEF Sound
<1>. QED
  BY <1>5, <1>9 DEF c, q

\* From r to q answers of the record were delivered.
Walks(r, q) ==
  /\ DOMAIN q.calls = DOMAIN r.calls /\ Len(q.calls) = Len(r.calls)
  /\ q.replaying = r.replaying
  /\ r.idles > 0 => q.idles > 0
  /\ r.inbox # <<>> => q.inbox # <<>>

LEMMA DeliverNextSound ==
  ASSUME version \in Versions, StreamOK, NEW r, Sound(r), Replays(r)
  PROVE  LET q == DeliverNext(r)
         IN Sound(q) /\ Replays(q) /\ Walks(r, q)
<1>. DEFINE e == stream[r.cursor]
            b == [r EXCEPT !.cursor = @ + 1]
            q == DeliverNext(r)
<1>1. r \in Runtime /\ r.cursor \in Nat \ {0}
  BY DEF Sound, Runtime
<1>2. CASE r.cursor <= Len(stream) /\ CanDeliver(r, e)
  <2>1. q = DeliverCached(b, e)
    BY <1>2 DEF DeliverNext
  <2>2. r.cursor \in DOMAIN stream
    BY <1>1, <1>2, StreamFacts
  <2>3. e \in Entry /\ e.t = "done" /\ e.seq \in Matched(r)
    BY <1>2, <2>2, StreamFacts DEF CanDeliver
  <2>4. e.value \in Values \cup {Null} /\ e.usage \in Nat
    BY <2>3, IssueFields
  <2>5. e.seq \in DOMAIN r.calls /\ e.seq \notin Delivered(r)
    BY <1>1, <1>2, <2>3, WalkedSoFar DEF Replays
  <2>6. /\ Sound(b) /\ b.calls = r.calls /\ b.cursor = r.cursor + 1
        /\ b.replaying = r.replaying /\ b.inbox = r.inbox /\ b.idles = r.idles
        /\ b.journal = r.journal
    BY CursorSound
  <2>7. Matched(b) = Matched(r) /\ Delivered(b) = Delivered(r) \cup {e.seq}
    <3>. HIDE DEF b
    <3>1. e.t # "issue"
      BY <2>3
    <3>. QED
      BY <1>1, <1>2, <2>3, <2>6, <3>1, CursorMoves
  <2>. HIDE DEF e, b, q
  <2>8. e.seq \in DOMAIN b.calls /\ b.calls[e.seq].at = "cached"
    BY <2>5, <2>6 DEF Replays
  <2>9. Took(b, e.seq, q)
    BY <2>1, <2>4, <2>6, <2>8, DeliverCachedSound
  <2>10. /\ Sound(q) /\ Follows(b, q)
         /\ \A s \in DOMAIN b.calls : q.calls[s].at = IF s = e.seq THEN "answered" ELSE b.calls[s].at
    BY <2>9 DEF Took
  <2>11. q.cursor = b.cursor /\ DOMAIN q.calls = DOMAIN r.calls
    BY <2>6, <2>10 DEF Follows
  <2>12. Matched(q) = Matched(b) /\ Delivered(q) = Delivered(b)
    BY <2>11, SameWalk
  <2>13. q.cursor <= Len(stream) + 1
    BY <1>1, <1>2, <2>6, <2>11, StreamFacts
  <2>14. Replays(q)
    <3>1. Matched(q) = DOMAIN q.calls
      BY <2>7, <2>11, <2>12 DEF Replays
    <3>2. \A s \in DOMAIN q.calls :
            q.calls[s].at = IF s \in Delivered(q) THEN "answered" ELSE "cached"
      BY <2>6, <2>7, <2>10, <2>11, <2>12 DEF Replays
    <3>3. ~Has(q.journal, "live") /\ source # <<>>
      BY <2>6, <2>10 DEF Replays, Follows
    <3>. QED
      BY <2>13, <3>1, <3>2, <3>3 DEF Replays
  <2>15. Walks(r, q)
    BY <2>6, <2>10 DEF Walks, Follows
  <2>. QED
    BY <2>10, <2>14, <2>15 DEF q
<1>3. CASE ~(r.cursor <= Len(stream) /\ CanDeliver(r, e))
  <2>1. q = r
    BY <1>3 DEF DeliverNext
  <2>. QED
    BY <2>1 DEF Walks
<1>. QED
  BY <1>2, <1>3

LEMMA DeliverAllSound ==
  ASSUME version \in Versions, StreamOK, NEW r, Sound(r), Replays(r)
  PROVE  LET p == DeliverAll(r)
         IN Sound(p) /\ Replays(p) /\ Walks(r, p)
<1>. DEFINE N == Len(stream)
<1>1. N \in Nat
  BY StreamFacts
<1>2. PICK q : /\ q[0] = r /\ DeliverAll(r) = q[N]
               /\ \A i \in 1 .. N : q[i] = DeliverNext(q[i - 1])
  BY <1>1, DeliverAllUnfolds
<1>. HIDE DEF N
<1>. DEFINE Good(i) == Sound(q[i]) /\ Replays(q[i]) /\ Walks(r, q[i])
            T == {i \in 0 .. N : Good(i)}
<1>3. 0 \in T
  <2>1. Walks(r, r)
    BY DEF Walks
  <2>. QED
    BY <1>1, <1>2, <2>1
<1>4. ASSUME NEW k \in 0 .. N - 1, k \in T PROVE k + 1 \in T
  <2>1. k + 1 \in 1 .. N /\ (k + 1) - 1 = k /\ k + 1 \in 0 .. N
    BY <1>1
  <2>2. q[k + 1] = DeliverNext(q[k])
    BY <1>2, <2>1
  <2>3. Good(k)
    BY <1>4
  <2>. DEFINE a == q[k]
              b == q[k + 1]
  <2>4. b = DeliverNext(a) /\ Sound(a) /\ Replays(a) /\ Walks(r, a)
    BY <2>2, <2>3
  <2>. HIDE DEF a, b
  <2>5. Sound(b) /\ Replays(b) /\ Walks(a, b)
    BY <2>4, DeliverNextSound
  <2>6. Walks(r, b)
    BY <2>4, <2>5 DEF Walks
  <2>. QED
    BY <2>1, <2>5, <2>6 DEF b
<1>5. N \in T
  <2>. HIDE DEF T
  <2>1. \A k \in 0 .. N : k \in T
    BY <1>1, <1>3, <1>4, UpTo
  <2>. QED
    BY <1>1, <2>1
<1>. QED
  BY <1>2, <1>5

\* What a handler leaves behind while the run goes on.
Going(r) == Sound(r) /\ (IF r.replaying THEN Replays(r) /\ r.idles > 0 ELSE Runs(r))

LEMMA DivergedRuns ==
  ASSUME NEW r, Sound(r), Lively(r), Diverged(r), Matched(r) = DOMAIN r.calls
  PROVE  Runs(r)
<1>1. \A s \in DOMAIN r.calls : Dealt(r.calls[s], s)
  BY DEF Diverged
<1>2. \A s \in DOMAIN r.calls : r.calls[s].at # "cached"
  BY <1>1 DEF Dealt
<1>3. \A s \in Matched(r) : r.calls[s].at \in Execution \cup {"queued"} /\ HasDone(s)
        => RerunsOnResume(DoneOf(s))
  BY <1>1 DEF Dealt
<1>. QED
  BY <1>2, <1>3 DEF Runs, Lively

LEMMA PumpReplaySound ==
  ASSUME version \in Versions, StreamOK, NEW r, Sound(r), Replays(r), r.replaying
  PROVE  LET q == PumpReplay(r)
         IN /\ Going(q) /\ DOMAIN q.calls = DOMAIN r.calls
            /\ r.inbox # <<>> => q.inbox # <<>>
<1>. DEFINE d == DeliverAll(r)
            q == PumpReplay(r)
<1>1. Sound(d) /\ Replays(d) /\ Walks(r, d)
  BY DeliverAllSound
<1>2. q = IF d.cursor > Len(stream) THEN IF Leftovers(d) # <<>> THEN Diverge(d) ELSE EndReplay(d)
          ELSE IF stream[d.cursor].t = "done" \/ NeverComes(d) THEN Diverge(d) ELSE d
  BY DEF PumpReplay
<1>. HIDE DEF d, q
<1>3. d \in Runtime /\ d.cursor \in Nat \ {0} /\ d.idles \in Nat
  BY <1>1 DEF Sound, Runtime
<1>4. Midway(d)
  BY <1>1 DEF Replays, Midway
<1>5. CASE q = Diverge(d)
  <2>1. Sound(q) /\ Leaves(d, q) /\ Lively(q) /\ Diverged(q)
    BY <1>1, <1>4, <1>5, DivergeSound
  <2>2. Matched(q) = DOMAIN q.calls
    <3>1. Matched(q) = Matched(d)
      BY <2>1, SameWalk DEF Leaves
    <3>. QED
      BY <1>1, <2>1, <3>1 DEF Leaves, Replays
  <2>3. Runs(q)
    BY <2>1, <2>2, DivergedRuns
  <2>. QED
    BY <1>1, <2>1, <2>3 DEF Going, Leaves, Walks, q
<1>6. CASE d.cursor > Len(stream) /\ Leftovers(d) = <<>> /\ q = EndReplay(d)
  <2>1. Sound(q) /\ q.calls = d.calls /\ Leaves(d, q)
    BY <1>1, <1>6, EndReplaySound
  <2>2. Matched(d) \ Delivered(d) = {}
    BY <1>3, <1>4, <1>6, LeftoverCalls DEF Midway
  <2>3. \A s \in DOMAIN d.calls : d.calls[s].at = "answered"
    BY <1>1, <2>2 DEF Replays
  <2>4. Matched(q) = DOMAIN q.calls
    <3>1. Matched(q) = Matched(d)
      BY <2>1, SameWalk DEF Leaves
    <3>. QED
      BY <1>1, <2>1, <3>1 DEF Leaves, Replays
  <2>5. Runs(q)
    BY <2>1, <2>3, <2>4 DEF Runs, Execution
  <2>. QED
    BY <1>1, <2>1, <2>5 DEF Going, Leaves, Walks, q
<1>7. CASE q = d /\ ~(d.cursor > Len(stream)) /\ stream[d.cursor].t # "done" /\ ~NeverComes(d)
  <2>1. d.cursor \in DOMAIN stream
    BY <1>3, <1>7, StreamFacts
  <2>2. stream[d.cursor].t = "issue"
    BY <1>7, <2>1, StreamFacts
  <2>3. d.idles > 0
    BY <1>3, <1>7, <2>2 DEF NeverComes
  <2>. QED
    BY <1>1, <1>7, <2>3 DEF Going, Walks, q
<1>. QED
  BY <1>2, <1>5, <1>6, <1>7

-----------------------------------------------------------------------------
(* Messages of the sandbox *)

\* The calls of the record are dealt with, and no call waits for it.
Begun(r) ==
  /\ Matched(r) \subseteq DOMAIN r.calls
  /\ \A s \in DOMAIN r.calls : r.calls[s].at # "cached"
  /\ \A s \in Matched(r) : r.calls[s].at \in Execution \cup {"queued"} /\ HasDone(s)
       => RerunsOnResume(DoneOf(s))

\* What can become of a call that was made.
Moves(c, d) ==
  \/ d.at = c.at
  \/ /\ c.at \in Execution \cup {"queued"}
     /\ d.at \in {"working", "over", "answered", "stopped"}

LEMMA BegunStays ==
  ASSUME NEW r, Begun(r), NEW q, q.cursor = r.cursor, DOMAIN q.calls = DOMAIN r.calls,
         \A s \in DOMAIN r.calls : Moves(r.calls[s], q.calls[s])
  PROVE  Begun(q)
<1>1. Matched(q) = Matched(r)
  BY SameWalk
<1>2. \A s \in DOMAIN r.calls : /\ q.calls[s].at # "cached"
                                /\ q.calls[s].at \in Execution \cup {"queued"}
                                     => r.calls[s].at \in Execution \cup {"queued"}
  BY DEF Begun, Moves, Execution
<1>. QED
  BY <1>1, <1>2 DEF Begun

LEMMA BegunRuns ==
  ASSUME NEW r
  PROVE  /\ Runs(r) => Begun(r)
         /\ Begun(r) /\ (Lively(r) \/ Ending(r)) => Runs(r)
         /\ Runs(r) /\ ~Ending(r) => Lively(r)
BY DEF Runs, Begun, Lively

\* What every handler leaves behind.
Active(r) ==
  /\ r \in Runtime /\ Len(r.calls) <= MaxCalls /\ Recorded(r)
  /\ IF Ending(r) THEN r.inbox = <<>> ELSE Heard(r)
  /\ IF r.replaying THEN Replays(r) ELSE Runs(r)
  /\ ~Ending(r) /\ r.replaying => r.idles > 0
  /\ ~Ending(r) /\ r.inbox = <<>> => ~IsStuck(r)

LEMMA GoingActive ==
  ASSUME NEW r, Going(r), r.inbox # <<>> \/ ~IsStuck(r)
  PROVE  Active(r)
BY DEF Going, Sound, Active

LEMMA ActiveGoing ==
  ASSUME NEW r, Active(r), ~Ending(r)
  PROVE  Going(r)
BY DEF Going, Sound, Active

(* A step that leaves the run ended, or finds it ended.                     *)
LEMMA EndsActive ==
  ASSUME NEW r, IF r.replaying THEN Replays(r) ELSE Runs(r),
         NEW q \in Runtime, Len(q.calls) <= MaxCalls, Recorded(q), Ending(q), q.inbox = <<>>,
         DOMAIN q.calls = DOMAIN r.calls, q.cursor = r.cursor, q.replaying = r.replaying,
         Has(q.journal, "live") => Has(r.journal, "live"),
         \A s \in DOMAIN r.calls : Moves(r.calls[s], q.calls[s])
  PROVE  Active(q)
<1>1. Matched(q) = Matched(r) /\ Delivered(q) = Delivered(r)
  BY SameWalk
<1>2. ASSUME r.replaying PROVE Replays(q)
  <2>1. \A s \in DOMAIN r.calls : q.calls[s].at = r.calls[s].at
    BY <1>2 DEF Replays, Moves, Execution
  <2>. QED
    BY <1>1, <1>2, <2>1 DEF Replays
<1>3. ASSUME ~r.replaying PROVE Runs(q)
  BY <1>3, BegunRuns, BegunStays
<1>. QED
  BY <1>2, <1>3 DEF Active

LEMMA AbortAllTouches ==
  ASSUME NEW r \in Runtime, NEW why \in {"stop", "quit"}
  PROVE  LET q == AbortAll(r, why)
         IN /\ OnlyCalls(r, q)
            /\ \A s \in DOMAIN r.calls : Moves(r.calls[s], q.calls[s])
            /\ Answered(r) \subseteq Answered(q)
<1>. DEFINE a == Aborts(r, why)
            d == [s \in DOMAIN a.calls |->
                   IF a.calls[s].at = "queued" THEN [a.calls[s] EXCEPT !.at = "stopped"] ELSE a.calls[s]]
            q == AbortAll(r, why)
<1>1. q = [a EXCEPT !.calls = d]
  BY DEF AbortAll
<1>2. OnlyCalls(r, a) /\ \A s \in DOMAIN r.calls : a.calls[s].at = r.calls[s].at
  BY AbortsTouch
<1>. HIDE DEF a
<1>3. a \in Runtime /\ DOMAIN a.calls = DOMAIN r.calls /\ \A s \in DOMAIN a.calls : a.calls[s] \in Call
  <2>1. a \in Runtime /\ DOMAIN a.calls = DOMAIN r.calls
    BY <1>2 DEF OnlyCalls
  <2>. QED
    BY <2>1, RuntimeFields
<1>4. ASSUME NEW s \in DOMAIN a.calls
      PROVE  /\ d[s] \in Call
             /\ d[s].at = a.calls[s].at \/ (a.calls[s].at = "queued" /\ d[s].at = "stopped")
  <2>1. CASE a.calls[s].at = "queued"
    <3>1. d[s] = [a.calls[s] EXCEPT !.at = "stopped"] /\ a.calls[s] \in Call
      BY <1>3, <2>1
    <3>. HIDE DEF d
    <3>2. d[s] \in Call /\ d[s].at = "stopped"
      BY <3>1 DEF Call
    <3>. QED
      BY <2>1, <3>2
  <2>2. CASE a.calls[s].at # "queued"
    <3>1. d[s] = a.calls[s] /\ a.calls[s] \in Call
      BY <1>3, <2>2
    <3>. HIDE DEF d
    <3>. QED
      BY <3>1
  <2>. QED
    BY <2>1, <2>2
<1>5. d = [s \in DOMAIN a.calls |-> d[s]]
  OBVIOUS
<1>. HIDE DEF d, q
<1>6. d \in Seq(Call) /\ DOMAIN d = DOMAIN a.calls /\ Len(d) = Len(a.calls)
  BY <1>3, <1>4, <1>5, RuntimeFields, MappedCalls
<1>7. OnlyCalls(a, q) /\ q.calls = d
  BY <1>1, <1>3, <1>6, RuntimeCalls DEF OnlyCalls
<1>8. OnlyCalls(r, q)
  BY <1>2, <1>7 DEF OnlyCalls
<1>9. \A s \in DOMAIN r.calls : Moves(r.calls[s], q.calls[s])
  BY <1>2, <1>3, <1>4, <1>7 DEF Moves
<1>10. Answered(r) \subseteq Answered(q)
  <2>1. \A s \in DOMAIN r.calls : r.calls[s].at = "answered" => q.calls[s].at = "answered"
    BY <1>2, <1>3, <1>4, <1>7
  <2>. QED
    BY <1>8, <2>1 DEF Answered, OnlyCalls
<1>. QED
  BY <1>8, <1>9, <1>10 DEF q

(* The script is over.                                                      *)
LEMMA FinishActive ==
  ASSUME NEW r \in Runtime, Len(r.calls) <= MaxCalls, Recorded(r),
         IF r.replaying THEN Replays(r) ELSE Runs(r),
         NEW outcome \in {"complete", "failed", "stuck"}
  PROVE  Active(Finish(r, outcome))
<1>. DEFINE a == AbortAll(r, "stop")
            jrn == Append(a.journal, End)
            q == Finish(r, outcome)
<1>1. q = [a EXCEPT !.outcome = outcome, !.inbox = <<>>, !.journal = jrn]
  BY DEF Finish
<1>2. /\ OnlyCalls(r, a) /\ Answered(r) \subseteq Answered(a)
      /\ \A s \in DOMAIN r.calls : Moves(r.calls[s], a.calls[s])
  BY AbortAllTouches
<1>. HIDE DEF a
<1>3. a \in Runtime /\ Recorded(a) /\ a.journal = r.journal
  BY <1>2, TouchRecorded DEF OnlyCalls
<1>4. a.journal \in Seq(Entry) /\ End \in Entry /\ End.t = "end"
  BY <1>3, RuntimeFields, EntryFields
<1>5. /\ jrn \in Seq(Entry) /\ Numbers(jrn, "issue") = Numbers(a.journal, "issue")
      /\ Numbers(jrn, "done") = Numbers(a.journal, "done")
      /\ WellNumbered(a.journal) => WellNumbered(jrn)
      /\ Has(jrn, "live") => Has(a.journal, "live")
  BY <1>4, AppendOther
<1>6. <<>> \in Seq(Message) /\ outcome \in {"none", "stopped", "complete", "failed", "stuck"}
  OBVIOUS
<1>. HIDE DEF jrn, q
<1>7. /\ q \in Runtime /\ q.journal = jrn /\ q.inbox = <<>> /\ q.outcome = outcome
      /\ q.calls = a.calls /\ q.sent = a.sent /\ q.cursor = a.cursor /\ q.replaying = a.replaying
  BY ONLY <1>1, <1>3, <1>5, <1>6 DEF Runtime
<1>8. Recorded(q)
  BY <1>3, <1>5, <1>7 DEF Recorded, Answered
<1>9. Ending(q)
  BY <1>7 DEF Ending, Finished
<1>10. /\ DOMAIN q.calls = DOMAIN r.calls /\ Len(q.calls) = Len(r.calls)
       /\ q.cursor = r.cursor /\ q.replaying = r.replaying
       /\ Has(q.journal, "live") => Has(r.journal, "live")
       /\ \A s \in DOMAIN r.calls : Moves(r.calls[s], q.calls[s])
  BY <1>2, <1>3, <1>5, <1>7 DEF OnlyCalls
<1>11. Len(q.calls) <= MaxCalls
  BY <1>10
<1>12. Active(q)
  BY <1>7, <1>8, <1>9, <1>10, <1>11, EndsActive
<1>. QED
  BY <1>12 DEF q

LEMMA CheckDeadlockActive ==
  ASSUME NEW r, Going(r)
  PROVE  Active(CheckDeadlock(r))
<1>1. CASE IsStuck(r)
  <2>1. CheckDeadlock(r) = Finish(r, "stuck")
    BY <1>1 DEF CheckDeadlock
  <2>2. /\ r \in Runtime /\ Len(r.calls) <= MaxCalls /\ Recorded(r)
        /\ IF r.replaying THEN Replays(r) ELSE Runs(r)
    BY DEF Going, Sound
  <2>. QED
    BY <2>1, <2>2, FinishActive
<1>2. CASE ~IsStuck(r)
  <2>1. CheckDeadlock(r) = r
    BY <1>2 DEF CheckDeadlock
  <2>. QED
    BY <1>2, <2>1, GoingActive
<1>. QED
  BY <1>1, <1>2

(* A call gets the next number.                                             *)
LEMMA IssuesSound ==
  ASSUME NEW r, Sound(r), Len(r.calls) < MaxCalls, NEW key \in Keys
  PROVE  LET q == Issues(r, key)
         IN /\ Sound(q) /\ Len(q.calls) = Len(r.calls) + 1
            /\ DOMAIN r.calls = 1 .. Len(r.calls) /\ DOMAIN q.calls = 1 .. Len(r.calls) + 1
            /\ \A s \in DOMAIN r.calls : q.calls[s] = r.calls[s]
            /\ q.calls[Len(r.calls) + 1].at = "cached"
            /\ q.cursor = r.cursor /\ q.replaying = r.replaying
            /\ q.inbox = r.inbox /\ q.idles = r.idles
            /\ Has(q.journal, "live") => Has(r.journal, "live")
<1>. DEFINE n == Len(r.calls)
            f == Fresh(key)
            d == Append(r.calls, f)
            jrn == Append(r.journal, Issue(n + 1, key))
            q == Issues(r, key)
<1>1. q = [r EXCEPT !.calls = d, !.journal = jrn]
  BY DEF Issues
<1>2. r \in Runtime /\ Recorded(r) /\ Heard(r) /\ ~Ending(r) /\ Len(r.calls) <= MaxCalls
  BY DEF Sound
<1>3. f \in Call /\ f.at = "cached" /\ f.abort = "none"
  BY DEF Fresh, Call, Execution
<1>. HIDE DEF f
<1>4. /\ d \in Seq(Call) /\ Len(d) = n + 1 /\ DOMAIN d = 1 .. n + 1 /\ d[n + 1] = f
      /\ \A s \in 1 .. n : d[s] = r.calls[s]
      /\ DOMAIN r.calls = 1 .. n /\ n \in Nat
  <2>1. r.calls \in Seq(Call)
    BY <1>2, RuntimeFields
  <2>. QED
    BY <1>3, <2>1
<1>5. r.journal \in Seq(Entry) /\ WellNumbered(r.journal) /\ Numbers(r.journal, "issue") = 1 .. n
  BY <1>2, <1>4, RuntimeFields DEF Recorded
<1>6. /\ jrn \in Seq(Entry) /\ WellNumbered(jrn)
      /\ Numbers(jrn, "issue") = 1 .. n + 1
      /\ Numbers(jrn, "done") = Numbers(r.journal, "done")
      /\ Has(jrn, "live") => Has(r.journal, "live")
  <2>. HIDE DEF d, q
  <2>. QED
    BY <1>4, <1>5, AppendIssue
<1>. HIDE DEF d, jrn, q
<1>7. /\ q \in Runtime /\ q.calls = d /\ q.journal = jrn /\ q.replaying = r.replaying
      /\ q.cursor = r.cursor /\ q.sent = r.sent /\ q.inbox = r.inbox /\ q.idles = r.idles
      /\ q.stopping = r.stopping /\ q.outcome = r.outcome
  BY ONLY <1>1, <1>2, <1>4, <1>6 DEF Runtime
<1>8. Answered(q) = Answered(r)
  <2>1. \A s \in 1 .. n + 1 : s \in 1 .. n \/ s = n + 1
    BY <1>4
  <2>2. 1 .. n \subseteq 1 .. n + 1
    BY <1>4
  <2>. HIDE DEF n
  <2>. QED
    BY <1>3, <1>4, <1>7, <2>1, <2>2 DEF Answered
<1>9. Recorded(q)
  BY <1>2, <1>4, <1>6, <1>7, <1>8 DEF Recorded
<1>10. Heard(q)
  <2>1. \A s \in 1 .. n + 1 : s \in 1 .. n \/ s = n + 1
    BY <1>4
  <2>2. \A s \in DOMAIN q.calls : q.calls[s].at # "stopped" /\ q.calls[s].abort \notin {"stop", "quit"}
    <3>. HIDE DEF n
    <3>. QED
      BY <1>2, <1>3, <1>4, <1>7, <2>1 DEF Heard
  <2>. QED
    BY <1>2, <1>7, <2>2 DEF Heard
<1>11. ~Ending(q)
  BY <1>2, <1>7 DEF Ending, Finished
<1>12. Len(q.calls) <= MaxCalls
  BY <1>4, <1>7, RunAssumption
<1>13. Sound(q)
  BY <1>7, <1>9, <1>10, <1>11, <1>12 DEF Sound
<1>. QED
  BY <1>3, <1>4, <1>6, <1>7, <1>13 DEF q

LEMMA DispatchRuns ==
  ASSUME version \in Versions, NEW r, Sound(r), Lively(r), ~r.replaying,
         NEW seq \in DOMAIN r.calls, r.calls[seq].at = "cached",
         Matched(r) \subseteq DOMAIN r.calls \ {seq},
         \A s \in DOMAIN r.calls \ {seq} : r.calls[s].at # "cached",
         \A s \in Matched(r) : r.calls[s].at \in Execution \cup {"queued"} /\ HasDone(s)
           => RerunsOnResume(DoneOf(s))
  PROVE  LET q == DispatchLive(r, seq)
         IN Going(q) /\ (r.inbox # <<>> => q.inbox # <<>>)
<1>. DEFINE q == DispatchLive(r, seq)
<1>1. q = DispatchLive(r, seq)
  OBVIOUS
<1>. HIDE DEF q
<1>2. /\ Sound(q) /\ Follows(r, q) /\ Lively(q)
      /\ q.calls[seq].at \in {"queued", "working", "answered"}
      /\ \A s \in DOMAIN r.calls \ {seq} : GetsOn(r.calls[s], q.calls[s])
  BY <1>1, DispatchLiveSound
<1>3. Matched(q) = Matched(r) /\ DOMAIN q.calls = DOMAIN r.calls /\ ~q.replaying
  BY <1>2, SameWalk DEF Follows
<1>4. \A s \in DOMAIN r.calls \ {seq} :
        /\ q.calls[s].at # "cached"
        /\ q.calls[s].at \in Execution \cup {"queued"} => r.calls[s].at \in Execution \cup {"queued"}
  BY <1>2 DEF GetsOn, Execution
<1>5. Begun(q)
  <2>1. \A s \in DOMAIN q.calls : q.calls[s].at # "cached"
    BY <1>2, <1>3, <1>4
  <2>2. \A s \in Matched(q) : q.calls[s].at \in Execution \cup {"queued"} /\ HasDone(s)
          => RerunsOnResume(DoneOf(s))
    BY <1>3, <1>4
  <2>. QED
    BY <1>3, <2>1, <2>2 DEF Begun
<1>6. Runs(q)
  BY <1>2, <1>5, BegunRuns
<1>7. Going(q)
  BY <1>2, <1>3, <1>6 DEF Going
<1>. QED
  BY <1>2, <1>7 DEF Follows, q

LEMMA OnCallGoing ==
  ASSUME version \in Versions, StreamOK, NEW r, Going(r), Len(r.calls) < MaxCalls, NEW key \in Keys
  PROVE  LET q == OnCall(r, key)
         IN Going(q) /\ (r.inbox # <<>> => q.inbox # <<>>)
<1>. DEFINE a == Issues(r, key)
            n == Len(r.calls)
            q == OnCall(r, key)
<1>1. Sound(r) /\ r \in Runtime /\ r.cursor \in Nat \ {0} /\ n \in Nat /\ ~Ending(r)
  BY RuntimeFields DEF Going, Sound, Runtime
<1>2. q = IF a.replaying /\ MatchesIssue(a, key) THEN PumpReplay([a EXCEPT !.cursor = @ + 1])
          ELSE DispatchLive(IF a.replaying THEN Diverge(a) ELSE a, Len(a.calls))
  BY DEF OnCall
<1>3. /\ Sound(a) /\ Len(a.calls) = n + 1
      /\ DOMAIN r.calls = 1 .. n /\ DOMAIN a.calls = 1 .. n + 1
      /\ \A s \in DOMAIN r.calls : a.calls[s] = r.calls[s]
      /\ a.calls[n + 1].at = "cached"
      /\ a.cursor = r.cursor /\ a.replaying = r.replaying
      /\ a.inbox = r.inbox /\ a.idles = r.idles
      /\ Has(a.journal, "live") => Has(r.journal, "live")
  BY <1>1, IssuesSound
<1>. HIDE DEF a, q
<1>4. Matched(a) = Matched(r) /\ Delivered(a) = Delivered(r)
  BY <1>3, SameWalk
<1>5. /\ \A s \in 1 .. n + 1 : s \in 1 .. n \/ s = n + 1
      /\ \A s \in 1 .. n : s \in 1 .. n + 1 /\ s # n + 1
      /\ n + 1 \in 1 .. n + 1 /\ n + 1 \notin 1 .. n
  BY <1>1
<1>6. ASSUME r.replaying
      PROVE  /\ Matched(r) = 1 .. n /\ Delivered(r) \subseteq 1 .. n
             /\ r.cursor <= Len(stream) + 1 /\ source # <<>> /\ ~Has(r.journal, "live")
             /\ \A s \in 1 .. n : r.calls[s].at = IF s \in Delivered(r) THEN "answered" ELSE "cached"
  <2>1. Replays(r)
    BY <1>6 DEF Going
  <2>2. Matched(r) = 1 .. n /\ r.cursor <= Len(stream) + 1
    BY <1>3, <2>1 DEF Replays
  <2>3. Delivered(r) \subseteq 1 .. n
    BY <1>1, <2>2, WalkedSoFar
  <2>. QED
    BY <1>3, <2>1, <2>2, <2>3 DEF Replays
<1>7. ASSUME r.replaying
      PROVE  \A s \in 1 .. n + 1 : a.calls[s].at = IF s \in Delivered(r) THEN "answered" ELSE "cached"
  <2>1. ASSUME NEW s \in 1 .. n + 1
        PROVE  a.calls[s].at = IF s \in Delivered(r) THEN "answered" ELSE "cached"
    <3>1. CASE s \in 1 .. n
      BY <1>3, <1>6, <1>7, <3>1
    <3>2. CASE s = n + 1
      <4>1. s \notin Delivered(r)
        BY <1>5, <1>6, <1>7, <3>2
      <4>. QED
        BY <1>3, <3>2, <4>1
    <3>. QED
      BY <1>5, <3>1, <3>2
  <2>. QED
    BY <2>1
<1>8. CASE a.replaying /\ MatchesIssue(a, key)
  <2>. DEFINE b == [a EXCEPT !.cursor = @ + 1]
  <2>1. q = PumpReplay(b)
    BY <1>2, <1>8
  <2>2. /\ Sound(b) /\ b.calls = a.calls /\ b.cursor = a.cursor + 1
        /\ b.replaying = a.replaying /\ b.inbox = a.inbox /\ b.idles = a.idles
        /\ b.journal = a.journal
    BY <1>3, CursorSound
  <2>. HIDE DEF b
  <2>3. r.cursor <= Len(stream) /\ stream[r.cursor].t = "issue"
    BY <1>3, <1>8 DEF MatchesIssue
  <2>4. stream[r.cursor].seq = n + 1
    <3>1. stream[r.cursor].seq \in Nat \ {0}
      <4>1. r.cursor \in DOMAIN stream
        BY <1>1, <2>3, StreamFacts
      <4>2. stream[r.cursor] \in Entry
        BY <4>1, StreamFacts
      <4>. QED
        BY <2>3, <4>2, IssueFields
    <3>2. /\ stream[r.cursor].seq \notin 1 .. n
          /\ \A i \in 1 .. stream[r.cursor].seq - 1 : i \in 1 .. n
      BY <1>1, <1>3, <1>6, <1>8, <2>3, WalkedSoFar
    <3>3. n + 1 \in 1 .. stream[r.cursor].seq - 1 => n + 1 \in 1 .. n
      BY <3>2
    <3>. QED
      BY <1>1, <3>1, <3>2, <3>3
  <2>5. Matched(b) = Matched(r) \cup {n + 1} /\ Delivered(b) = Delivered(r)
    <3>1. b.cursor = r.cursor + 1 /\ stream[r.cursor].t # "done"
      BY <1>3, <2>2, <2>3
    <3>. QED
      BY <1>1, <2>3, <2>4, <3>1, CursorMoves
  <2>6. Matched(b) = DOMAIN b.calls
    BY <1>3, <1>5, <1>6, <1>8, <2>2, <2>5
  <2>7. b.cursor <= Len(stream) + 1
    BY <1>1, <1>3, <2>2, <2>3, StreamFacts
  <2>8. Replays(b)
    BY <1>3, <1>6, <1>7, <1>8, <2>2, <2>5, <2>6, <2>7 DEF Replays
  <2>9. Going(q) /\ (b.inbox # <<>> => q.inbox # <<>>)
    BY <1>8, <2>1, <2>2, <2>8, PumpReplaySound
  <2>. QED
    BY <1>3, <2>2, <2>9 DEF q
<1>9. CASE a.replaying /\ ~MatchesIssue(a, key)
  <2>. DEFINE b == Diverge(a)
  <2>1. q = DispatchLive(b, n + 1)
    BY <1>2, <1>3, <1>9
  <2>2. Midway(a)
    <3>1. Matched(a) \subseteq DOMAIN a.calls
      BY <1>3, <1>4, <1>5, <1>6, <1>9
    <3>2. \A s \in DOMAIN a.calls :
            a.calls[s].at = IF s \in Delivered(a) THEN "answered" ELSE "cached"
      BY <1>3, <1>4, <1>7, <1>9
    <3>. QED
      BY <1>3, <1>6, <1>9, <3>1, <3>2 DEF Midway
  <2>3. Sound(b) /\ Leaves(a, b) /\ Lively(b) /\ Diverged(b)
    BY <1>3, <2>2, DivergeSound
  <2>. HIDE DEF b
  <2>4. Matched(b) = 1 .. n /\ DOMAIN b.calls = 1 .. n + 1 /\ ~b.replaying
    <3>1. Matched(b) = Matched(a)
      BY <2>3, SameWalk DEF Leaves
    <3>. QED
      BY <1>3, <1>4, <1>6, <1>9, <2>3, <3>1 DEF Leaves
  <2>5. \A s \in 1 .. n : Dealt(b.calls[s], s)
    BY <2>3, <2>4 DEF Diverged
  <2>6. n + 1 \in DOMAIN b.calls /\ b.calls[n + 1].at = "cached"
    BY <1>5, <2>3, <2>4 DEF Diverged
  <2>7. Matched(b) \subseteq DOMAIN b.calls \ {n + 1}
    BY <1>5, <2>4
  <2>8. \A s \in DOMAIN b.calls \ {n + 1} : b.calls[s].at # "cached"
    BY <1>5, <2>4, <2>5 DEF Dealt
  <2>9. \A s \in Matched(b) : b.calls[s].at \in Execution \cup {"queued"} /\ HasDone(s)
          => RerunsOnResume(DoneOf(s))
    BY <2>4, <2>5 DEF Dealt
  <2>10. Going(q) /\ (b.inbox # <<>> => q.inbox # <<>>)
    BY <2>1, <2>3, <2>4, <2>6, <2>7, <2>8, <2>9, DispatchRuns
  <2>. QED
    BY <1>3, <2>3, <2>10 DEF Leaves, q
<1>10. CASE ~a.replaying
  <2>1. q = DispatchLive(a, n + 1)
    BY <1>2, <1>3, <1>10
  <2>2. Runs(r) /\ Lively(r)
    BY <1>1, <1>3, <1>10, BegunRuns DEF Going
  <2>3. Lively(a)
    <3>1. CASE Executing(r) # {}
      <4>1. PICK s \in Executing(r) : TRUE
        BY <3>1
      <4>2. s \in DOMAIN r.calls /\ r.calls[s].at \in Execution
        BY DEF Executing
      <4>3. s \in DOMAIN a.calls /\ a.calls[s].at \in Execution
        BY <1>3, <1>5, <4>2
      <4>. QED
        BY <4>3 DEF Lively, Executing
    <3>2. CASE \A s \in DOMAIN r.calls : r.calls[s].at # "queued"
      BY <1>3, <1>5, <3>2 DEF Lively
    <3>. QED
      BY <2>2, <3>1, <3>2 DEF Lively
  <2>4. Matched(a) \subseteq 1 .. n /\ n + 1 \in DOMAIN a.calls
    BY <1>3, <1>4, <1>5, <2>2 DEF Runs
  <2>5. Matched(a) \subseteq DOMAIN a.calls \ {n + 1}
    BY <1>3, <1>5, <2>4
  <2>6. \A s \in DOMAIN a.calls \ {n + 1} : a.calls[s].at # "cached"
    BY <1>3, <1>5, <2>2 DEF Runs
  <2>7. \A s \in Matched(a) : a.calls[s].at \in Execution \cup {"queued"} /\ HasDone(s)
          => RerunsOnResume(DoneOf(s))
    BY <1>3, <1>4, <2>2, <2>4 DEF Runs
  <2>8. Going(q) /\ (a.inbox # <<>> => q.inbox # <<>>)
    BY <1>3, <1>10, <2>1, <2>3, <2>4, <2>5, <2>6, <2>7, DispatchRuns
  <2>. QED
    BY <1>3, <2>8 DEF q
<1>. QED
  BY <1>8, <1>9, <1>10

(* A message is taken from the inbox.                                       *)
Takes(r, q, inbox, idles) ==
  /\ q \in Runtime /\ q.calls = r.calls /\ q.inbox = inbox /\ q.idles = idles
  /\ q.cursor = r.cursor /\ q.replaying = r.replaying /\ q.sent = r.sent
  /\ q.journal = r.journal /\ (Ending(q) <=> Ending(r))
  /\ Recorded(r) => Recorded(q)
  /\ Replays(r) => Replays(q)
  /\ Runs(r) => Runs(q)

LEMMA MessageTaken ==
  ASSUME NEW r \in Runtime, NEW inbox \in Seq(Message), NEW idles \in Nat,
         NEW q, q = [r EXCEPT !.inbox = inbox, !.idles = idles]
  PROVE  Takes(r, q, inbox, idles)
<1>1. /\ q \in Runtime /\ q.journal = r.journal /\ q.replaying = r.replaying
      /\ q.cursor = r.cursor /\ q.calls = r.calls /\ q.sent = r.sent
      /\ q.inbox = inbox /\ q.idles = idles
      /\ q.stopping = r.stopping /\ q.outcome = r.outcome
  BY DEF Runtime
<1>2. (Ending(q) <=> Ending(r))
  BY <1>1 DEF Ending, Finished
<1>3. Recorded(r) => Recorded(q)
  BY <1>1 DEF Recorded, Answered
<1>4. Matched(q) = Matched(r) /\ Delivered(q) = Delivered(r)
  BY <1>1, SameWalk
<1>5. Replays(r) => Replays(q)
  BY <1>1, <1>4 DEF Replays
<1>6. Executing(q) = Executing(r)
  BY <1>1 DEF Executing
<1>7. Runs(r) => Runs(q)
  BY <1>1, <1>2, <1>4, <1>6 DEF Runs
<1>. QED
  BY <1>1, <1>2, <1>3, <1>5, <1>7 DEF Takes

(* The guest is idle: a message less, and an idle less to come.             *)
LEMMA OnIdleActive ==
  ASSUME version \in Versions, StreamOK, NEW r, Active(r), ~Ending(r),
         r.inbox # <<>>, Head(r.inbox).m = "idle"
  PROVE  Active(OnIdle([r EXCEPT !.inbox = Tail(@)]))
<1>. DEFINE inbox == Tail(r.inbox)
            b == [r EXCEPT !.inbox = Tail(@)]
            idles == IF b.idles = 0 THEN 0 ELSE b.idles - 1
            q == [b EXCEPT !.idles = IF @ = 0 THEN 0 ELSE @ - 1]
            next == IF q.replaying THEN PumpReplay(q) ELSE q
<1>1. Sound(r) /\ (IF r.replaying THEN Replays(r) /\ r.idles > 0 ELSE Runs(r))
  BY ActiveGoing DEF Going
<1>2. r \in Runtime /\ Recorded(r) /\ Heard(r) /\ Len(r.calls) <= MaxCalls
  BY <1>1 DEF Sound
<1>3. r.inbox \in Seq(Message) /\ r.idles \in Nat
  BY <1>2, RuntimeFields
<1>4. /\ inbox \in Seq(Message)
      /\ Cardinality(Idling(inbox)) + 1 >= Cardinality(Idling(r.inbox))
      /\ EndComes(r.inbox) => EndComes(inbox)
      /\ inbox # <<>> => inbox[Len(inbox)] = r.inbox[Len(r.inbox)]
  BY <1>3, HearingTakes
<1>. HIDE DEF inbox
<1>5. b = [r EXCEPT !.inbox = inbox] /\ b.idles = r.idles
  BY <1>2 DEF inbox, Runtime
<1>6. idles \in Nat /\ (idles = 0 \/ idles + 1 = r.idles)
  BY <1>3, <1>5
<1>7. q = [b EXCEPT !.idles = idles]
  BY DEF q
<1>. HIDE DEF b, idles, q
<1>8. q = [r EXCEPT !.inbox = inbox, !.idles = idles]
  BY <1>2, <1>5, <1>7 DEF Runtime
<1>9. /\ q \in Runtime /\ q.calls = r.calls /\ q.inbox = inbox /\ q.idles = idles
      /\ q.cursor = r.cursor /\ q.replaying = r.replaying /\ q.sent = r.sent
      /\ q.journal = r.journal /\ (Ending(q) <=> Ending(r))
      /\ Recorded(r) => Recorded(q)
      /\ Replays(r) => Replays(q)
      /\ Runs(r) => Runs(q)
  <2>. r \in Runtime /\ inbox \in Seq(Message) /\ idles \in Nat
    BY <1>2, <1>4, <1>6
  <2>1. Takes(r, q, inbox, idles)
    BY <1>8, MessageTaken
  <2>. QED
    BY <2>1 DEF Takes
<1>10. EndComes(inbox) \/ (idles <= Cardinality(Idling(inbox)) /\ ~IsOver(r.sent))
  <2>1. Cardinality(Idling(inbox)) \in Nat /\ Cardinality(Idling(r.inbox)) \in Nat
    BY <1>3, <1>4, IdlesAreFinite
  <2>2. EndComes(r.inbox) \/ (r.idles <= Cardinality(Idling(r.inbox)) /\ ~IsOver(r.sent))
    BY <1>2 DEF Heard
  <2>. QED
    BY <2>1, <2>2, <1>3, <1>4, <1>6
<1>11. Heard(q)
  <2>1. \A s \in DOMAIN q.calls : q.calls[s].at # "stopped" /\ q.calls[s].abort \notin {"stop", "quit"}
    BY <1>2, <1>9 DEF Heard
  <2>2. q.inbox # <<>> => q.inbox[Len(q.inbox)].m # "call"
    BY <1>2, <1>4, <1>9 DEF Heard
  <2>. QED
    BY <2>1, <2>2, <1>9, <1>10 DEF Heard
<1>12. Sound(q)
  BY <1>2, <1>9, <1>11 DEF Sound
<1>13. Going(next)
  <2>1. CASE q.replaying
    <3>1. Replays(q)
      BY <2>1, <1>1, <1>9
    <3>. QED
      BY <2>1, <3>1, <1>12, PumpReplaySound
  <2>2. CASE ~q.replaying
    <3>1. Runs(q)
      BY <2>2, <1>1, <1>9
    <3>. QED
      BY <2>2, <3>1, <1>12 DEF Going
  <2>. QED
    BY <2>1, <2>2
<1>14. OnIdle(b) = CheckDeadlock(next)
  BY DEF OnIdle, q, next
<1>. HIDE DEF next
<1>15. Active(OnIdle(b))
  BY <1>13, <1>14, CheckDeadlockActive
<1>. QED
  BY <1>15 DEF b

(* Whatever the sandbox says.                                               *)
LEMMA HearsActive ==
  ASSUME version \in Versions, version' = version, source' = source, StreamOK, Active(rt), Hears
  PROVE  Active(rt')
<1>. DEFINE inbox == Tail(rt.inbox)
            r == [rt EXCEPT !.inbox = Tail(@)]
            message == Head(rt.inbox)
<1>1. /\ rt.inbox # <<>> /\ ~Ending(rt)
      /\ message.m = "call" => Len(rt.calls) < MaxCalls
      /\ rt' = CASE message.m = "call" -> OnCall(r, message.key)
                 [] message.m = "idle" -> OnIdle(r)
                 [] OTHER              -> OnDone(r, message.m)
  BY DEF Hears, Active
<1>2. Sound(rt) /\ (IF rt.replaying THEN Replays(rt) /\ rt.idles > 0 ELSE Runs(rt))
  BY <1>1, ActiveGoing DEF Going
<1>3. rt \in Runtime /\ Recorded(rt) /\ Heard(rt) /\ Len(rt.calls) <= MaxCalls
  BY <1>2 DEF Sound
<1>4. rt.inbox \in Seq(Message) /\ rt.idles \in Nat
  BY <1>3, RuntimeFields
<1>5. /\ inbox \in Seq(Message) /\ message \in Message
      /\ message.m # "idle" => Cardinality(Idling(inbox)) >= Cardinality(Idling(rt.inbox))
      /\ message.m \notin {"complete", "failed"} /\ EndComes(rt.inbox) => EndComes(inbox)
      /\ inbox # <<>> => inbox[Len(inbox)] = rt.inbox[Len(rt.inbox)]
      /\ inbox = <<>> => message = rt.inbox[Len(rt.inbox)]
  BY <1>1, <1>4, HearingTakes
<1>6. /\ message.m \in {"call", "idle", "complete", "failed"}
      /\ message.m = "call" => message.key \in Keys
  BY <1>5, MessageFields
<1>. HIDE DEF inbox, message
<1>7. r = [rt EXCEPT !.inbox = inbox, !.idles = rt.idles]
  BY <1>3 DEF inbox, Runtime
<1>. HIDE DEF r
<1>8. /\ r \in Runtime /\ r.calls = rt.calls /\ r.inbox = inbox /\ r.idles = rt.idles
      /\ r.cursor = rt.cursor /\ r.replaying = rt.replaying /\ r.sent = rt.sent
      /\ r.journal = rt.journal /\ (Ending(r) <=> Ending(rt))
      /\ Recorded(rt) => Recorded(r)
      /\ Replays(rt) => Replays(r)
      /\ Runs(rt) => Runs(r)
  <2>. rt \in Runtime /\ inbox \in Seq(Message) /\ rt.idles \in Nat
    BY <1>3, <1>4, <1>5
  <2>1. Takes(rt, r, inbox, rt.idles)
    BY <1>7, MessageTaken
  <2>. QED
    BY <2>1 DEF Takes
<1>9. CASE message.m = "call"
  <2>1. inbox # <<>>
    BY <1>1, <1>3, <1>5, <1>9 DEF Heard
  <2>2. EndComes(inbox) \/ (rt.idles <= Cardinality(Idling(inbox)) /\ ~IsOver(rt.sent))
    <3>1. Cardinality(Idling(inbox)) \in Nat /\ Cardinality(Idling(rt.inbox)) \in Nat
      BY <1>4, <1>5, IdlesAreFinite
    <3>2. EndComes(rt.inbox) \/ (rt.idles <= Cardinality(Idling(rt.inbox)) /\ ~IsOver(rt.sent))
      BY <1>3 DEF Heard
    <3>. QED
      BY <3>1, <3>2, <1>4, <1>5, <1>9
  <2>3. Heard(r)
    <3>1. \A s \in DOMAIN r.calls : r.calls[s].at # "stopped" /\ r.calls[s].abort \notin {"stop", "quit"}
      BY <1>3, <1>8 DEF Heard
    <3>2. r.inbox # <<>> => r.inbox[Len(r.inbox)].m # "call"
      BY <1>3, <1>1, <1>5, <1>8 DEF Heard
    <3>. QED
      BY <3>1, <3>2, <2>2, <1>8 DEF Heard
  <2>4. Sound(r)
    BY <2>3, <1>1, <1>3, <1>8 DEF Sound
  <2>5. Going(r) /\ Len(r.calls) < MaxCalls
    BY <2>4, <1>1, <1>2, <1>8, <1>9 DEF Going
  <2>6. Going(OnCall(r, message.key)) /\ OnCall(r, message.key).inbox # <<>>
    BY <2>1, <2>5, <1>6, <1>8, <1>9, OnCallGoing
  <2>7. rt' = OnCall(r, message.key)
    BY <1>1, <1>9
  <2>. QED
    BY <2>6, <2>7, GoingActive
<1>10. CASE message.m = "idle"
  <2>1. Active(OnIdle(r))
    BY <1>1, <1>10, OnIdleActive DEF r, message
  <2>2. rt' = OnIdle(r)
    BY <1>1, <1>10
  <2>. QED
    BY <2>1, <2>2
<1>11. CASE message.m \in {"complete", "failed"}
  <2>1. rt' = Finish(r, message.m)
    BY <1>1, <1>11 DEF OnDone
  <2>2. /\ Len(r.calls) <= MaxCalls /\ Recorded(r)
        /\ IF r.replaying THEN Replays(r) ELSE Runs(r)
    BY <1>2, <1>3, <1>8
  <2>3. message.m \in {"complete", "failed", "stuck"}
    BY <1>11
  <2>. QED
    BY <2>1, <2>2, <2>3, <1>8, FinishActive
<1>. QED
  BY <1>6, <1>9, <1>10, <1>11

(* A step of agents that answers nobody keeps the invariant.                *)
LEMMA TouchActive ==
  ASSUME NEW r, Active(r), NEW q, OnlyCalls(r, q),
         \A s \in DOMAIN r.calls :
           q.calls[s].at = r.calls[s].at
             \/ (q.calls[s].at \in Execution /\ r.calls[s].at \in Execution),
         ~Ending(r) => \A s \in DOMAIN r.calls : Unstopped(q.calls[s])
  PROVE  Active(q)
<1>1. /\ r \in Runtime /\ Len(r.calls) <= MaxCalls /\ Recorded(r)
      /\ IF r.replaying THEN Replays(r) ELSE Runs(r)
  BY DEF Active
<1>2. /\ q \in Runtime /\ DOMAIN q.calls = DOMAIN r.calls /\ Len(q.calls) = Len(r.calls)
      /\ q.sent = r.sent /\ q.inbox = r.inbox /\ q.idles = r.idles /\ q.cursor = r.cursor
      /\ q.replaying = r.replaying /\ q.stopping = r.stopping /\ q.outcome = r.outcome
      /\ q.journal = r.journal
  BY DEF OnlyCalls
<1>3. Ending(q) <=> Ending(r)
  BY <1>2 DEF Ending, Finished
<1>4. Answered(q) = Answered(r) /\ Executing(q) = Executing(r)
  BY <1>2 DEF Answered, Executing, Execution
<1>5. Recorded(q)
  BY <1>1, <1>4, TouchRecorded
<1>6. Matched(q) = Matched(r) /\ Delivered(q) = Delivered(r)
  BY <1>2, SameWalk
<1>7. CASE r.replaying
  <2>1. \A s \in DOMAIN q.calls : q.calls[s].at = IF s \in Delivered(q) THEN "answered" ELSE "cached"
    BY <1>1, <1>2, <1>6, <1>7 DEF Replays, Execution
  <2>2. Replays(q)
    BY <2>1, <1>1, <1>2, <1>6, <1>7 DEF Replays
  <2>3. CASE Ending(r)
    BY <2>2, <2>3, <1>1, <1>2, <1>3, <1>5, <1>7 DEF Active
  <2>4. CASE ~Ending(r)
    <3>1. Sound(q)
      BY <2>4, <1>1, TouchSound, <1>4 DEF Sound, Active
    <3>2. Going(q)
      BY <3>1, <2>2, <2>4, <1>2, <1>7 DEF Going, Active
    <3>3. ~IsStuck(q)
      BY <1>2, <1>7 DEF IsStuck
    <3>. QED
      BY <3>2, <3>3, GoingActive
  <2>. QED
    BY <2>3, <2>4
<1>8. CASE ~r.replaying
  <2>1. Begun(r)
    BY <1>1, <1>8, BegunRuns
  <2>2. \A s \in DOMAIN r.calls : Moves(r.calls[s], q.calls[s])
    BY DEF Moves, Execution
  <2>3. Begun(q)
    BY <2>1, <2>2, <1>2, BegunStays
  <2>4. Ending(q) \/ Lively(q)
    <3>1. Ending(r) \/ Lively(r)
      BY <1>1, <1>8, BegunRuns
    <3>. QED
      BY <3>1, <1>2, <1>3, <1>4 DEF Lively, Execution
  <2>5. Runs(q)
    BY <2>3, <2>4, BegunRuns
  <2>6. CASE Ending(r)
    BY <2>5, <2>6, <1>1, <1>2, <1>3, <1>5, <1>8 DEF Active
  <2>7. CASE ~Ending(r)
    <3>1. Sound(q)
      BY <2>7, <1>1, TouchSound, <1>4 DEF Sound, Active
    <3>2. Going(q)
      BY <3>1, <2>5, <1>2, <1>8 DEF Going
    <3>3. q.inbox # <<>> \/ ~IsStuck(q)
      <4>1. r.inbox # <<>> \/ ~IsStuck(r)
        BY <2>7 DEF Active
      <4>2. (\A s \in DOMAIN q.calls : q.calls[s].at = "answered")
              => \A s \in DOMAIN r.calls : r.calls[s].at = "answered"
        BY <1>2 DEF Execution
      <4>. QED
        BY <4>1, <4>2, <1>2, <1>3 DEF IsStuck
    <3>. QED
      BY <3>2, <3>3, GoingActive
  <2>. QED
    BY <2>6, <2>7
<1>9. r.replaying \in BOOLEAN
  BY <1>1, RuntimeFields
<1>. QED
  BY <1>7, <1>8

(* Whoever has a running or waiting agent is past its replay.               *)
LEMMA AgentsRun ==
  ASSUME NEW r, Active(r), NEW seq \in DOMAIN r.calls,
         r.calls[seq].at \in Execution \cup {"queued"}
  PROVE  ~r.replaying /\ Runs(r) /\ Begun(r)
<1>1. ~r.replaying
  <2>1. r.replaying => r.calls[seq].at \in {"answered", "cached"}
    BY DEF Active, Replays
  <2>. QED
    BY <2>1 DEF Execution
<1>2. Runs(r)
  BY <1>1 DEF Active
<1>. QED
  BY <1>1, <1>2, BegunRuns

(* Usage of a running agent.                                                *)
LEMMA UsesActive ==
  ASSUME NEW r, Active(r), NEW seq \in DOMAIN r.calls, r.calls[seq].at = "working"
  PROVE  Active(EnforceCeilings([r EXCEPT !.calls[seq].used = 1]))
<1>. DEFINE c == [r.calls[seq] EXCEPT !.used = 1]
            b == [r EXCEPT !.calls[seq].used = 1]
            q == EnforceCeilings(b)
<1>1. r \in Runtime /\ r.calls[seq] \in Call
  BY RuntimeFields DEF Active
<1>2. c \in Call /\ c.at = r.calls[seq].at /\ c.abort = r.calls[seq].abort
  BY <1>1 DEF Call
<1>. HIDE DEF c
<1>3. b = [r EXCEPT !.calls[seq] = c]
  BY DEF c
<1>. HIDE DEF b
<1>4. /\ OnlyCalls(r, b)
      /\ \A s \in DOMAIN r.calls : b.calls[s] = IF s = seq THEN c ELSE r.calls[s]
  BY <1>1, <1>2, <1>3, OneCallTouch
<1>5. b \in Runtime /\ DOMAIN b.calls = DOMAIN r.calls
  BY <1>4 DEF OnlyCalls
<1>6. /\ OnlyCalls(b, q)
      /\ \A s \in DOMAIN b.calls :
           /\ q.calls[s].at = b.calls[s].at
           /\ q.calls[s].abort = b.calls[s].abort \/ q.calls[s].abort = "ceiling"
  BY <1>5, EnforcingTouches
<1>. HIDE DEF q
<1>7. OnlyCalls(r, q)
  BY <1>4, <1>6 DEF OnlyCalls
<1>8. \A s \in DOMAIN r.calls : /\ q.calls[s].at = r.calls[s].at
                                /\ q.calls[s].abort \in {r.calls[s].abort, "ceiling"}
  BY <1>2, <1>4, <1>5, <1>6
<1>9. ~Ending(r) => \A s \in DOMAIN r.calls : Unstopped(q.calls[s])
  BY <1>8 DEF Active, Heard, Unstopped
<1>10. Active(q)
  BY <1>7, <1>8, <1>9, TouchActive
<1>. QED
  BY <1>10 DEF q, b

(* An agent reports, or is aborted by the user.                             *)
LEMMA SetsActive ==
  ASSUME NEW r, Active(r), NEW seq \in DOMAIN r.calls, r.calls[seq].at \in Execution,
         NEW c \in Call, c.at \in Execution, c.abort \in {r.calls[seq].abort, "skip"},
         NEW q, q = [r EXCEPT !.calls[seq] = c]
  PROVE  Active(q)
<1>1. r \in Runtime
  BY DEF Active
<1>2. /\ OnlyCalls(r, q)
      /\ \A s \in DOMAIN r.calls : q.calls[s] = IF s = seq THEN c ELSE r.calls[s]
  BY <1>1, OneCallTouch
<1>3. \A s \in DOMAIN r.calls :
        q.calls[s].at = r.calls[s].at
          \/ (q.calls[s].at \in Execution /\ r.calls[s].at \in Execution)
  BY <1>2
<1>4. ~Ending(r) => \A s \in DOMAIN r.calls : Unstopped(q.calls[s])
  <2>1. ~Ending(r) => \A s \in DOMAIN r.calls : Unstopped(r.calls[s])
    BY DEF Active, Heard, Unstopped
  <2>2. c.at # "stopped"
    BY DEF Execution
  <2>. QED
    BY <2>1, <2>2, <1>2 DEF Unstopped
<1>. QED
  BY <1>2, <1>3, <1>4, TouchActive

(* What an agent used.                                                      *)
LEMMA UseOfCall ==
  ASSUME NEW c \in Call
  PROVE  UseOf(c) \in Nat
<1>1. c.used \in 0 .. 1
  BY CallFields
<1>. QED
  BY <1>1 DEF UseOf

(* A call that was answered in a live run.                                  *)
LEMMA TookGoes ==
  ASSUME NEW r, Runs(r), ~r.replaying, NEW seq \in DOMAIN r.calls,
         r.calls[seq].at \in Execution \cup {"queued"}, NEW a, Took(r, seq, a)
  PROVE  /\ Begun(a) /\ ~a.replaying /\ Sound(a) /\ a.inbox # <<>>
         /\ r.calls[seq].at = "queued" /\ Lively(r) => Lively(a)
<1>1. /\ Sound(a) /\ Follows(r, a) /\ a.inbox # <<>>
      /\ \A s \in DOMAIN r.calls : a.calls[s].at = IF s = seq THEN "answered" ELSE r.calls[s].at
  BY DEF Took
<1>2. /\ DOMAIN a.calls = DOMAIN r.calls /\ a.cursor = r.cursor /\ a.replaying = r.replaying
  BY <1>1 DEF Follows
<1>3. \A s \in DOMAIN r.calls : Moves(r.calls[s], a.calls[s])
  BY <1>1 DEF Moves
<1>4. Begun(a)
  BY <1>2, <1>3, BegunRuns, BegunStays
<1>5. ASSUME r.calls[seq].at = "queued", Lively(r)  PROVE Lively(a)
  <2>1. PICK s \in DOMAIN r.calls : r.calls[s].at \in Execution
    BY <1>5 DEF Lively, Executing
  <2>2. s # seq
    BY <2>1, <1>5 DEF Execution
  <2>3. s \in Executing(a)
    BY <2>1, <2>2, <1>1, <1>2 DEF Executing
  <2>. QED
    BY <2>3 DEF Lively
<1>. QED
  BY <1>1, <1>2, <1>4, <1>5

(* An agent ends while the run goes on: it is answered, and the next start. *)
LEMMA EndsGoing ==
  ASSUME version \in Versions, NEW r, Active(r), ~Ending(r), NEW seq \in DOMAIN r.calls,
         r.calls[seq].at \in Execution
  PROVE  Active(PumpLive(Settled(r, seq)))
<1>. DEFINE call == r.calls[seq]
            a == Settled(r, seq)
            q == PumpLive(a)
<1>1. Going(r) /\ Sound(r) /\ ~r.replaying /\ Runs(r) /\ Begun(r)
  BY ActiveGoing, AgentsRun DEF Going
<1>2. r \in Runtime /\ Heard(r)
  BY <1>1 DEF Sound
<1>3. call \in Call
  BY <1>2, RuntimeFields
<1>4. UseOf(call) \in Nat
  BY <1>3, UseOfCall
<1>5. call.value \in Values \cup {Null} /\ call.abort \in {"none", "ceiling", "skip"}
  <2>1. call.abort \notin {"stop", "quit"}
    BY <1>2 DEF Heard
  <2>. QED
    BY <2>1, <1>3, CallFields
<1>6. \E how \in {"ok", "error", "cut"}, value \in Values \cup {Null} :
        a = Answer(r, seq, how, value, UseOf(call))
  BY <1>5 DEF Settled
<1>7. PICK how \in {"ok", "error", "cut"}, value \in Values \cup {Null} :
        a = Answer(r, seq, how, value, UseOf(call))
  BY <1>6
<1>8. r.calls[seq].at # "answered"
  BY DEF Execution
<1>. HIDE DEF call, a
<1>9. Took(r, seq, a)
  BY <1>1, <1>4, <1>7, <1>8, AnswerSound
<1>10. Begun(a) /\ ~a.replaying /\ Sound(a) /\ a.inbox # <<>>
  BY <1>1, <1>9, TookGoes
<1>11. /\ Sound(q) /\ Follows(a, q) /\ Lively(q)
       /\ \A s \in DOMAIN a.calls : GetsOn(a.calls[s], q.calls[s])
  BY <1>10, PumpLiveSound
<1>. HIDE DEF q
<1>12. /\ DOMAIN q.calls = DOMAIN a.calls /\ q.cursor = a.cursor
       /\ q.replaying = a.replaying /\ q.inbox # <<>>
  BY <1>10, <1>11 DEF Follows
<1>13. \A s \in DOMAIN a.calls : Moves(a.calls[s], q.calls[s])
  BY <1>11 DEF GetsOn, Moves
<1>14. Begun(q)
  BY <1>10, <1>12, <1>13, BegunStays
<1>15. Runs(q)
  BY <1>11, <1>14, BegunRuns
<1>16. Going(q)
  BY <1>10, <1>11, <1>12, <1>15 DEF Going
<1>17. Active(q)
  BY <1>12, <1>16, GoingActive
<1>. QED
  BY <1>17 DEF q, a

(* An agent that ends when the run has: what it used is recorded.           *)
LEMMA AbortedEnding ==
  ASSUME NEW r \in Runtime, Recorded(r), Ending(r), NEW seq \in DOMAIN r.calls,
         r.calls[seq].at \in Execution, NEW use, use \in Nat,
         NEW q, q = SettleAborted(r, seq, use)
  PROVE  /\ q \in Runtime /\ Recorded(q) /\ Follows(r, q) /\ q.inbox = r.inbox
         /\ q.stopping = r.stopping /\ q.outcome = r.outcome
         /\ \A s \in DOMAIN r.calls : q.calls[s].at = IF s = seq THEN "stopped" ELSE r.calls[s].at
<1>. DEFINE c == [r.calls[seq] EXCEPT !.at = "stopped", !.used = 0]
            b == [r EXCEPT !.calls[seq] = [@ EXCEPT !.at = "stopped", !.used = 0]]
<1>1. r.calls[seq] \in Call
  BY RuntimeFields
<1>2. c \in Call /\ c.at = "stopped"
  BY <1>1, CallIsOver
<1>. HIDE DEF c
<1>3. b = [r EXCEPT !.calls[seq] = c]
  BY DEF c
<1>4. q = Abandon(b, use)
  BY DEF SettleAborted
<1>. HIDE DEF b
<1>5. /\ OnlyCalls(r, b)
      /\ \A s \in DOMAIN r.calls : b.calls[s] = IF s = seq THEN c ELSE r.calls[s]
  BY <1>2, <1>3, OneCallTouch
<1>6. b \in Runtime /\ DOMAIN b.calls = DOMAIN r.calls
  BY <1>5 DEF OnlyCalls
<1>7. Answered(r) \subseteq Answered(b)
  <2>1. r.calls[seq].at # "answered"
    BY DEF Execution
  <2>. QED
    BY <2>1, <1>5, <1>6 DEF Answered
<1>8. Recorded(b) /\ Follows(r, b)
  BY <1>5, <1>7, TouchRecorded, TouchFollows
<1>9. /\ q \in Runtime /\ Recorded(q) /\ Follows(b, q) /\ q.calls = b.calls
      /\ q.inbox = b.inbox /\ q.stopping = b.stopping /\ q.outcome = b.outcome
  BY <1>4, <1>6, <1>8, AbandonKeeps
<1>10. Follows(r, q)
  BY <1>8, <1>9, FollowsOn
<1>11. b.inbox = r.inbox /\ b.stopping = r.stopping /\ b.outcome = r.outcome
  BY <1>5 DEF OnlyCalls
<1>. QED
  BY <1>2, <1>5, <1>9, <1>10, <1>11

LEMMA EndsEnding ==
  ASSUME NEW r, Active(r), Ending(r), NEW seq \in DOMAIN r.calls,
         r.calls[seq].at \in Execution
  PROVE  Active(PumpLive(Settled(r, seq)))
<1>. DEFINE call == r.calls[seq]
            a == Settled(r, seq)
<1>1. /\ r \in Runtime /\ Recorded(r) /\ Len(r.calls) <= MaxCalls /\ r.inbox = <<>>
      /\ IF r.replaying THEN Replays(r) ELSE Runs(r)
  BY DEF Active
<1>2. call \in Call
  BY <1>1, RuntimeFields
<1>3. UseOf(call) \in Nat
  BY <1>2, UseOfCall
<1>4. \/ \E how, value : a = Answer(r, seq, how, value, UseOf(call))
      \/ a = SettleAborted(r, seq, UseOf(call))
  BY DEF Settled
<1>. HIDE DEF call, a
<1>5. /\ a \in Runtime /\ Recorded(a) /\ Follows(r, a) /\ a.inbox = r.inbox
      /\ a.stopping = r.stopping /\ a.outcome = r.outcome
      /\ \A s \in DOMAIN r.calls : Moves(r.calls[s], a.calls[s])
  <2>1. CASE \E how, value : a = Answer(r, seq, how, value, UseOf(call))
    <3>1. PICK how, value : a = Answer(r, seq, how, value, UseOf(call))
      BY <2>1
    <3>2. /\ OnlyCalls(r, a) /\ Recorded(a)
          /\ \A s \in DOMAIN r.calls :
               a.calls[s].at = IF s = seq THEN "answered" ELSE r.calls[s].at
      BY <3>1, <1>1, <1>3, AnswerEnding
    <3>3. \A s \in DOMAIN r.calls : Moves(r.calls[s], a.calls[s])
      BY <3>2 DEF Moves
    <3>4. Follows(r, a)
      BY <3>2, TouchFollows
    <3>. QED
      BY <3>2, <3>3, <3>4 DEF OnlyCalls
  <2>2. CASE a = SettleAborted(r, seq, UseOf(call))
    <3>1. /\ a \in Runtime /\ Recorded(a) /\ Follows(r, a) /\ a.inbox = r.inbox
          /\ a.stopping = r.stopping /\ a.outcome = r.outcome
          /\ \A s \in DOMAIN r.calls :
               a.calls[s].at = IF s = seq THEN "stopped" ELSE r.calls[s].at
      BY <2>2, <1>1, <1>3, AbortedEnding
    <3>2. \A s \in DOMAIN r.calls : Moves(r.calls[s], a.calls[s])
      BY <3>1 DEF Moves
    <3>. QED
      BY <3>1, <3>2
  <2>. QED
    BY <1>4, <2>1, <2>2
<1>6. Ending(a)
  BY <1>5 DEF Ending, Finished
<1>7. PumpLive(a) = a
  BY <1>6 DEF PumpLive
<1>8. /\ DOMAIN a.calls = DOMAIN r.calls /\ Len(a.calls) = Len(r.calls) /\ a.cursor = r.cursor
      /\ a.replaying = r.replaying /\ (Has(a.journal, "live") => Has(r.journal, "live"))
  BY <1>5 DEF Follows
<1>9. Len(a.calls) <= MaxCalls /\ a.inbox = <<>>
  BY <1>1, <1>5, <1>8
<1>10. Active(a)
  BY <1>1, <1>5, <1>6, <1>8, <1>9, EndsActive
<1>. QED
  BY <1>7, <1>10 DEF a

(* The user skips a call that waits for a place.                            *)
LEMMA SkipsActive ==
  ASSUME version \in Versions, NEW r, Active(r), NEW seq \in DOMAIN r.calls,
         r.calls[seq].at = "queued"
  PROVE  Active(Answer(r, seq, "ok", Null, 0))
<1>. DEFINE a == Answer(r, seq, "ok", Null, 0)
<1>1. ~r.replaying /\ Runs(r) /\ r.calls[seq].at # "answered"
  BY AgentsRun
<1>2. /\ r \in Runtime /\ Recorded(r) /\ Len(r.calls) <= MaxCalls
  BY DEF Active
<1>3. CASE ~Ending(r)
  <2>1. Sound(r)
    BY <1>3, ActiveGoing DEF Going
  <2>2. "ok" \in {"ok", "error", "cut"} /\ Null \in Values \cup {Null} /\ 0 \in Nat
    OBVIOUS
  <2>3. Took(r, seq, a)
    BY <2>1, <2>2, <1>1, AnswerSound
  <2>. HIDE DEF a
  <2>4. Lively(r)
    BY <1>1, <1>3, BegunRuns
  <2>5. Begun(a) /\ ~a.replaying /\ Sound(a) /\ a.inbox # <<>> /\ Lively(a)
    BY <2>3, <2>4, <1>1, TookGoes
  <2>6. Runs(a)
    BY <2>5, BegunRuns
  <2>7. Going(a)
    BY <2>5, <2>6 DEF Going
  <2>8. Active(a)
    BY <2>5, <2>7, GoingActive
  <2>. QED
    BY <2>8 DEF a
<1>4. CASE Ending(r)
  <2>1. /\ OnlyCalls(r, a) /\ Recorded(a)
        /\ \A s \in DOMAIN r.calls : a.calls[s].at = IF s = seq THEN "answered" ELSE r.calls[s].at
    <3>. 0 \in Nat
      OBVIOUS
    <3>. QED
      BY <1>2, <1>4, AnswerEnding
  <2>. HIDE DEF a
  <2>2. \A s \in DOMAIN r.calls : Moves(r.calls[s], a.calls[s])
    BY <2>1 DEF Moves
  <2>3. /\ a \in Runtime /\ DOMAIN a.calls = DOMAIN r.calls /\ Len(a.calls) = Len(r.calls)
        /\ a.cursor = r.cursor /\ a.replaying = r.replaying /\ a.journal = r.journal
        /\ a.inbox = r.inbox
    BY <2>1 DEF OnlyCalls
  <2>4. Ending(a)
    BY <2>1, <1>4 DEF OnlyCalls, Ending, Finished
  <2>5. a.inbox = <<>> /\ Len(a.calls) <= MaxCalls
    BY <2>3, <1>2, <1>4 DEF Active
  <2>6. Active(a)
    BY <1>1, <2>1, <2>2, <2>3, <2>4, <2>5, EndsActive
  <2>. QED
    BY <2>6 DEF a
<1>. QED
  BY <1>3, <1>4

(* Whatever an agent does.                                                  *)
LEMMA AgentActive ==
  ASSUME version \in Versions, Active(rt), NEW seq, AgentStep(seq)
  PROVE  Active(rt')
<1>1. rt \in Runtime /\ \A s \in DOMAIN rt.calls : rt.calls[s] \in Call
  BY RuntimeFields DEF Active
<1>2. CASE Uses(seq)
  <2>1. /\ seq \in DOMAIN rt.calls /\ rt.calls[seq].at = "working"
        /\ rt' = EnforceCeilings([rt EXCEPT !.calls[seq].used = 1])
    BY <1>2 DEF Uses, Agent
  <2>. QED
    BY <2>1, UsesActive
<1>3. CASE Ends(seq)
  <2>1. /\ seq \in DOMAIN rt.calls /\ rt.calls[seq].at \in Execution
        /\ rt' = PumpLive(Settled(rt, seq))
    BY <1>3 DEF Ends, Agent, Execution
  <2>. QED
    BY <2>1, EndsGoing, EndsEnding
<1>4. CASE Skip(seq)
  <2>1. CASE seq \in DOMAIN rt.calls /\ rt.calls[seq].at = "queued"
             /\ rt' = Answer(rt, seq, "ok", Null, 0)
    BY <2>1, SkipsActive
  <2>2. CASE seq \in DOMAIN rt.calls /\ rt.calls[seq].at \in Execution
             /\ Sets(seq, [rt.calls[seq] EXCEPT !.abort = "skip"])
    <3>. DEFINE c == [rt.calls[seq] EXCEPT !.abort = "skip"]
    <3>1. c \in Call /\ c.at \in Execution /\ c.abort \in {rt.calls[seq].abort, "skip"}
      BY <2>2, <1>1 DEF Call
    <3>2. rt' = [rt EXCEPT !.calls[seq] = c]
      BY <2>2 DEF Sets
    <3>. HIDE DEF c
    <3>. QED
      BY <2>2, <3>1, <3>2, SetsActive
  <2>. QED
    BY <1>4, <2>1, <2>2 DEF Skip
<1>5. ASSUME NEW value \in Values, Reports(seq, value)  PROVE Active(rt')
  <2>. DEFINE c == [rt.calls[seq] EXCEPT !.at = "over", !.value = value]
  <2>1. /\ seq \in DOMAIN rt.calls /\ rt.calls[seq].at = "working"
        /\ Sets(seq, c)
    BY <1>5 DEF Reports, Agent
  <2>2. c \in Call /\ c.at \in Execution /\ c.abort \in {rt.calls[seq].abort, "skip"}
    BY <2>1, <1>1 DEF Call, Execution
  <2>3. rt' = [rt EXCEPT !.calls[seq] = c] /\ rt.calls[seq].at \in Execution
    BY <2>1 DEF Sets, Execution
  <2>. HIDE DEF c
  <2>. QED
    BY <2>1, <2>2, <2>3, SetsActive
<1>. QED
  BY <1>2, <1>3, <1>4, <1>5 DEF AgentStep

-----------------------------------------------------------------------------
(* The driver.                                                              *)

(* A run that is stopped, cancelled or suspended ends at once.              *)
LEMMA StopActive ==
  ASSUME Active(rt), NEW reason, phase = "active", Stop(reason)
  PROVE  Active(rt')
<1>1. CASE ~Finished(rt)
  <2>1. rt' = [rt EXCEPT !.stopping = TRUE, !.inbox = <<>>]
    BY <1>1 DEF Stop
  <2>2. /\ rt \in Runtime /\ Recorded(rt) /\ Len(rt.calls) <= MaxCalls
        /\ IF rt.replaying THEN Replays(rt) ELSE Runs(rt)
    BY DEF Active
  <2>3. /\ rt' \in Runtime /\ rt'.calls = rt.calls /\ rt'.cursor = rt.cursor
        /\ rt'.replaying = rt.replaying /\ rt'.journal = rt.journal /\ rt'.sent = rt.sent
        /\ rt'.inbox = <<>> /\ rt'.stopping = TRUE
    <3>1. <<>> \in Seq(Message) /\ "stopped" \in {"none", "stopped", "complete", "failed", "stuck"}
      OBVIOUS
    <3>2. rt \in Runtime
      BY <2>2
    <3>. QED
      BY ONLY <3>1, <3>2, <2>1 DEF Runtime
  <2>4. Recorded(rt')
    BY <2>2, <2>3 DEF Recorded, Answered
  <2>5. Ending(rt')
    BY <2>3 DEF Ending
  <2>6. \A s \in DOMAIN rt.calls : Moves(rt.calls[s], rt'.calls[s])
    BY <2>3 DEF Moves
  <2>. QED
    BY <2>2, <2>3, <2>4, <2>5, <2>6, EndsActive
<1>2. CASE Finished(rt)
  <2>1. rt' = rt
    BY <1>2 DEF Stop
  <2>. QED
    BY <2>1
<1>. QED
  BY <1>1, <1>2

LEMMA TerminatedActive ==
  ASSUME Active(rt), Terminated
  PROVE  Active(rt')
<1>. DEFINE a == AbortAll(rt, "stop")
<1>1. /\ rt \in Runtime /\ Recorded(rt) /\ Len(rt.calls) <= MaxCalls
      /\ IF rt.replaying THEN Replays(rt) ELSE Runs(rt)
      /\ Ending(rt) => rt.inbox = <<>>
  BY DEF Active
<1>2. rt.stopping /\ rt' = [a EXCEPT !.terminated = TRUE]
  BY DEF Terminated
<1>3. /\ OnlyCalls(rt, a) /\ Answered(rt) \subseteq Answered(a)
      /\ \A s \in DOMAIN rt.calls : Moves(rt.calls[s], a.calls[s])
  BY <1>1, AbortAllTouches
<1>. HIDE DEF a
<1>4. /\ a \in Runtime /\ DOMAIN a.calls = DOMAIN rt.calls /\ Len(a.calls) = Len(rt.calls)
      /\ a.cursor = rt.cursor /\ a.replaying = rt.replaying /\ a.journal = rt.journal
      /\ a.inbox = rt.inbox /\ a.stopping = rt.stopping
  BY <1>3 DEF OnlyCalls
<1>5. Recorded(a)
  BY <1>1, <1>3, TouchRecorded
<1>6. /\ rt' \in Runtime /\ rt'.calls = a.calls /\ rt'.cursor = a.cursor
      /\ rt'.replaying = a.replaying /\ rt'.journal = a.journal /\ rt'.sent = a.sent
      /\ rt'.inbox = a.inbox /\ rt'.stopping = a.stopping
  BY <1>2, <1>4 DEF Runtime
<1>7. Recorded(rt')
  BY <1>5, <1>6 DEF Recorded, Answered
<1>8. Ending(rt) /\ Ending(rt')
  BY <1>2, <1>4, <1>6 DEF Ending
<1>9. rt'.inbox = <<>> /\ Len(rt'.calls) <= MaxCalls
  BY <1>1, <1>4, <1>6, <1>8
<1>10. /\ DOMAIN rt'.calls = DOMAIN rt.calls /\ rt'.cursor = rt.cursor
       /\ rt'.replaying = rt.replaying /\ rt'.journal = rt.journal
       /\ \A s \in DOMAIN rt.calls : Moves(rt.calls[s], rt'.calls[s])
  BY <1>3, <1>4, <1>6
<1>. QED
  BY <1>1, <1>6, <1>7, <1>8, <1>9, <1>10, EndsActive

LEMMA QuitActive ==
  ASSUME Active(rt), phase = "active", Quit
  PROVE  Active(rt')
<1>. DEFINE a == AbortAll(rt, "quit")
<1>1. /\ rt \in Runtime /\ Recorded(rt) /\ Len(rt.calls) <= MaxCalls
      /\ IF rt.replaying THEN Replays(rt) ELSE Runs(rt)
  BY DEF Active
<1>2. CASE ~Finished(rt)
  <2>1. rt' = [a EXCEPT !.stopping = TRUE, !.outcome = "stopped", !.inbox = <<>>]
    BY <1>2 DEF Quit
  <2>2. /\ OnlyCalls(rt, a) /\ Answered(rt) \subseteq Answered(a)
        /\ \A s \in DOMAIN rt.calls : Moves(rt.calls[s], a.calls[s])
    BY <1>1, AbortAllTouches
  <2>. HIDE DEF a
  <2>3. /\ a \in Runtime /\ DOMAIN a.calls = DOMAIN rt.calls /\ Len(a.calls) = Len(rt.calls)
        /\ a.cursor = rt.cursor /\ a.replaying = rt.replaying /\ a.journal = rt.journal
    BY <2>2 DEF OnlyCalls
  <2>4. Recorded(a)
    BY <1>1, <2>2, TouchRecorded
  <2>5. /\ rt' \in Runtime /\ rt'.calls = a.calls /\ rt'.cursor = a.cursor
        /\ rt'.replaying = a.replaying /\ rt'.journal = a.journal /\ rt'.sent = a.sent
        /\ rt'.inbox = <<>> /\ rt'.stopping = TRUE
    <3>1. <<>> \in Seq(Message) /\ "stopped" \in {"none", "stopped", "complete", "failed", "stuck"}
      OBVIOUS
    <3>2. a \in Runtime
      BY <2>3
    <3>. QED
      BY ONLY <3>1, <3>2, <2>1 DEF Runtime
  <2>6. Recorded(rt')
    BY <2>4, <2>5 DEF Recorded, Answered
  <2>7. Ending(rt')
    BY <2>5 DEF Ending
  <2>8. Len(rt'.calls) <= MaxCalls
    BY <1>1, <2>3, <2>5
  <2>9. /\ DOMAIN rt'.calls = DOMAIN rt.calls /\ rt'.cursor = rt.cursor
        /\ rt'.replaying = rt.replaying /\ rt'.journal = rt.journal
        /\ \A s \in DOMAIN rt.calls : Moves(rt.calls[s], rt'.calls[s])
    BY <2>2, <2>3, <2>5
  <2>. QED
    BY <1>1, <2>5, <2>6, <2>7, <2>8, <2>9, EndsActive
<1>3. CASE Finished(rt)
  <2>1. rt' = rt
    BY <1>3 DEF Quit
  <2>. QED
    BY <2>1
<1>. QED
  BY <1>2, <1>3

(* What a record says was spent is a number, cost after cost.               *)
LEMMA SpentUnfolds ==
  ASSUME NEW rec, NEW costs, costs = Entries(rec, {"done", "abandoned"}), Len(costs) \in Nat
  PROVE  \E q : /\ q[0] = 0 /\ Spent(rec) = q[Len(costs)]
                /\ \A i \in 1 .. Len(costs) : q[i] = q[i - 1] + costs[i].usage
<1>. DEFINE n == Len(costs)
            More(f, i) == IF i = 0 THEN 0 ELSE f[i - 1] + costs[i].usage
            Is(f, k) == f = [i \in 0 .. k |-> More(f, i)]
            T == {k \in 0 .. n : \E f : Is(f, k)}
            q == CHOOSE f : Is(f, n)
<1>1. Spent(rec) = q[n]
  BY DEF Spent
<1>2. n \in Nat
  OBVIOUS
<1>. HIDE DEF n
<1>3. 0 \in T
  <2>. DEFINE g == [i \in 0 .. 0 |-> 0]
  <2>1. \A i \in 0 .. 0 : More(g, i) = 0
    OBVIOUS
  <2>2. Is(g, 0)
    <3>. HIDE DEF More
    <3>. QED
      BY <2>1
  <2>. HIDE DEF g, Is
  <2>. QED
    BY <1>2, <2>2
<1>4. ASSUME NEW k \in 0 .. n - 1, k \in T PROVE k + 1 \in T
  <2>1. PICK f : Is(f, k)
    BY <1>4
  <2>2. \A i \in 0 .. k : f[i] = More(f, i)
    <3>. HIDE DEF More
    <3>. QED
      BY <2>1
  <2>. DEFINE g == [i \in 0 .. k + 1 |-> IF i <= k THEN f[i] ELSE More(f, i)]
  <2>3. ASSUME NEW i \in 0 .. k + 1 PROVE g[i] = More(f, i)
    <3>. HIDE DEF More
    <3>. QED
      BY <1>2, <2>2
  <2>4. ASSUME NEW i \in 0 .. k + 1 PROVE More(g, i) = More(f, i)
    <3>1. CASE i = 0
      BY <3>1
    <3>2. CASE i # 0
      <4>1. i - 1 \in 0 .. k /\ g[i - 1] = f[i - 1]
        <5>. HIDE DEF More
        <5>. QED
          BY <1>2, <3>2
      <4>. HIDE DEF g
      <4>. QED
        BY <3>2, <4>1
    <3>. QED
      BY <3>1, <3>2
  <2>5. Is(g, k + 1)
    <3>. HIDE DEF More
    <3>. QED
      BY <2>3, <2>4
  <2>. HIDE DEF g, Is
  <2>. QED
    BY <1>2, <2>5
<1>5. Is(q, n)
  <2>1. n \in T
    <3>. HIDE DEF T
    <3>1. \A k \in 0 .. n : k \in T
      BY <1>2, <1>3, <1>4, UpTo
    <3>. QED
      BY <1>2, <3>1
  <2>. HIDE DEF Is
  <2>. QED
    BY <2>1
<1>. HIDE DEF q, T
<1>6. \A i \in 0 .. n : q[i] = More(q, i)
  <2>. HIDE DEF More
  <2>. QED
    BY <1>5
<1>. HIDE DEF Is
<1>7. q[0] = 0 /\ \A i \in 1 .. n : q[i] = q[i - 1] + costs[i].usage
  BY <1>2, <1>6
<1>. QED
  BY <1>1, <1>7 DEF n

LEMMA KindsOf ==
  ASSUME NEW rec \in Seq(Entry), NEW kinds, NEW q, q = Entries(rec, kinds)
  PROVE  /\ q \in Seq(Entry) /\ Len(q) \in Nat /\ DOMAIN q = 1 .. Len(q)
         /\ \A i \in DOMAIN q : q[i] \in Entry /\ q[i].t \in kinds
<1>. DEFINE S == {i \in DOMAIN rec : rec[i].t \in kinds}
<1>1. S \subseteq DOMAIN rec /\ q = Selected(rec, S)
  BY DEF Entries
<1>2. \A i \in S : rec[i].t \in kinds
  OBVIOUS
<1>. HIDE DEF S
<1>3. q \in Seq(Entry) /\ \E p : Embeds(p, q, rec, S)
  BY <1>1, SelectedEmbeds
<1>4. PICK p : Embeds(p, q, rec, S)
  BY <1>3
<1>5. Len(q) \in Nat /\ DOMAIN q = 1 .. Len(q) /\ \A i \in DOMAIN q : q[i] \in Entry
  BY <1>3
<1>6. \A i \in DOMAIN q : p[i] \in S /\ q[i] = rec[p[i]]
  BY <1>4 DEF Embeds
<1>. QED
  BY <1>2, <1>3, <1>5, <1>6

LEMMA SpentIsANumber ==
  ASSUME NEW rec \in Seq(Entry)
  PROVE  Spent(rec) \in Nat
<1>. DEFINE costs == Entries(rec, {"done", "abandoned"})
<1>1. Len(costs) \in Nat /\ \A i \in 1 .. Len(costs) : costs[i].usage \in Nat
  <2>1. /\ Len(costs) \in Nat /\ DOMAIN costs = 1 .. Len(costs)
        /\ \A i \in DOMAIN costs : costs[i] \in Entry /\ costs[i].t \in {"done", "abandoned"}
    <3>. HIDE DEF costs
    <3>. QED
      BY KindsOf DEF costs
  <2>. HIDE DEF costs
  <2>2. \A i \in DOMAIN costs : costs[i].usage \in Nat
    BY <2>1, IssueFields
  <2>. QED
    BY <2>1, <2>2
<1>2. \E q : /\ q[0] = 0 /\ Spent(rec) = q[Len(costs)]
             /\ \A i \in 1 .. Len(costs) : q[i] = q[i - 1] + costs[i].usage
  <2>1. costs = Entries(rec, {"done", "abandoned"})
    OBVIOUS
  <2>. HIDE DEF costs
  <2>. QED
    BY <1>1, <2>1, SpentUnfolds
<1>. HIDE DEF costs
<1>3. PICK q : /\ q[0] = 0 /\ Spent(rec) = q[Len(costs)]
               /\ \A i \in 1 .. Len(costs) : q[i] = q[i - 1] + costs[i].usage
  BY <1>2
<1>. DEFINE S == {k \in 0 .. Len(costs) : q[k] \in Nat}
<1>4. 0 \in S
  BY <1>1, <1>3
<1>5. ASSUME NEW k \in 0 .. Len(costs) - 1, k \in S PROVE k + 1 \in S
  <2>1. k + 1 \in 1 .. Len(costs) /\ k + 1 - 1 = k
    BY <1>1
  <2>2. q[k + 1] = q[k] + costs[k + 1].usage
    BY <1>3, <2>1
  <2>. QED
    BY <1>1, <1>5, <2>1, <2>2
<1>. HIDE DEF S
<1>6. \A k \in 0 .. Len(costs) : k \in S
  BY <1>1, <1>4, <1>5, UpTo
<1>7. Len(costs) \in S
  BY <1>1, <1>6
<1>. QED
  BY <1>3, <1>7 DEF S

(* No run.                                                                  *)
LEMMA NoRunFields ==
  /\ NoRun \in Runtime /\ NoRun.calls = <<>> /\ NoRun.sent = <<>> /\ NoRun.inbox = <<>>
  /\ NoRun.idles = 1 /\ NoRun.cursor = 1 /\ NoRun.stopping = FALSE
  /\ NoRun.outcome = "none" /\ NoRun.journal = <<>> /\ NoRun.replaying = FALSE
BY DEF NoRun, Runtime

(* A generation begins with what the ones before it abandoned.              *)
LEMMA CarriedRecord ==
  ASSUME version \in Versions, StreamOK, NEW jrn, jrn = <<Start(version)>> \o Carried
  PROVE  /\ jrn \in Seq(Entry) /\ WellNumbered(jrn) /\ ~Has(jrn, "live")
         /\ Numbers(jrn, "issue") = {} /\ Numbers(jrn, "done") = {}
         /\ Spent(Carried) \in Nat
<1>1. /\ Carried \in Seq(Entry) /\ Len(Carried) \in Nat /\ DOMAIN Carried = 1 .. Len(Carried)
      /\ \A i \in DOMAIN Carried : Carried[i].t \in {"abandoned"}
  BY KindsOf DEF Carried, StreamOK
<1>2. Spent(Carried) \in Nat
  BY <1>1, SpentIsANumber
<1>. DEFINE first == <<Start(version)>>
<1>3. first \in Seq(Entry) /\ Len(first) = 1 /\ first[1].t = "start"
  <2>1. version \in Nat
    BY RunAssumption
  <2>2. Start(version) \in Entry /\ Start(version).t = "start"
    BY <2>1, EntryFields
  <2>. QED
    BY <2>2
<1>. HIDE DEF first
<1>4. jrn = first \o Carried
  BY DEF first
<1>5. /\ jrn \in Seq(Entry) /\ Len(jrn) = 1 + Len(Carried) /\ DOMAIN jrn = 1 .. 1 + Len(Carried)
      /\ \A i \in 1 .. 1 + Len(Carried) : jrn[i] = IF i = 1 THEN first[1] ELSE Carried[i - 1]
  BY <1>1, <1>3, <1>4, ConcatProperties
<1>6. \A i \in DOMAIN jrn : jrn[i].t \in {"start", "abandoned"}
  <2>. SUFFICES ASSUME NEW i \in DOMAIN jrn PROVE jrn[i].t \in {"start", "abandoned"}
    OBVIOUS
  <2>1. CASE i = 1
    BY <2>1, <1>1, <1>3, <1>5
  <2>2. CASE i # 1
    <3>1. i - 1 \in 1 .. Len(Carried)
      BY <2>2, <1>1, <1>5
    <3>. QED
      BY <2>2, <3>1, <1>1, <1>5
  <2>. QED
    BY <2>1, <2>2
<1>7. Places(jrn, "issue") = {} /\ Places(jrn, "done") = {} /\ ~Has(jrn, "live")
  BY <1>6 DEF Places, Has
<1>. QED
  BY <1>2, <1>5, <1>7 DEF WellNumbered, Numbers

(* The script starts: it has something to say, and the record is in step.   *)
LEMMA StartedActive ==
  ASSUME version \in Versions, StreamOK
  PROVE  Active(Started)
<1>. DEFINE jrn == <<Start(version)>> \o Carried
            inbox == Says(<<>>)
            spent == Spent(Carried)
            replaying == (stream # <<>>)
            r == [NoRun EXCEPT !.journal = jrn, !.settled = spent,
                               !.replaying = replaying, !.inbox = inbox]
<1>1. /\ jrn \in Seq(Entry) /\ WellNumbered(jrn) /\ ~Has(jrn, "live")
      /\ Numbers(jrn, "issue") = {} /\ Numbers(jrn, "done") = {} /\ spent \in Nat
  BY CarriedRecord
<1>2. /\ inbox \in Seq(Message) /\ inbox # <<>> /\ Len(inbox) \in DOMAIN inbox
      /\ IF IsOver(<<>>) THEN inbox[Len(inbox)].m \in {"complete", "failed"}
         ELSE inbox[Len(inbox)].m = "idle"
  <2>1. <<>> \in Seq(Reply) /\ Len(<<>>) <= MaxCalls
    BY RunAssumption
  <2>. QED
    BY <2>1, SaysProperties
<1>3. replaying \in BOOLEAN /\ <<>> \in Seq(Call) /\ <<>> \in Seq(Reply)
  OBVIOUS
<1>4. Started = IF source # <<>> /\ stream = <<>> THEN EndReplay(r) ELSE r
  BY DEF Started
<1>. HIDE DEF jrn, inbox, spent, replaying
<1>5. /\ r \in Runtime /\ r.journal = jrn /\ r.inbox = inbox /\ r.replaying = replaying
      /\ r.calls = <<>> /\ r.sent = <<>> /\ r.idles = 1 /\ r.cursor = 1
      /\ r.stopping = FALSE /\ r.outcome = "none"
  <2>1. /\ jrn \in Seq(Entry) /\ inbox \in Seq(Message) /\ spent \in Nat /\ replaying \in BOOLEAN
        /\ <<>> \in Seq(Call) /\ <<>> \in Seq(Reply)
    BY <1>1, <1>2, <1>3
  <2>2. /\ NoRun \in Runtime /\ NoRun.calls = <<>> /\ NoRun.sent = <<>> /\ NoRun.idles = 1
        /\ NoRun.cursor = 1 /\ NoRun.stopping = FALSE /\ NoRun.outcome = "none"
    BY NoRunFields
  <2>3. /\ r \in Runtime /\ r.journal = jrn /\ r.inbox = inbox /\ r.replaying = replaying
        /\ r.calls = NoRun.calls /\ r.sent = NoRun.sent /\ r.idles = NoRun.idles
        /\ r.cursor = NoRun.cursor /\ r.stopping = NoRun.stopping /\ r.outcome = NoRun.outcome
    BY ONLY <2>1, <2>2 DEF Runtime
  <2>. QED
    BY ONLY <2>2, <2>3
<1>. HIDE DEF r
<1>6. ~Ending(r)
  BY <1>5 DEF Ending, Finished
<1>7. DOMAIN r.calls = {} /\ Len(r.calls) = 0 /\ Len(r.sent) = 0
  BY <1>5
<1>8. Recorded(r)
  <2>1. Cardinality(Answered(r)) \in Nat
    BY <1>5, AnsweredFinite
  <2>. QED
    BY <2>1, <1>1, <1>5, <1>7 DEF Recorded
<1>9. Heard(r)
  <2>1. \A s \in DOMAIN r.calls : r.calls[s].at # "stopped" /\ r.calls[s].abort \notin {"stop", "quit"}
    BY <1>7
  <2>2. r.inbox # <<>> => r.inbox[Len(r.inbox)].m # "call"
    BY <1>2, <1>5
  <2>3. EndComes(r.inbox) \/ (r.idles <= Cardinality(Idling(r.inbox)) /\ ~IsOver(r.sent))
    <3>1. CASE IsOver(<<>>)
      BY <3>1, <1>2, <1>5 DEF EndComes
    <3>2. CASE ~IsOver(<<>>)
      <4>1. Len(inbox) \in Idling(inbox)
        BY <3>2, <1>2 DEF Idling
      <4>2. IsFiniteSet(Idling(inbox)) /\ Cardinality(Idling(inbox)) \in Nat
        BY <1>2, IdlesAreFinite
      <4>3. Cardinality(Idling(inbox)) # 0
        BY <4>1, <4>2, FS_EmptySet
      <4>. QED
        BY <3>2, <4>2, <4>3, <1>5
    <3>. QED
      BY <3>1, <3>2
  <2>. QED
    BY <2>1, <2>2, <2>3 DEF Heard
<1>10. Sound(r)
  BY <1>5, <1>6, <1>7, <1>8, <1>9, RunAssumption DEF Sound
<1>11. Matched(r) = {} /\ Delivered(r) = {}
  BY <1>5 DEF Matched, Delivered
<1>12. CASE stream # <<>>
  <2>1. source # <<>> /\ Len(stream) \in Nat
    BY <1>12, StreamFacts
  <2>2. Replays(r)
    BY <2>1, <1>1, <1>5, <1>7, <1>11 DEF Replays
  <2>3. Going(r)
    <3>1. r.replaying /\ r.idles > 0
      <4>1. replaying
        BY <1>12 DEF replaying
      <4>2. r.idles = 1 /\ r.replaying = replaying
        BY <1>5
      <4>. HIDE DEF replaying
      <4>. QED
        BY <4>1, <4>2
    <3>. QED
      BY <2>2, <3>1, <1>10 DEF Going
  <2>4. Active(r)
    BY <2>3, <1>2, <1>5, GoingActive
  <2>. QED
    BY <2>4, <1>4, <1>12
<1>13. CASE stream = <<>> /\ source # <<>>
  <2>. DEFINE q == EndReplay(r)
  <2>1. Sound(q) /\ q.calls = r.calls /\ Leaves(r, q)
    BY <1>10, EndReplaySound
  <2>. HIDE DEF q
  <2>2. q.cursor = r.cursor /\ ~q.replaying /\ q.inbox # <<>>
    BY <2>1, <1>2, <1>5 DEF Leaves
  <2>3. Matched(q) = {}
    BY <2>2, <1>11, SameWalk
  <2>4. Runs(q)
    BY <2>1, <2>3, <1>7 DEF Runs
  <2>5. Going(q)
    BY <2>1, <2>2, <2>4 DEF Going
  <2>6. Active(q)
    BY <2>2, <2>5, GoingActive
  <2>. QED
    BY <2>6, <1>4, <1>13 DEF q
<1>14. CASE stream = <<>> /\ source = <<>>
  <2>1. ~r.replaying
    BY <1>5, <1>14 DEF replaying
  <2>2. Runs(r)
    BY <1>7, <1>11 DEF Runs
  <2>3. Going(r)
    BY <2>1, <2>2, <1>10 DEF Going
  <2>4. Active(r)
    BY <2>3, <1>2, <1>5, GoingActive
  <2>. QED
    BY <2>4, <1>4, <1>14
<1>. QED
  BY <1>12, <1>13, <1>14

-----------------------------------------------------------------------------
(* The generations on disk.                                                 *)

Files(fs) == fs \in Seq(Seq(Entry)) /\ \A i \in DOMAIN fs : WellNumbered(Parsed(fs[i]))

\* The generations whose replay came to its end.
Complete(fs) ==
  {i \in DOMAIN fs :
     LET entries == Parsed(fs[i])
     IN Has(entries, "start") /\ (HadReplay(i) => Has(entries, "live"))}

LEMMA FilesIndexed ==
  ASSUME NEW fs \in Seq(Seq(Entry))
  PROVE  /\ (\A file \in Range(fs) : WellNumbered(Parsed(file))) <=> Files(fs)
         /\ Len(fs) \in Nat /\ DOMAIN fs = 1 .. Len(fs)
         /\ \A i \in DOMAIN fs : fs[i] \in Seq(Entry)
BY DEF Files, Range

LEMMA GreatestNumber ==
  ASSUME NEW n \in Nat, NEW S, S \subseteq 1 .. n, S # {}
  PROVE  \E x \in S : \A y \in S : y <= x
<1>. DEFINE T == {n - x : x \in S}
<1>1. T \subseteq Nat /\ T # {}
  <2>1. \A x \in S : n - x \in Nat
    OBVIOUS
  <2>2. T # {}
    OBVIOUS
  <2>. QED
    BY <2>1, <2>2
<1>2. PICK t \in T : \A u \in T : t <= u
  <2>. HIDE DEF T
  <2>. QED
    BY <1>1, LeastNumber
<1>3. PICK x \in S : t = n - x
  BY <1>2
<1>4. ASSUME NEW y \in S PROVE y <= x
  <2>1. n - x <= n - y
    BY <1>2, <1>3
  <2>. QED
    BY <2>1
<1>. QED
  BY <1>4

LEMMA LatestIs ==
  ASSUME NEW fs \in Seq(Seq(Entry))
  PROVE  \/ Complete(fs) = {} /\ LatestReplaySource(fs) = <<>>
         \/ \E i \in Complete(fs) : /\ \A j \in Complete(fs) : j <= i
                                    /\ LatestReplaySource(fs) = Parsed(fs[i])
<1>. DEFINE C == Complete(fs)
            last(i) == \A j \in C : j <= i
            c == CHOOSE i \in C : last(i)
<1>1. LatestReplaySource(fs) = IF C = {} THEN <<>> ELSE Parsed(fs[c])
  BY DEF LatestReplaySource, Complete
<1>2. CASE C # {}
  <2>1. C \subseteq 1 .. Len(fs) /\ Len(fs) \in Nat
    BY FilesIndexed DEF Complete
  <2>. HIDE DEF C
  <2>2. \E i \in C : last(i)
    BY <1>2, <2>1, GreatestNumber
  <2>3. c \in C /\ last(c)
    <3>. HIDE DEF last
    <3>. QED
      BY <2>2
  <2>. HIDE DEF c
  <2>4. LatestReplaySource(fs) = Parsed(fs[c])
    BY <1>1, <1>2
  <2>. QED
    BY <2>3, <2>4 DEF C
<1>. QED
  BY <1>1, <1>2

(* What is replayed is a well numbered record.                              *)
LEMMA SourceRecord ==
  ASSUME NEW fs, Files(fs)
  PROVE  LatestReplaySource(fs) \in Seq(Entry) /\ WellNumbered(LatestReplaySource(fs))
<1>1. fs \in Seq(Seq(Entry)) /\ \A i \in DOMAIN fs : fs[i] \in Seq(Entry)
  BY FilesIndexed DEF Files
<1>2. CASE Complete(fs) = {} /\ LatestReplaySource(fs) = <<>>
  <2>1. <<>> \in Seq(Entry) /\ WellNumbered(<<>>)
    BY DEF WellNumbered, Places
  <2>. QED
    BY <1>2, <2>1
<1>3. CASE \E i \in Complete(fs) : LatestReplaySource(fs) = Parsed(fs[i])
  <2>1. PICK i \in Complete(fs) : LatestReplaySource(fs) = Parsed(fs[i])
    BY <1>3
  <2>2. i \in DOMAIN fs
    BY DEF Complete
  <2>3. WellNumbered(Parsed(fs[i]))
    BY <2>2 DEF Files
  <2>4. Parsed(fs[i]) \in Seq(Entry)
    BY <1>1, <2>2, ParsedIsPrefix
  <2>. QED
    BY <2>1, <2>3, <2>4
<1>. QED
  BY <1>1, <1>2, <1>3, LatestIs

LEMMA SameSource ==
  ASSUME NEW fs \in Seq(Seq(Entry)), NEW gs \in Seq(Seq(Entry)),
         Complete(gs) = Complete(fs), Complete(fs) # {},
         \A i \in Complete(fs) : IsPrefix(Parsed(fs[i]), Parsed(gs[i]))
  PROVE  IsPrefix(LatestReplaySource(fs), LatestReplaySource(gs))
<1>1. PICK i \in Complete(fs) : /\ \A j \in Complete(fs) : j <= i
                                /\ LatestReplaySource(fs) = Parsed(fs[i])
  BY LatestIs
<1>2. PICK k \in Complete(gs) : /\ \A j \in Complete(gs) : j <= k
                                /\ LatestReplaySource(gs) = Parsed(gs[k])
  BY LatestIs
<1>3. i \in Nat /\ k \in Nat
  BY FilesIndexed DEF Complete
<1>4. i <= k /\ k <= i
  BY <1>1, <1>2
<1>5. i = k
  BY <1>3, <1>4
<1>. QED
  BY <1>1, <1>2, <1>5

(* A generation is closed, or was never opened.                             *)
LEMMA ClosedFiles ==
  ASSUME Files(files), NEW file \in Seq(Entry), WellNumbered(Parsed(file))
  PROVE  Files(Closed(file))
<1>1. CASE file = <<>>
  BY <1>1 DEF Closed
<1>2. CASE file # <<>>
  <2>1. Closed(file) = Append(files, file)
    BY <1>2 DEF Closed
  <2>2. /\ files \in Seq(Seq(Entry)) /\ Len(files) \in Nat /\ DOMAIN files = 1 .. Len(files)
        /\ \A i \in DOMAIN files : WellNumbered(Parsed(files[i]))
    BY FilesIndexed DEF Files
  <2>. DEFINE all == Append(files, file)
  <2>3. /\ all \in Seq(Seq(Entry)) /\ DOMAIN all = DOMAIN files \cup {Len(files) + 1}
        /\ \A i \in DOMAIN files : all[i] = files[i]
        /\ all[Len(files) + 1] = file
    <3>. DEFINE X == Seq(Entry)
    <3>1. files \in Seq(X) /\ file \in X
      BY <2>2
    <3>. HIDE DEF X
    <3>2. /\ all \in Seq(X) /\ DOMAIN all = DOMAIN files \cup {Len(files) + 1}
          /\ \A i \in DOMAIN files : all[i] = files[i]
          /\ all[Len(files) + 1] = file
      BY <3>1, PlacesOfAppend
    <3>. QED
      BY <3>2 DEF X
  <2>. HIDE DEF all
  <2>4. \A i \in DOMAIN all : WellNumbered(Parsed(all[i]))
    BY <2>2, <2>3
  <2>5. Files(all)
    BY <2>3, <2>4 DEF Files
  <2>. QED
    BY <2>1, <2>5 DEF all
<1>. QED
  BY <1>1, <1>2

(* What a crash leaves of the open generation.                              *)
LEMMA OnDiskRecord ==
  ASSUME NEW rec \in Seq(Entry), WellNumbered(rec), NEW file \in OnDisk(rec)
  PROVE  /\ file \in Seq(Entry) /\ WellNumbered(Parsed(file))
         /\ Has(Parsed(file), "live") => Has(rec, "live")
<1>1. Len(rec) \in Nat
  OBVIOUS
<1>2. PICK n \in 0 .. Len(rec) : file = SubSeq(rec, 1, n) \/ file = Append(SubSeq(rec, 1, n), Torn)
  BY DEF OnDisk
<1>. DEFINE kept == SubSeq(rec, 1, n)
<1>3. kept \in Seq(Entry) /\ WellNumbered(kept) /\ (Has(kept, "live") => Has(rec, "live"))
  BY PrefixWellNumbered
<1>4. file = kept \/ file = Append(kept, Torn)
  BY <1>2
<1>. HIDE DEF kept
<1>5. file \in Seq(Entry) /\ WellNumbered(file) /\ (Has(file, "live") => Has(rec, "live"))
  <2>1. Torn \in Entry /\ Torn.t \notin {"issue", "done", "live"}
    BY EntryFields
  <2>2. /\ Append(kept, Torn) \in Seq(Entry) /\ WellNumbered(Append(kept, Torn))
        /\ Has(Append(kept, Torn), "live") => Has(kept, "live")
    BY <1>3, <2>1, AppendOther
  <2>. QED
    BY <1>3, <1>4, <2>2
<1>. QED
  BY <1>5, ParsedIsPrefix

(* A salvage adds answers to the newest generation.                         *)
LEMMA SalvagedFiles ==
  ASSUME ReportsOK, NEW left, Files(left), left # <<>>,
         NEW all, all = [left EXCEPT ![Len(left)] = Salvage(@)]
  PROVE  /\ Files(all) /\ DOMAIN all = DOMAIN left
         /\ \A i \in DOMAIN left :
              /\ IsPrefix(Parsed(left[i]), Parsed(all[i]))
              /\ \A t : t # "done" => (Has(Parsed(all[i]), t) <=> Has(Parsed(left[i]), t))
<1>1. /\ left \in Seq(Seq(Entry)) /\ Len(left) \in Nat /\ DOMAIN left = 1 .. Len(left)
      /\ \A i \in DOMAIN left : left[i] \in Seq(Entry) /\ WellNumbered(Parsed(left[i]))
  BY FilesIndexed DEF Files
<1>2. Len(left) \in DOMAIN left
  BY <1>1
<1>3. \A i \in DOMAIN left :
        all[i] = IF i = Len(left) THEN Salvage(left[i]) ELSE left[i]
  BY <1>1
<1>4. DOMAIN all = DOMAIN left
  BY <1>1
<1>5. \A i \in DOMAIN left :
        /\ Salvage(left[i]) \in Seq(Entry)
        /\ WellNumbered(Parsed(Salvage(left[i])))
        /\ IsPrefix(Parsed(left[i]), Parsed(Salvage(left[i])))
        /\ \A t : t # "done"
                    => (Has(Parsed(Salvage(left[i])), t) <=> Has(Parsed(left[i]), t))
  BY <1>1, SalvageAnswers
<1>6. \A i \in DOMAIN left : IsPrefix(Parsed(left[i]), Parsed(left[i]))
  <2>. SUFFICES ASSUME NEW i \in DOMAIN left PROVE IsPrefix(Parsed(left[i]), Parsed(left[i]))
    OBVIOUS
  <2>1. Parsed(left[i]) \in Seq(Entry)
    BY <1>1, ParsedIsPrefix
  <2>2. Len(Parsed(left[i])) <= Len(Parsed(left[i]))
    BY <2>1
  <2>. QED
    BY <2>2 DEF IsPrefix
<1>7. \A i \in DOMAIN all : all[i] \in Seq(Entry) /\ WellNumbered(Parsed(all[i]))
  BY <1>1, <1>3, <1>4, <1>5
<1>8. all \in Seq(Seq(Entry))
  <2>1. all = [i \in 1 .. Len(left) |-> all[i]]
    BY <1>1, <1>4
  <2>. DEFINE n == Len(left)
              X == Seq(Entry)
  <2>2. n \in Nat /\ all = [i \in 1 .. n |-> all[i]] /\ \A i \in 1 .. n : all[i] \in X
    BY <1>1, <1>4, <1>7, <2>1
  <2>. HIDE DEF n, X
  <2>3. all \in Seq(X)
    BY ONLY <2>2
  <2>. QED
    BY <2>3 DEF X
<1>9. \A i \in DOMAIN left :
        /\ IsPrefix(Parsed(left[i]), Parsed(all[i]))
        /\ \A t : t # "done" => (Has(Parsed(all[i]), t) <=> Has(Parsed(left[i]), t))
  BY <1>3, <1>5, <1>6
<1>. QED
  BY <1>4, <1>7, <1>8, <1>9 DEF Files

(* A crash leaves well numbered generations, and, of a run in the middle of *)
(* its replay, the source in charge.                                        *)
LEMMA CrashLeaves ==
  ASSUME Files(files), ReportsOK, rt.journal \in Seq(Entry), WellNumbered(rt.journal), Crash
  PROVE  /\ Files(files')
         /\ LatestReplaySource(files) # <<>> /\ ~Has(rt.journal, "live")
              => IsPrefix(LatestReplaySource(files), LatestReplaySource(files'))
<1>1. PICK file \in OnDisk(rt.journal) :
        files' = IF state = "running" /\ Closed(file) # <<>>
                 THEN [Closed(file) EXCEPT ![Len(Closed(file))] = Salvage(@)] ELSE Closed(file)
  BY DEF Crash
<1>. DEFINE left == Closed(file)
<1>2. /\ file \in Seq(Entry) /\ WellNumbered(Parsed(file))
      /\ Has(Parsed(file), "live") => Has(rt.journal, "live")
  BY OnDiskRecord
<1>3. Files(left)
  BY <1>2, ClosedFiles
<1>. HIDE DEF left
<1>4. /\ Files(files') /\ DOMAIN files' = DOMAIN left
      /\ \A i \in DOMAIN left :
           /\ IsPrefix(Parsed(left[i]), Parsed(files'[i]))
           /\ \A t : t # "done" => (Has(Parsed(files'[i]), t) <=> Has(Parsed(left[i]), t))
  <2>1. CASE state = "running" /\ left # <<>>
    <3>1. files' = [left EXCEPT ![Len(left)] = Salvage(@)]
      BY <1>1, <2>1 DEF left
    <3>. QED
      BY <2>1, <3>1, <1>3, SalvagedFiles
  <2>2. CASE ~(state = "running" /\ left # <<>>)
    <3>1. files' = left
      BY <1>1, <2>2 DEF left
    <3>2. ASSUME NEW i \in DOMAIN left PROVE IsPrefix(Parsed(left[i]), Parsed(left[i]))
      <4>1. left[i] \in Seq(Entry)
        BY <1>3, FilesIndexed DEF Files
      <4>2. Parsed(left[i]) \in Seq(Entry)
        BY <4>1, ParsedIsPrefix
      <4>3. Len(Parsed(left[i])) <= Len(Parsed(left[i]))
        BY <4>2
      <4>. QED
        BY <4>3 DEF IsPrefix
    <3>. QED
      BY <3>1, <3>2, <1>3
  <2>. QED
    BY <2>1, <2>2
<1>5. Complete(files') = Complete(left)
  BY <1>4 DEF Complete
<1>6. ASSUME LatestReplaySource(files) # <<>>, ~Has(rt.journal, "live")
      PROVE  IsPrefix(LatestReplaySource(files), LatestReplaySource(files'))
  <2>1. /\ files \in Seq(Seq(Entry)) /\ Len(files) \in Nat /\ DOMAIN files = 1 .. Len(files)
        /\ files' \in Seq(Seq(Entry))
    BY <1>4, FilesIndexed DEF Files
  <2>2. Complete(files) # {}
    BY <1>6, <2>1, LatestIs
  <2>3. /\ Complete(left) = Complete(files)
        /\ \A i \in Complete(files) : i \in DOMAIN left /\ left[i] = files[i]
    <3>1. CASE file = <<>>
      <4>1. left = files
        BY <3>1 DEF Closed, left
      <4>. QED
        BY <4>1 DEF Complete
    <3>2. CASE file # <<>>
      <4>1. left = Append(files, file)
        BY <3>2 DEF Closed, left
      <4>2. /\ DOMAIN left = DOMAIN files \cup {Len(files) + 1}
            /\ \A i \in DOMAIN files : left[i] = files[i]
            /\ left[Len(files) + 1] = file
        <5>. DEFINE X == Seq(Entry)
        <5>1. files \in Seq(X) /\ file \in X
          BY <1>2, <2>1
        <5>. HIDE DEF X
        <5>. QED
          BY <4>1, <5>1, PlacesOfAppend
      <4>3. Len(files) # 0
        BY <2>1, <2>2 DEF Complete
      <4>4. Len(files) + 1 \notin Complete(left)
        <5>1. HadReplay(Len(files) + 1)
          BY <2>1, <4>3 DEF HadReplay
        <5>. QED
          BY <5>1, <4>2, <1>2, <1>6 DEF Complete
      <4>5. Len(files) + 1 \notin DOMAIN files
        BY <2>1
      <4>. QED
        BY <4>2, <4>4, <4>5 DEF Complete
    <3>. QED
      BY <3>1, <3>2
  <2>4. \A i \in Complete(files) : IsPrefix(Parsed(files[i]), Parsed(files'[i]))
    BY <1>4, <2>3
  <2>5. Complete(files') = Complete(files)
    BY <1>5, <2>3
  <2>. QED
    BY <2>1, <2>2, <2>4, <2>5, SameSource
<1>. QED
  BY <1>4, <1>6

-----------------------------------------------------------------------------
(* The steps of the system.                                                 *)

(* Neither the script nor the record it replays changes under a run.        *)
LEMMA ActiveNext ==
  ASSUME version' = version, source' = source, Active(rt')
  PROVE  /\ rt' \in Runtime /\ Len(rt'.calls) <= MaxCalls
         /\ Recorded(rt)'
         /\ (IF Ending(rt) THEN rt.inbox = <<>> ELSE Heard(rt))'
         /\ (IF rt.replaying THEN Replays(rt) ELSE Runs(rt))'
         /\ (~Ending(rt) /\ rt.replaying => rt.idles > 0)'
         /\ (~Ending(rt) /\ rt.inbox = <<>> => ~IsStuck(rt))'
<1>. DEFINE r == rt'
<1>1. stream' = stream
  BY DEF stream, Stream
<1>2. Matched(rt)' = Matched(r) /\ Delivered(rt)' = Delivered(r)
  BY <1>1 DEF Matched, Delivered
<1>3. \A s : /\ HasDone(s)' <=> HasDone(s)
             /\ DoneOf(s)' = DoneOf(s)
  BY <1>1 DEF HasDone, DoneOf
<1>4. Recorded(rt)' <=> Recorded(r)
  BY DEF Recorded, Answered
<1>5. /\ Ending(rt)' <=> Ending(r)
      /\ IsStuck(rt)' <=> IsStuck(r)
  BY DEF Ending, Finished, IsStuck
<1>6. Heard(rt)' <=> Heard(r)
  BY DEF Heard, IsOver
<1>7. Replays(rt)' <=> Replays(r)
  BY <1>1, <1>2 DEF Replays
<1>8. Runs(rt)' <=> Runs(r)
  BY <1>2, <1>3, <1>5 DEF Runs, Executing
<1>. QED
  BY <1>4, <1>5, <1>6, <1>7, <1>8 DEF Active

Invariant == TypeOK /\ RunInv

LEMMA InvariantFacts ==
  ASSUME Invariant
  PROVE  /\ version \in Versions /\ StreamOK /\ Files(files) /\ ReportsOK
         /\ phase = "active" => Active(rt)
         /\ phase # "active" => rt = NoRun
         /\ rt \in Runtime /\ rt.journal \in Seq(Entry) /\ WellNumbered(rt.journal)
<1>1. /\ version \in Versions /\ StreamOK /\ ReportsOK /\ files \in Seq(Seq(Entry))
      /\ rt \in Runtime /\ Len(rt.calls) <= MaxCalls
  BY DEF Invariant, TypeOK, RunInv, StreamOK, ReportsOK
<1>2. Files(files)
  BY <1>1, FilesIndexed DEF Invariant, RunInv
<1>3. phase = "active" => Active(rt)
  BY <1>1 DEF Invariant, RunInv, Active
<1>4. phase # "active" => rt = NoRun
  BY DEF Invariant, RunInv
<1>5. rt.journal \in Seq(Entry)
  BY <1>1, RuntimeFields
<1>6. WellNumbered(rt.journal)
  <2>1. CASE phase = "active"
    BY <1>3, <2>1 DEF Active, Recorded
  <2>2. CASE phase # "active"
    <3>1. rt.journal = <<>>
      BY <2>2, <1>4, NoRunFields
    <3>2. Places(<<>>, "issue") = {} /\ Places(<<>>, "done") = {}
      BY DEF Places
    <3>. QED
      BY <3>1, <3>2 DEF WellNumbered
  <2>. QED
    BY <2>1, <2>2
<1>. QED
  BY <1>1, <1>2, <1>3, <1>4, <1>5, <1>6

(* What a step has to see to.                                               *)
LEMMA Assembles ==
  ASSUME state' \in {"running", "paused", "failed", "complete", "cancelled"},
         phase' \in {"idle", "resuming", "loading", "active"},
         intent' \in {"none", "stop", "cancel", "quit"},
         version' \in Versions,
         DOMAIN reports' \subseteq [seq : 1 .. MaxCalls, key : Keys],
         \A c \in DOMAIN reports' : reports'[c] \in Values,
         Files(files'), source' \in Seq(Entry), WellNumbered(source'),
         phase' # "idle" /\ source' # <<>> => source' = LatestReplaySource(files'),
         phase' = "active" => version' = version /\ source' = source /\ Active(rt'),
         phase' # "active" => rt' = NoRun
  PROVE  Invariant'
<1>1. files' \in Seq(Seq(Entry)) /\ \A file \in Range(files') : WellNumbered(Parsed(file))
  <2>1. files' \in Seq(Seq(Entry))
    BY DEF Files
  <2>. QED
    BY <2>1, FilesIndexed
<1>2. rt' \in Runtime /\ Len(rt'.calls) <= MaxCalls
  <2>1. CASE phase' = "active"
    BY <2>1 DEF Active
  <2>2. CASE phase' # "active"
    <3>1. rt' = NoRun /\ NoRun \in Runtime /\ NoRun.calls = <<>>
      BY <2>2, NoRunFields
    <3>2. Len(rt'.calls) = 0
      BY <3>1
    <3>. QED
      BY <3>1, <3>2, RunAssumption
  <2>. QED
    BY <2>1, <2>2
<1>3. TypeOK'
  BY <1>1, <1>2 DEF TypeOK
<1>4. RunInv'
  <2>1. ASSUME phase' = "active"
        PROVE  /\ Recorded(rt)'
               /\ (IF Ending(rt) THEN rt.inbox = <<>> ELSE Heard(rt))'
               /\ (IF rt.replaying THEN Replays(rt) ELSE Runs(rt))'
               /\ (~Ending(rt) /\ rt.replaying => rt.idles > 0)'
               /\ (~Ending(rt) /\ rt.inbox = <<>> => ~IsStuck(rt))'
    BY <2>1, ActiveNext
  <2>. QED
    BY <2>1, <1>1 DEF RunInv
<1>. QED
  BY <1>3, <1>4 DEF Invariant

LEMMA InitInvariant ==
  ASSUME Init
  PROVE  Invariant
<1>1. Init => TypeOK
  <2>1. <<>> \in Seq(Seq(Entry)) /\ <<>> \in Seq(Entry) /\ Len(<<>>) = 0
    OBVIOUS
  <2>2. NoRun \in Runtime /\ Len(NoRun.calls) <= MaxCalls
    BY <2>1, NoRunFields, RunAssumption
  <2>3. DOMAIN << >> = {}
    OBVIOUS
  <2>. QED
    BY <2>1, <2>2, <2>3, RunAssumption DEF Init, TypeOK
<1>2. Init => RunInv
  <2>1. Range(<<>>) = {}
    BY DEF Range
  <2>2. WellNumbered(<<>>)
    BY DEF WellNumbered, Places
  <2>. QED
    BY <2>1, <2>2 DEF Init, RunInv
<1>. QED
  BY <1>1, <1>2 DEF Invariant

\* What the steps of the running script leave alone.
Rests == UNCHANGED <<state, version, files, phase, source>>

LEMMA RunningSteps ==
  ASSUME Invariant, Rests,
         DOMAIN reports' \subseteq [seq : 1 .. MaxCalls, key : Keys],
         \A c \in DOMAIN reports' : reports'[c] \in Values,
         intent' \in {"none", "stop", "cancel", "quit"},
         phase = "active" => Active(rt'), phase # "active" => rt' = rt
  PROVE  Invariant'
<1>1. /\ state' \in {"running", "paused", "failed", "complete", "cancelled"}
      /\ phase' \in {"idle", "resuming", "loading", "active"}
      /\ version' \in Versions
      /\ source' \in Seq(Entry) /\ WellNumbered(source')
      /\ phase' # "idle" /\ source' # <<>> => source' = LatestReplaySource(files')
  BY DEF Invariant, TypeOK, RunInv, Rests
<1>2. Files(files')
  BY InvariantFacts DEF Rests
<1>3. phase' = "active" => version' = version /\ source' = source /\ Active(rt')
  BY DEF Rests
<1>4. phase' # "active" => rt' = NoRun
  BY InvariantFacts DEF Rests
<1>. QED
  BY <1>1, <1>2, <1>3, <1>4, Assembles

\* The disk of the agents' reports.
Reported ==
  /\ DOMAIN reports \subseteq [seq : 1 .. MaxCalls, key : Keys]
  /\ \A c \in DOMAIN reports : reports[c] \in Values

LEMMA HearsStep ==
  ASSUME Invariant, Hears
  PROVE  Invariant'
<1>1. Rests /\ intent' = intent /\ reports' = reports /\ phase = "active"
  BY DEF Hears, disk, Rests
<1>2. version \in Versions /\ StreamOK /\ Active(rt)
  BY <1>1, InvariantFacts
<1>3. version' = version /\ source' = source
  BY <1>1 DEF Rests
<1>4. Active(rt')
  BY <1>2, <1>3, HearsActive
<1>5. Reported /\ intent \in {"none", "stop", "cancel", "quit"}
  BY DEF Invariant, TypeOK, Reported
<1>. QED
  BY <1>1, <1>4, <1>5, RunningSteps DEF Reported

LEMMA AgentSteps ==
  ASSUME Invariant, NEW seq \in 1 .. MaxCalls, AgentStep(seq)
  PROVE  Invariant'
<1>1. Rests /\ intent' = intent /\ phase = "active"
  BY DEF AgentStep, Uses, Ends, Skip, Reports, Agent, disk, Rests
<1>2. version \in Versions /\ Active(rt) /\ rt \in Runtime
  BY <1>1, InvariantFacts
<1>3. Active(rt')
  BY <1>2, AgentActive
<1>4. Reported /\ intent \in {"none", "stop", "cancel", "quit"}
  BY DEF Invariant, TypeOK, Reported
<1>5. Reported'
  <2>1. CASE reports' = reports
    BY <2>1, <1>4 DEF Reported
  <2>2. ASSUME NEW value \in Values, Reports(seq, value) PROVE Reported'
    <3>. DEFINE c == [seq |-> seq, key |-> rt.calls[seq].key]
    <3>1. /\ seq \in DOMAIN rt.calls
          /\ reports' = [d \in DOMAIN reports \cup {c} |-> IF d \in DOMAIN reports THEN reports[d] ELSE value]
      BY <2>2 DEF Reports, Agent
    <3>2. rt.calls[seq].key \in Keys
      BY <3>1, <1>2, RuntimeFields, CallFields
    <3>3. c \in [seq : 1 .. MaxCalls, key : Keys]
      BY <3>2
    <3>. HIDE DEF c
    <3>4. /\ DOMAIN reports' = DOMAIN reports \cup {c}
          /\ \A d \in DOMAIN reports' : reports'[d] = IF d \in DOMAIN reports THEN reports[d] ELSE value
      BY <3>1
    <3>. QED
      BY <3>3, <3>4, <1>4 DEF Reported
  <2>3. reports' = reports \/ \E value \in Values : Reports(seq, value)
    BY DEF AgentStep, Uses, Ends, Skip, disk
  <2>. QED
    BY <2>1, <2>2, <2>3
<1>. QED
  BY <1>1, <1>3, <1>4, <1>5, RunningSteps DEF Reported

LEMMA StopStep ==
  ASSUME Invariant, NEW reason \in {"stop", "cancel"}, Stop(reason)
  PROVE  Invariant'
<1>1. /\ Rests /\ reports' = reports
      /\ phase # "active" => rt' = rt
  BY DEF Stop, disk, Rests
<1>2. Reported /\ intent \in {"none", "stop", "cancel", "quit"}
  BY DEF Invariant, TypeOK, Reported
<1>3. intent' \in {"none", "stop", "cancel", "quit"}
  BY <1>2 DEF Stop, Means
<1>4. phase = "active" => Active(rt')
  BY InvariantFacts, StopActive
<1>. QED
  BY <1>1, <1>2, <1>3, <1>4, RunningSteps DEF Reported

LEMMA QuitStep ==
  ASSUME Invariant, Quit
  PROVE  Invariant'
<1>1. /\ Rests /\ reports' = reports /\ intent' = "quit"
      /\ phase # "active" => rt' = rt
  BY DEF Quit, disk, Rests
<1>2. Reported
  BY DEF Invariant, TypeOK, Reported
<1>3. phase = "active" => Active(rt')
  BY InvariantFacts, QuitActive
<1>. QED
  BY <1>1, <1>2, <1>3, RunningSteps DEF Reported

LEMMA TerminatedStep ==
  ASSUME Invariant, Terminated
  PROVE  Invariant'
<1>1. /\ Rests /\ reports' = reports /\ intent' = intent /\ phase = "active"
  BY DEF Terminated, disk, Rests
<1>2. Reported /\ intent \in {"none", "stop", "cancel", "quit"}
  BY DEF Invariant, TypeOK, Reported
<1>3. Active(rt')
  BY <1>1, InvariantFacts, TerminatedActive
<1>. QED
  BY <1>1, <1>2, <1>3, RunningSteps DEF Reported

LEMMA StutterStep ==
  ASSUME Invariant, UNCHANGED vars
  PROVE  Invariant'
<1>1. Rests /\ reports' = reports /\ intent' = intent /\ rt' = rt
  BY DEF vars, Rests
<1>2. Reported /\ intent \in {"none", "stop", "cancel", "quit"}
  BY DEF Invariant, TypeOK, Reported
<1>3. phase = "active" => Active(rt')
  BY <1>1, InvariantFacts
<1>. QED
  BY <1>1, <1>2, <1>3, RunningSteps DEF Reported

\* The types of the driver and of the disk.
Settings ==
  /\ state \in {"running", "paused", "failed", "complete", "cancelled"}
  /\ phase \in {"idle", "resuming", "loading", "active"}
  /\ intent \in {"none", "stop", "cancel", "quit"}
  /\ version \in Versions /\ Reported
  /\ source \in Seq(Entry) /\ WellNumbered(source)
  /\ phase # "idle" /\ source # <<>> => source = LatestReplaySource(files)

LEMMA SettingsHold ==
  ASSUME Invariant
  PROVE  Settings
BY DEF Invariant, TypeOK, RunInv, Settings, Reported

LEMMA Ready ==
  ASSUME Settings', Files(files'),
         phase' = "active" => version' = version /\ source' = source /\ Active(rt'),
         phase' # "active" => rt' = NoRun
  PROVE  Invariant'
BY Assembles DEF Settings, Reported

LEMMA StartsStep ==
  ASSUME Invariant, Starts
  PROVE  Invariant'
<1>1. /\ phase' = "active" /\ rt' = Started /\ phase = "loading"
      /\ UNCHANGED <<state, version, files, reports, intent, source>>
  BY DEF Starts, disk
<1>2. Settings' /\ Files(files')
  BY <1>1, SettingsHold, InvariantFacts DEF Settings, Reported
<1>3. Active(rt')
  BY <1>1, InvariantFacts, StartedActive
<1>. QED
  BY <1>1, <1>2, <1>3, Ready

LEMMA SettlesStep ==
  ASSUME Invariant, Settles
  PROVE  Invariant'
<1>1. /\ phase' = "idle" /\ intent' = "none" /\ source' = <<>> /\ rt' = NoRun
      /\ state' = StateAfter(rt.outcome) /\ files' = Closed(rt.journal)
      /\ version' = version /\ reports' = reports
  BY DEF Settles
<1>2. state' \in {"running", "paused", "failed", "complete", "cancelled"}
  BY <1>1 DEF StateAfter
<1>3. Files(files')
  <2>1. rt.journal \in Seq(Entry) /\ WellNumbered(Parsed(rt.journal)) /\ Files(files)
    BY InvariantFacts, ParsedIsPrefix
  <2>. QED
    BY <2>1, <1>1, ClosedFiles
<1>4. source' \in Seq(Entry) /\ WellNumbered(source')
  <2>1. Places(<<>>, "issue") = {} /\ Places(<<>>, "done") = {}
    BY DEF Places
  <2>. QED
    BY <2>1, <1>1 DEF WellNumbered
<1>5. Settings'
  BY <1>1, <1>2, <1>4, SettingsHold DEF Settings, Reported
<1>. QED
  BY <1>1, <1>3, <1>5, Ready

LEMMA CancelIdleStep ==
  ASSUME Invariant, CancelIdle
  PROVE  Invariant'
<1>1. /\ phase # "active" /\ state' = "cancelled"
      /\ UNCHANGED <<version, files, reports, phase, intent, source, rt>>
  BY DEF CancelIdle
<1>2. Settings' /\ Files(files') /\ rt' = NoRun
  BY <1>1, SettingsHold, InvariantFacts DEF Settings, Reported
<1>. QED
  BY <1>1, <1>2, Ready

LEMMA ResumeStep ==
  ASSUME Invariant, NEW latest \in Versions, Resume(latest)
  PROVE  Invariant'
<1>1. /\ phase = "idle" /\ phase' = "resuming" /\ version' = latest
      /\ source' = LatestReplaySource(files)
      /\ UNCHANGED <<state, files, reports, intent, rt>>
  BY DEF Resume
<1>2. source' \in Seq(Entry) /\ WellNumbered(source') /\ Files(files') /\ rt' = NoRun
  BY <1>1, InvariantFacts, SourceRecord
<1>3. Settings'
  BY <1>1, <1>2, SettingsHold DEF Settings, Reported
<1>. QED
  BY <1>1, <1>2, <1>3, Ready

LEMMA ResumeSavesStep ==
  ASSUME Invariant, ResumeSaves
  PROVE  Invariant'
<1>1. /\ phase = "resuming" /\ phase' = "loading" /\ state' = "running"
      /\ UNCHANGED <<version, files, reports, intent, source, rt>>
  BY DEF ResumeSaves
<1>2. Settings' /\ Files(files') /\ rt' = NoRun
  BY <1>1, SettingsHold, InvariantFacts DEF Settings, Reported
<1>. QED
  BY <1>1, <1>2, Ready

LEMMA CrashStep ==
  ASSUME Invariant, Crash
  PROVE  Invariant'
<1>1. /\ phase' = "idle" /\ intent' = "none" /\ source' = <<>> /\ rt' = NoRun
      /\ state' = (IF state = "running" THEN "paused" ELSE state)
      /\ version' = version /\ reports' = reports
  BY DEF Crash
<1>2. Files(files')
  BY InvariantFacts, CrashLeaves
<1>3. source' \in Seq(Entry) /\ WellNumbered(source')
  <2>1. Places(<<>>, "issue") = {} /\ Places(<<>>, "done") = {}
    BY DEF Places
  <2>. QED
    BY <2>1, <1>1 DEF WellNumbered
<1>4. Settings'
  BY <1>1, <1>3, SettingsHold DEF Settings, Reported
<1>. QED
  BY <1>1, <1>2, <1>4, Ready

LEMMA NextInvariant ==
  ASSUME Invariant, [Next]_vars
  PROVE  Invariant'
<1>1. CASE UNCHANGED vars
  BY <1>1, StutterStep
<1>2. CASE Hears
  BY <1>2, HearsStep
<1>3. CASE Terminated
  BY <1>3, TerminatedStep
<1>4. CASE Starts
  BY <1>4, StartsStep
<1>5. CASE Settles
  BY <1>5, SettlesStep
<1>6. CASE ResumeSaves
  BY <1>6, ResumeSavesStep
<1>7. CASE \E seq \in 1 .. MaxCalls : AgentStep(seq)
  BY <1>7, AgentSteps
<1>8. CASE Stop("stop") \/ Stop("cancel")
  BY <1>8, StopStep
<1>9. CASE Quit
  BY <1>9, QuitStep
<1>10. CASE CancelIdle
  BY <1>10, CancelIdleStep
<1>11. CASE \E latest \in Versions : Resume(latest)
  BY <1>11, ResumeStep
<1>12. CASE Crash
  BY <1>12, CrashStep
<1>. QED
  BY <1>1, <1>2, <1>3, <1>4, <1>5, <1>6, <1>7, <1>8, <1>9, <1>10, <1>11, <1>12 DEF Next

-----------------------------------------------------------------------------
(* The theorems.                                                            *)

LEMMA InvariantHolds == Spec => []Invariant
<1>1. Init => Invariant
  BY InitInvariant
<1>2. Invariant /\ [Next]_vars => Invariant'
  BY NextInvariant
<1>. QED
  BY <1>1, <1>2, PTL DEF Spec

(* The state of the disk, the driver and the runtime has its type, through  *)
(* every handler of the runtime, every crash and every resume.              *)
THEOREM TypeCorrect == Spec => []TypeOK
<1>1. Invariant => TypeOK
  BY DEF Invariant
<1>. QED
  BY <1>1, InvariantHolds, PTL

(* The invariant the other theorems rest on.                                *)
THEOREM RunInvariant == Spec => []RunInv
<1>1. Invariant => RunInv
  BY DEF Invariant
<1>. QED
  BY <1>1, InvariantHolds, PTL

LEMMA WellNumberedAnswers ==
  ASSUME NEW rec \in Seq(Entry), WellNumbered(rec), NEW i \in DOMAIN rec, rec[i].t = "done"
  PROVE  /\ \E j \in 1 .. i - 1 : rec[j].t = "issue" /\ rec[j].seq = rec[i].seq
         /\ DonesOf(rec, rec[i].seq) = {i}
<1>1. i \in Places(rec, "done") /\ DOMAIN rec = 1 .. Len(rec) /\ Len(rec) \in Nat
  BY DEF Places
<1>2. PICK j \in Places(rec, "issue") : j < i /\ rec[j].seq = rec[i].seq
  BY <1>1 DEF WellNumbered
<1>3. j \in 1 .. i - 1 /\ rec[j].t = "issue"
  BY <1>1, <1>2 DEF Places
<1>4. \A k \in DonesOf(rec, rec[i].seq) : k = i
  BY <1>1 DEF WellNumbered, DonesOf, Places
<1>5. i \in DonesOf(rec, rec[i].seq)
  BY DEF DonesOf
<1>. QED
  BY <1>2, <1>3, <1>4, <1>5

(* "Nothing is delivered twice": a record answers a call once, and after it *)
(* was issued.  Handlers answer only calls that have no answer, a replay    *)
(* records each delivery again under the same number, and a salvage after a *)
(* crash adds an answer only to calls the newest generation had not         *)
(* answered; a lost suffix of a record is still such a record.              *)
THEOREM AnsweredOnceHolds == Spec => []AnsweredOnce
<1>1. Invariant => AnsweredOnce
  <2>. SUFFICES ASSUME Invariant PROVE AnsweredOnce
    OBVIOUS
  <2>1. ASSUME NEW rec \in Records PROVE rec \in Seq(Entry) /\ WellNumbered(rec)
    <3>1. CASE rec = rt.journal
      BY <3>1, InvariantFacts
    <3>2. CASE rec \in {Parsed(file) : file \in Range(files)}
      <4>1. PICK i \in DOMAIN files : rec = Parsed(files[i])
        BY <3>2 DEF Range
      <4>2. files[i] \in Seq(Entry) /\ WellNumbered(Parsed(files[i]))
        BY InvariantFacts, FilesIndexed DEF Files
      <4>. QED
        BY <4>1, <4>2, ParsedIsPrefix
    <3>. QED
      BY <3>1, <3>2 DEF Records
  <2>. QED
    BY <2>1, WellNumberedAnswers DEF AnsweredOnce
<1>. QED
  BY <1>1, InvariantHolds, PTL

(* No agent is started again for a call whose usable answer is in the       *)
(* record: during the replay no agent is started at all, and whatever a     *)
(* divergence or the end of the record leaves over is delivered, unless its *)
(* answer depended on limits.                                               *)
THEOREM ResultsReused == Spec => []ResultsAreReused
<1>1. Invariant => ResultsAreReused
  <2>. SUFFICES ASSUME Invariant, NEW s \in DOMAIN rt.calls,
                       rt.calls[s].at \in Execution \cup {"queued"}, s \in Matched(rt), HasDone(s)
                PROVE  RerunsOnResume(DoneOf(s))
    BY DEF ResultsAreReused
  <2>1. CASE phase = "active"
    <3>1. Active(rt)
      BY <2>1, InvariantFacts
    <3>2. Runs(rt)
      BY <3>1, AgentsRun
    <3>. QED
      BY <3>2 DEF Runs
  <2>2. CASE phase # "active"
    <3>1. rt.calls = <<>>
      BY <2>2, InvariantFacts, NoRunFields
    <3>. QED
      BY <3>1
  <2>. QED
    BY <2>1, <2>2
<1>. QED
  BY <1>1, InvariantHolds, PTL

(* A started script is never left to wait for nothing: if no message is on  *)
(* its way and no agent runs, the run is ending.  A queued call has a       *)
(* running agent to wait for, a replay a guest that is not idle yet, and    *)
(* when every call is answered and the guest idles, the run was failed.     *)
THEOREM NothingHangsHolds == Spec => []NothingHangs
<1>1. Invariant => NothingHangs
  <2>. SUFFICES ASSUME Invariant, phase = "active", rt.inbox = <<>>, Executing(rt) = {}, ~Ending(rt)
                PROVE  FALSE
    BY DEF NothingHangs
  <2>1. Active(rt) /\ rt \in Runtime
    BY InvariantFacts
  <2>2. Heard(rt) /\ ~IsStuck(rt) /\ rt.idles \in Nat
    BY <2>1, RuntimeFields DEF Active
  <2>3. rt.idles = 0
    <3>1. ~EndComes(<<>>) /\ Idling(<<>>) = {}
      BY DEF EndComes, Idling
    <3>2. Cardinality({}) = 0
      BY FS_EmptySet
    <3>. QED
      <4>1. rt.idles <= Cardinality(Idling(rt.inbox))
        BY <2>2, <3>1 DEF Heard
      <4>2. Idling(rt.inbox) = {}
        BY <3>1
      <4>3. rt.idles <= 0
        BY <4>1, <4>2, <3>2
      <4>. QED
        BY <4>3, <2>2
  <2>4. ~rt.replaying /\ Runs(rt)
    <3>1. rt.replaying => rt.idles > 0
      BY <2>1 DEF Active
    <3>2. ~rt.replaying
      BY <2>3, <3>1
    <3>. QED
      BY <2>1, <3>2 DEF Active
  <2>5. \A s \in DOMAIN rt.calls : rt.calls[s].at = "answered"
    <3>. SUFFICES ASSUME NEW s \in DOMAIN rt.calls PROVE rt.calls[s].at = "answered"
      OBVIOUS
    <3>1. rt.calls[s].at \notin Execution
      BY DEF Executing
    <3>2. rt.calls[s].at # "queued" /\ rt.calls[s].at # "cached"
      BY <2>4 DEF Runs
    <3>3. rt.calls[s].at # "stopped"
      BY <2>2 DEF Heard
    <3>4. rt.calls[s].at \in {"working", "over", "cached", "queued", "answered", "stopped"}
      BY <2>1, RuntimeFields, CallFields
    <3>. QED
      BY <3>1, <3>2, <3>3, <3>4 DEF Execution
  <2>6. IsStuck(rt)
    BY <2>3, <2>4, <2>5 DEF IsStuck
  <2>. QED
    BY <2>2, <2>6
<1>. QED
  BY <1>1, InvariantHolds, PTL

(* A crash in the middle of a replay: what was written of the new           *)
(* generation has no "live", so the next resume replays the older one, and  *)
(* at most a salvaged answer has come to it.                                *)
THEOREM CrashKeeps == Spec => CrashKeepsTheSource
<1>1. ASSUME Invariant, Crash, phase = "active", rt.replaying
      PROVE  IsPrefix(LatestReplaySource(files), LatestReplaySource(files'))
  <2>1. Files(files) /\ ReportsOK /\ rt.journal \in Seq(Entry) /\ WellNumbered(rt.journal)
    BY <1>1, InvariantFacts
  <2>2. Replays(rt)
    BY <1>1, InvariantFacts DEF Active
  <2>3. ~Has(rt.journal, "live") /\ source # <<>>
    BY <2>2 DEF Replays
  <2>4. source = LatestReplaySource(files)
    BY <1>1, <2>3 DEF Invariant, RunInv
  <2>. QED
    BY <1>1, <2>1, <2>3, <2>4, CrashLeaves
<1>. QED
  BY <1>1, InvariantHolds, PTL DEF CrashKeepsTheSource

=============================================================================
