----------------------------- MODULE Selections -----------------------------
(* Filters, written as recursive functions so that one can prove about them. *)
EXTENDS Naturals, Sequences

\* The members of S from 1 to n, in increasing order.
Ascending(S, n) ==
  LET upTo[k \in 0 .. n] ==
        IF k = 0 THEN <<>>
        ELSE IF k \in S THEN Append(upTo[k - 1], k) ELSE upTo[k - 1]
  IN upTo[n]

\* The elements of s at the places in S, in their order.
Selected(s, S) ==
  LET upTo[k \in 0 .. Len(s)] ==
        IF k = 0 THEN <<>>
        ELSE IF k \in S THEN Append(upTo[k - 1], s[k]) ELSE upTo[k - 1]
  IN upTo[Len(s)]
=============================================================================
