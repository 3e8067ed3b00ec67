----------------------------- MODULE Subsequences -----------------------------
(***************************************************************************)
(* The part of a sequence that stands at given positions.  It is what      *)
(* SelectSeq returns, named by positions instead of by a test, so that     *)
(* what precedes what in the result can be read off the positions.  And    *)
(* the concatenation of sequences, as a recursive function.                *)
(***************************************************************************)
EXTENDS Naturals, Sequences, FiniteSets

Rank(I, i) == Cardinality({j \in I : j <= i})
Nth(I, k) == CHOOSE i \in I : Rank(I, i) = k
Pick(s, I) == [k \in 1 .. Cardinality(I) |-> s[Nth(I, k)]]

\* The first n sequences of ss, one after the other.
Concat(ss, n) ==
  LET f[i \in 0 .. n] == IF i = 0 THEN << >> ELSE f[i - 1] \o ss[i]
  IN f[n]

Earliest(I) == CHOOSE i \in I : \A j \in I : i <= j
=============================================================================
