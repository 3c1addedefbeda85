----------------------------- MODULE Subsequence -----------------------------
\* What Array.prototype.filter keeps, given by its places.
EXTENDS Integers, Sequences, FiniteSets

\* The k-th number of S, the smallest first.
Nth(S, k) == CHOOSE i \in S : Cardinality({j \in S : j < i}) = k - 1

\* What s has at the places S, in its order.
Picked(s, S) == [k \in 1..Cardinality(S) |-> s[Nth(S, k)]]
=============================================================================
