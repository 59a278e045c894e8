-------------------------------- MODULE Lists --------------------------------
(* The places a filter lets through, in their order. *)
EXTENDS Integers, Sequences, FiniteSets

\* The k-th of a finite set of integers.
Nth(S, k) == CHOOSE i \in S : Cardinality({j \in S : j <= i}) = k
InOrder(S) == [k \in 1..Cardinality(S) |-> Nth(S, k)]

\* s.filter(e => e in T)
Filtered(s, T) == LET at == InOrder({i \in DOMAIN s : s[i] \in T})
                  IN  [k \in DOMAIN at |-> s[at[k]]]
=============================================================================
