---- MODULE SortedIndices ----
(* PCR indices in order: what list.sort makes of them, and how a TPM lays PCRs out. *)
EXTENDS Integers, FiniteSets

\* The members of a finite set of numbers, the smallest first.
Ascending(S) ==
    CHOOSE s \in [1 .. Cardinality(S) -> S] : \A i, j \in DOMAIN s : i < j => s[i] < s[j]
====
