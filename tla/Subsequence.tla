---------------------------- MODULE Subsequence ----------------------------
(***************************************************************************)
(* What may be left of a sequence when some of its members are taken out:  *)
(* the entries of a batch that a destination has taken.                    *)
(***************************************************************************)
EXTENDS Naturals, Sequences, SequencesExt

(* Numbers up to n, ascending.                                             *)
Ascending(n) ==
    {at \in BoundedSeq(1 .. n, n) : \A i, j \in DOMAIN at : i < j => at[i] < at[j]}

Subsequences(s) == {[i \in DOMAIN at |-> s[at[i]]] : at \in Ascending(Len(s))}
=============================================================================
