----------------------------- MODULE Collections -----------------------------
(* What the modules compute over sequences and sets. *)
EXTENDS Integers, Sequences, FiniteSets, SequencesExt

(* The members of s that are in T, in their order. *)
Only(s, T) == FoldLeft(LAMBDA t, x : IF x \in T THEN Append(t, x) ELSE t, <<>>, s)

(* The sum of f over S. *)
SumOver(f, S) == MapThenSumSet(LAMBDA x : f[x], S)
=============================================================================
