------------------------------- MODULE Filters -------------------------------
(***************************************************************************)
(* The filter of a list: [x for x in s if ...] and the like.  SelectSeq    *)
(* does the same, but a proof can open a fold.                             *)
(***************************************************************************)
EXTENDS Sequences, SequencesExt

\* The elements of s that are in S, in their order.
Kept(s, S) == FoldLeft(LAMBDA kept, x : IF x \in S THEN Append(kept, x) ELSE kept, <<>>, s)
=============================================================================
