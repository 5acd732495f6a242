----------------------------- MODULE SequenceOps -----------------------------
(***************************************************************************)
(* An operator on sequences that several models share.                     *)
(***************************************************************************)
EXTENDS SequencesExt

(* The elements of a sequence that are in a set, in their order: the       *)
(* filters and the loops that skip elements.                               *)
Kept(seq, set) ==
  FlattenSeq([i \in DOMAIN seq |-> IF seq[i] \in set THEN <<seq[i]>> ELSE <<>>])
==============================================================================
