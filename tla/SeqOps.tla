------------------------------- MODULE SeqOps -------------------------------
(***************************************************************************)
(* The queue operations the models share, on sequences.  They are defined  *)
(* here and not taken from SequencesExt so that the proofs that use them   *)
(* have few definitions in their context, and what goes through a sequence *)
(* is written as a recursive function, about which lemmas can be proved    *)
(* (SeqOpsProofs).                                                         *)
(***************************************************************************)
EXTENDS Naturals, Sequences, Functions

\* the remove-if loops of the repository, which go through a queue once from
\* its front and carry over what is to stay: the elements of s that are in S
Keep(s, S) ==
    LET upto[i \in 0 .. Len(s)] ==
            IF i = 0 THEN <<>>
            ELSE IF s[i] \in S THEN Append(upto[i - 1], s[i])
                               ELSE upto[i - 1]
    IN  upto[Len(s)]

\* s from its last element to its first: what pushing each to the front gives
Reversed(s) == [i \in 1 .. Len(s) |-> s[Len(s) + 1 - i]]

\* s with its i-th element erased
Without(s, i) == SubSeq(s, 1, i - 1) \o SubSeq(s, i + 1, Len(s))

\* what the entries of v, a sequence of numbers, come to
Total(v) ==
    LET upto[i \in 0 .. Len(v)] == IF i = 0 THEN 0 ELSE upto[i - 1] + v[i]
    IN  upto[Len(v)]
=============================================================================
