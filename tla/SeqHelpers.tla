----------------------------- MODULE SeqHelpers -----------------------------
(***************************************************************************)
(* A few helpers on sequences, in forms TLC evaluates quickly.             *)
(***************************************************************************)
EXTENDS Integers, SequencesExt

\* A sequence as it is; TLC then computes its elements once.
Evaluated(s) == s \o <<>>

\* SequencesExt!FoldLeft, in the form TLC evaluates in linear time.
Fold(op(_, _), base, s) ==
    LET upTo[i \in 0 .. Len(s)] == IF i = 0 THEN base ELSE op(upTo[i - 1], s[i])
    IN  upTo[Len(s)]

\* The elements of s that are in keep, in their order (Vec::retain, filter).
Retained(s, keep) == Fold(LAMBDA kept, x : IF x \in keep THEN Append(kept, x) ELSE kept, <<>>, s)

Take(s, n) == SubSeq(s, 1, IF n > Len(s) THEN Len(s) ELSE n)

\* The elements of s, those of the greatest value first, and elements of the
\* same value in the order they had.
Ranked(s, value) ==
    LET Insert(sorted, x) ==
            LET ahead == {y \in ToSet(sorted) : value[y] >= value[x]}
            IN  Retained(sorted, ahead) \o <<x>> \o Retained(sorted, ToSet(sorted) \ ahead)
    IN  Fold(Insert, <<>>, s)

\* A set as a sequence: no order is promised.
InSomeOrder(set) == FoldSet(LAMBDA x, acc : Append(acc, x), <<>>, set)

=============================================================================
