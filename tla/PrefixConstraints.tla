------------------------- MODULE PrefixConstraints -------------------------
(***************************************************************************)
(* The constraint Zenzai puts on a lattice search (PrefixConstraint in     *)
(* crates/converter/src/zenz.rs): the text a candidate must start with, or *)
(* be; the prefix an accepted prediction fixes; and how the search applies *)
(* it to a path.  Entries of the user and of the learning memory are only  *)
(* held to the fixed prefix, and so is every entry once "ignore" is set.   *)
(***************************************************************************)
EXTENDS SeqHelpers

RubyOf(entries) == Fold(LAMBDA acc, e : acc \o e.ruby, <<>>, entries)
WordOf(entries) == Fold(LAMBDA acc, e : acc \o e.word, <<>>, entries)

PrefixConstraint(text, eos) == [text |-> text, eos |-> eos, ignore |-> FALSE, fixed |-> {}]
ConstraintIsEmpty(c) == c.text = <<>> /\ ~c.eos

CanContinue(c, words) ==
    \/ IsPrefix(words, c.text)
    \/ ~c.eos /\ IsPrefix(c.text, words)

IsSatisfiedBy(c, words) == IF c.eos THEN words = c.text ELSE IsPrefix(c.text, words)

MatchesFixedPrefix(c, words) ==
    \A f \in c.fixed :
        LET compared == IF Len(words) < f.length THEN Len(words) ELSE f.length
        IN  f.length <= Len(c.text) /\ Take(words, compared) = Take(c.text, compared)

EnforcesConstraint(c, entry) == ~c.ignore /\ entry.source = "system"

PathAllowed(c, words, entry) ==
    IF EnforcesConstraint(c, entry) THEN CanContinue(c, words) ELSE MatchesFixedPrefix(c, words)

PathComplete(c, words, entry) ==
    IF EnforcesConstraint(c, entry) THEN IsSatisfiedBy(c, words) ELSE MatchesFixedPrefix(c, words)

\* The constraint with the words of an accepted prediction ahead of it.
Behind(prediction, c) ==
    LET base == IF IsPrefix(prediction.words, c.text) THEN c
                ELSE PrefixConstraint(prediction.words, FALSE)
    IN  [base EXCEPT !.fixed = {[length |-> Len(prediction.words), ruby |-> Len(prediction.ruby)]}]

=============================================================================
