----------------------------- MODULE LlamaCache -----------------------------
(***************************************************************************)
(* The llama.cpp context (crates/llama/src/lib.rs) that every connection   *)
(* shares: a KV memory with two sequences, one for candidate evaluation    *)
(* and one for next-token requests, and the tokens the wrapper believes    *)
(* each of them holds.  A request decodes only what is not in memory yet,  *)
(* keeping a prefix of its own sequence or sharing one of the other's.     *)
(*                                                                         *)
(* A cell of the memory depends on all the tokens its decoding attended    *)
(* to, so it is represented by them: its path.  The last token of the path *)
(* is the cell's own, its length the position.  The memory is unified: a   *)
(* cell belongs to one sequence or to both, and all count together.        *)
(***************************************************************************)
EXTENDS Integers, Sequences, FiniteSets

CONSTANTS
    Tokens,     \* the vocabulary
    Limit,      \* CONTEXT_TOKEN_LIMIT, for one request
    Capacity    \* the cells of the memory (n_ctx, the same number in the code)

ASSUME BoundsAssumption == Limit \in Nat /\ Capacity \in Nat

VARIABLES
    cells,      \* the cells in use, each with the sequences that own it
    held        \* sequence_tokens: what each sequence is believed to hold

llamaVars == <<cells, held>>

Evaluation == "evaluation"
InputPrediction == "prediction"
Sequences == {Evaluation, InputPrediction}
Other(sequence) == IF sequence = Evaluation THEN InputPrediction ELSE Evaluation

LlamaInit ==
    /\ cells = {}
    /\ held = [s \in Sequences |-> <<>>]

Lesser(m, n) == IF m < n THEN m ELSE n

CommonPrefixCount(left, right) ==
    CHOOSE n \in 0 .. Lesser(Len(left), Len(right)) :
        /\ \A i \in 1 .. n : left[i] = right[i]
        /\ n < Lesser(Len(left), Len(right)) => left[n + 1] # right[n + 1]

(***************************************************************************)
(* The memory operations of llama.cpp.                                     *)
(***************************************************************************)
Owned(memory, sequence) == {c \in memory : sequence \in c.owners}

OwnedBy(cell, owners) == [path |-> cell.path, owners |-> owners]

SeqRemove(memory, sequence, from) ==
    LET released == {c \in Owned(memory, sequence) : Len(c.path) > from}
        rest == {OwnedBy(c, c.owners \ {sequence}) : c \in released}
    IN  (memory \ released) \cup {c \in rest : c.owners # {}}

SeqCopy(memory, source, target, to) ==
    LET shared == {c \in Owned(memory, source) : Len(c.path) <= to}
    IN  (memory \ shared) \cup {OwnedBy(c, c.owners \cup {target}) : c \in shared}

\* What a token decoded at the end of a sequence attends to: the path of
\* the sequence's last cell.
Attended(memory, sequence) ==
    LET paths == {c.path : c \in Owned(memory, sequence)}
    IN  IF paths = {} THEN <<>> ELSE CHOOSE p \in paths : \A q \in paths : Len(q) <= Len(p)

Decoded(memory, sequence, suffix) ==
    LET past == Attended(memory, sequence)
    IN  {[path |-> past \o SubSeq(suffix, 1, i), owners |-> {sequence}] : i \in 1 .. Len(suffix)}

(***************************************************************************)
(* sequence_plan: which cells the request can do without decoding.  The    *)
(* rows it asks for, from "start" (0 for the first token) on, are decoded. *)
(***************************************************************************)
SequencePlan(tokens, start, sequence) ==
    LET current == CommonPrefixCount(held[sequence], tokens)
        other == CommonPrefixCount(held[Other(sequence)], tokens)
    IN  IF other > current /\ Lesser(other, start) > 0
        THEN [copies |-> TRUE, kept |-> Lesser(other, start)]
        ELSE [copies |-> FALSE, kept |-> Lesser(current, start)]

Kept(plan, sequence) ==
    SeqRemove(IF plan.copies
              THEN SeqCopy(SeqRemove(cells, sequence, 0), Other(sequence), sequence, plan.kept)
              ELSE cells,
              sequence, plan.kept)

\* Mutant: a failed decoding forgets the tokens and leaves the cells.
FailedKept(memory, sequence) ==
    [error |-> "decode", rows |-> <<>>, cells |-> memory, held |-> [held EXCEPT ![sequence] = <<>>]]

\* A decoding that fails leaves the sequence empty.
Failed(memory, sequence) ==
    [error |-> "decode", rows |-> <<>>, cells |-> SeqRemove(memory, sequence, 0),
     held |-> [held EXCEPT ![sequence] = <<>>]]

Refused(error) ==
    [error |-> error, rows |-> <<>>, cells |-> cells, held |-> held]

(***************************************************************************)
(* logits: the answer to a request and the memory it leaves.  A row is     *)
(* known by the tokens it was computed from.  Decoding fails when the      *)
(* memory has no room, or for a reason of the device ("broken").           *)
(***************************************************************************)
LogitsOf(tokens, start, sequence, broken) ==
    LET plan == SequencePlan(tokens, start, sequence)
        kept == Kept(plan, sequence)
        new == Decoded(kept, sequence, SubSeq(tokens, plan.kept + 1, Len(tokens)))
        Row(position) == CHOOSE c \in kept \cup new :
                            sequence \in c.owners /\ Len(c.path) = position
    IN  IF Len(tokens) > Limit THEN Refused("capacity")
        ELSE IF start >= Len(tokens) THEN Refused("range")
        ELSE IF broken \/ Cardinality(kept) + Len(tokens) - plan.kept > Capacity
        THEN Failed(kept, sequence)
        ELSE [error |-> "none",
              rows |-> [i \in 1 .. (Len(tokens) - start) |-> Row(start + i).path],
              cells |-> kept \cup new,
              held |-> [held EXCEPT ![sequence] = tokens]]

NextLogitsOf(tokens, broken) ==
    LogitsOf(tokens, IF tokens = <<>> THEN 0 ELSE Len(tokens) - 1, InputPrediction, broken)

----------------------------------------------------------------------------
(***************************************************************************)
(* Properties.                                                             *)
(***************************************************************************)

\* Each sequence owns one cell for every token it is believed to hold,
\* decoded after exactly the tokens before it, whatever the two sequences
\* shared, cut or failed to decode before.
MemoryFollowsTokens ==
    \A s \in Sequences :
        /\ {c.path : c \in Owned(cells, s)} = {SubSeq(held[s], 1, i) : i \in 1 .. Len(held[s])}
        /\ Cardinality(Owned(cells, s)) = Len(held[s])

=============================================================================
