------------------------------- MODULE Zenzai -------------------------------
(***************************************************************************)
(* Neural conversion: the loop of crates/daemon/src/zenz.rs that drafts    *)
(* candidates with the dictionary, has the language model review them and  *)
(* drafts again under the prefix the model asks for, with the evaluator of *)
(* crates/converter/src/zenz.rs and what engine.rs does around it.         *)
(*                                                                         *)
(* Every connection has an evaluator, which its sessions share and whose   *)
(* verdicts are cached; every session has a cache that carries a           *)
(* constraint to its next request; all connections share one model (module *)
(* LlamaCache), locked for one call at a time, so that their requests      *)
(* interleave between the calls.                                           *)
(*                                                                         *)
(* A character is one token.  A candidate is the sequence of its entries;  *)
(* their values add up, without the connection and meaning costs of module *)
(* Lattice.  Logits are integers.                                          *)
(***************************************************************************)
EXTENDS LlamaCache, PrefixConstraints

CONSTANTS
    Connections,
    SessionsOf,         \* the sessions of each connection
    MaxRequests,        \* bound: the requests that are made
    Targets,            \* the readings that are converted, each with the
                        \* whole of which it is the part before the cursor
    LeftContexts,       \* the texts left of the cursor
    AcceptedPredictions,\* the predictions a user can have accepted with Tab
    Letters,            \* letters of a reading that wait for more keys
    Nexts,              \* the kana such a letter can become
    Kana,               \* the kana the model can generate
    Dictionary,         \* the entries, of every source, as a sequence
    Vocabulary,         \* the tokens the model can answer with, as a sequence
    Models,             \* the language models
    Logits(_, _),       \* the logits of a model after a sequence of tokens
    Ln(_),              \* the logarithm, in the units of the logits
    HalfGap, QuarterGap,\* logits this far apart have ratio 1/2, 1/4
    InferenceLimit,     \* zenz.inference_limit
    PredictionLength,   \* tokens generated for a prediction (10 in the code)
    EvaluationCapacity, \* verdicts an evaluator keeps (256)
    RichModes,          \* whether rich candidates are requested
    Separated,          \* zenz.alignment_separator
    Predictive,         \* zenz.predictive_input
    Personalized,       \* whether n-gram personalization is configured
    Shift(_, _),        \* what personalization adds to a token after a prefix
    Faults              \* whether a decoding can fail for a reason of its own

ASSUME LanguageAssumption ==
    /\ Targets \subseteq [input : Seq(Tokens), full : Seq(Tokens)]
    /\ LeftContexts \subseteq Seq(Tokens)
    /\ AcceptedPredictions \subseteq [ruby : Seq(Tokens), words : Seq(Tokens)]
    /\ Dictionary \in Seq([ruby : Seq(Tokens), word : Seq(Tokens), value : Int,
                            source : {"system", "learned", "user"}])
    /\ Vocabulary \in Seq(Tokens) \ {<<>>}
    /\ Kana \subseteq Tokens
    /\ {"|", "in", "out"} \subseteq Tokens     \* Separator, InTag, OutTag

\* What is converted is the head of the whole reading; no reading has the tag
\* that a prompt puts in front of it; a prediction that can be accepted goes
\* on from what is typed.
ASSUME ReadingsAssumption ==
    /\ \A target \in Targets : IsPrefix(target.input, target.full) /\ "in" \notin ToSet(target.full)
    /\ "in" \notin Kana
    /\ \A p \in AcceptedPredictions : p.ruby # <<>>

ASSUME LimitsAssumption ==
    /\ InferenceLimit \in Nat
    /\ PredictionLength \in Nat
    /\ EvaluationCapacity \in Nat \ {0}
    /\ RichModes \subseteq BOOLEAN
    /\ Faults \subseteq BOOLEAN

VARIABLES
    model,      \* the language model (never changes)
    evaluator,  \* per connection: the cached verdicts and the last prompt
    cache,      \* per session: ZenzConversionCache
    work,       \* per connection: the conversion under way, or the last one
    requests

zenzVars == <<model, evaluator, cache, work, requests>>
vars == <<llamaVars, zenzVars>>

Sessions == UNION {SessionsOf[c] : c \in Connections}
EOS == "eos"
Separator == "|"
InTag == "in"
OutTag == "out"
NoConstraint == PrefixConstraint(<<>>, FALSE)
EmptyCache == [input |-> <<>>, constraint |-> NoConstraint, satisfying |-> <<>>, evaluated |-> <<>>]

NoWork == [at |-> "idle", session |-> "none", input |-> <<>>, full |-> <<>>, left |-> <<>>,
           rich |-> FALSE, accepted |-> <<>>, nested |-> FALSE, constraint |-> NoConstraint,
           constructed |-> <<>>, inserted |-> <<>>, draft |-> <<>>, index |-> 0, remaining |-> 0,
           predicted |-> <<>>, evaluated |-> <<>>, inherited |-> FALSE, outcome |-> "none"]

Init ==
    /\ LlamaInit
    /\ model \in Models
    /\ evaluator = [c \in Connections |-> [verdicts |-> <<>>, previous |-> <<>>]]
    /\ cache = [s \in Sessions |-> EmptyCache]
    /\ work = [c \in Connections |-> NoWork]
    /\ requests = 0

----------------------------------------------------------------------------
(***************************************************************************)
(* Drafts: the coverings of a reading that fit the constraint, best first, *)
(* one for each text.  Every node of the search keeps its nBest best paths *)
(* (module Lattice), so that a path it drops can be the only one that      *)
(* would have satisfied the constraint later on.                           *)
(***************************************************************************)
ValueOf(entries) == Fold(LAMBDA sum, e : sum + e.value, 0, entries)
BestFirst(paths) == Ranked(paths, [p \in ToSet(paths) |-> ValueOf(p)])

\* best_candidate: max_by takes the last of those of the greatest value.
BestOf(paths) == Head(BestFirst(Reverse(paths)))
IndexOfBest(paths) == CHOOSE i \in DOMAIN paths : paths[i] = BestOf(paths)

\* The best paths that reach the node of an entry, where "reaching" has the
\* paths to each earlier position, the first for position 0.
PathsWith(entry, input, reaching, nBest, constraint) ==
    LET n == Len(reaching)
        m == n - Len(entry.ruby)
        paths == [i \in DOMAIN reaching[m + 1] |-> Append(reaching[m + 1][i], entry)]
    IN  IF entry.ruby = <<>> \/ m < 0 \/ SubSeq(input, m + 1, n) # entry.ruby THEN <<>>
        ELSE Take(BestFirst(Retained(paths, {p \in ToSet(paths) :
                                PathAllowed(constraint, WordOf(p), entry)})), nBest)

\* unique_candidates: the first path of each text.
FirstOfEachText(paths) ==
    Retained(paths, {p \in ToSet(paths) : \E i \in DOMAIN paths :
        paths[i] = p /\ \A j \in 1 .. i - 1 : WordOf(paths[j]) # WordOf(p)})

Search(input, nBest, constraint) ==
    LET Extended(reaching, n) ==
            Append(reaching, FlattenSeq([i \in DOMAIN Dictionary |->
                                PathsWith(Dictionary[i], input, reaching, nBest, constraint)]))
        paths == Last(Fold(Extended, << << <<>> >> >>, input))
    IN  FirstOfEachText(BestFirst(Retained(paths, {p \in ToSet(paths) \ {<<>>} :
                            PathComplete(constraint, WordOf(p), Last(p))})))

\* Mutant: an accepted prediction does not displace a constraint.
ConstrainedIfFree(accepted, constraint) ==
    IF accepted = <<>> \/ ~ConstraintIsEmpty(constraint) THEN constraint
    ELSE Behind(accepted[1], constraint)

Constrained(accepted, constraint) ==
    IF accepted = <<>> THEN constraint ELSE Behind(accepted[1], constraint)

\* request_zenz_draft.
Drafted(w, nBest, constraint) == Search(w.input, nBest, Constrained(w.accepted, constraint))

\* A reading may end in a letter that waits for more keys.
Pending(input) == input # <<>> /\ Last(input) \in Letters
Base(input) == IF Pending(input) THEN Front(input) ELSE input

KnownPredictions == UNION {[1 .. n -> Kana] : n \in 1 .. PredictionLength}

CandidateSatisfies(candidate, constraint) == IsSatisfiedBy(constraint, WordOf(candidate))

UsesPersonalDictionary(candidate) == \E e \in ToSet(candidate) : e.source # "system"

----------------------------------------------------------------------------
(***************************************************************************)
(* Evaluation of one candidate.                                            *)
(***************************************************************************)
\* The words of an accepted prediction are not reviewed: they, their
\* reading and their entries move to the left context.
FixedPrefix(w, candidate) ==
    {f \in w.constraint.fixed :
        /\ f.length > 0
        /\ f.length <= Len(w.constraint.text)
        /\ IsPrefix(Take(w.constraint.text, f.length), WordOf(candidate))
        /\ f.ruby <= Len(w.input)}

\* A constraint fixes one prefix at most.
FixedLengths(w, candidate) ==
    IF FixedPrefix(w, candidate) = {} THEN [length |-> 0, ruby |-> 0]
    ELSE CHOOSE f \in FixedPrefix(w, candidate) : TRUE

Fixed(w, candidate) == Take(w.constraint.text, FixedLengths(w, candidate).length)

DroppingFixedEntries(entries, length) ==
    LET covered == {k \in 0 .. Len(entries) : Len(WordOf(Take(entries, k))) <= length}
    IN  SubSeq(entries, Max(covered) + 1, Len(entries))

Aligned(input, cursor) == Separated /\ cursor < Len(input)

Prompt(left, user, input, cursor) ==
    WordOf(user) \o RubyOf(user) \o left \o <<InTag>>
        \o (IF Aligned(input, cursor)
            THEN Take(input, cursor) \o <<Separator>> \o SubSeq(input, cursor + 1, Len(input))
            ELSE input)
        \o <<OutTag>>

Question(w, candidate) ==
    LET fixed == Fixed(w, candidate)
        skipped == FixedLengths(w, candidate).ruby
        input == SubSeq(w.full, skipped + 1, Len(w.full))
        cursor == Len(w.input) - skipped
        entries == IF fixed = <<>> THEN candidate
                   ELSE DroppingFixedEntries(candidate, Len(fixed))
        words == SubSeq(WordOf(candidate), Len(fixed) + 1, Len(WordOf(candidate)))
    IN  [prompt |-> Prompt(w.left \o fixed,
                           Retained(entries, {e \in ToSet(entries) : e.source = "user"}),
                           input, cursor),
         text |-> words \o (IF Aligned(input, cursor) THEN <<Separator>> ELSE <<>>),
         original |-> words,
         constraint |-> IF fixed = <<>> THEN w.constraint
                        ELSE [w.constraint EXCEPT !.text = SubSeq(@, Len(fixed) + 1, Len(@)),
                                                  !.fixed = {}],
         rich |-> w.rich,
         segments |-> [i \in DOMAIN entries |->
            [word |-> entries[i].word, ruby |-> entries[i].ruby,
             learned |-> entries[i].source = "learned"]]]

\* Mutant: verdicts on whole texts and on their ends are cached alike.
CacheKeyWithoutReuse(question, reuses) == [question |-> question, reuses |-> FALSE]

CacheKey(question, reuses) == [question |-> question, reuses |-> reuses]

\* The tokens the constraint already requires are not compared again when
\* the last evaluation had the same prompt.
ReusesAddressedPrefix(previous, question) == previous = question.prompt /\ ~question.rich

\* Mutant: the character the model asked for counts as compared, also
\* where the candidate has another one.
AddressedPastTheEnd(question, reuses) ==
    IF reuses THEN Lesser(Len(question.constraint.text), Len(question.original)) ELSE 0

Addressed(question, reuses) ==
    IF reuses THEN CommonPrefixCount(question.original, question.constraint.text) ELSE 0

LearningPriority(count) ==
    CASE count \in 1 .. 4 -> count + 2
      [] count \in 5 .. 15 -> count * 2
      [] OTHER -> 30

\* The bonus of each token of a candidate: that of a learned entry's.
LearnedPriorities(segments) ==
    FlattenSeq([i \in DOMAIN segments |->
        [k \in DOMAIN segments[i].word |->
            IF segments[i].learned THEN Ln(LearningPriority(Len(segments[i].ruby))) ELSE 0]])

PersonalizedLogits(m, path, prefix) ==
    LET logits == Logits(m, path)
    IN  [t \in ToSet(Vocabulary) |-> logits[t]
            + (IF Personalized /\ prefix # <<>> THEN Shift(prefix, t) ELSE 0)] @@ <<>>

\* The first token of those with the greatest logit.
StrictArgmax(row) ==
    Fold(LAMBDA best, t : IF row[t] > row[best] THEN t ELSE best, Vocabulary[1], Vocabulary)

\* The tokens a model nearly chose after a prefix of the text.
AlternativesAt(row, text, i) ==
    LET others == Tail(Take(Ranked(Vocabulary, row), 3))
    IN  IF StrictArgmax(row) # text[i] THEN <<>>
        ELSE [k \in DOMAIN others |-> [gap |-> row[text[i]] - row[others[k]],
                                        text |-> Append(Take(text, i - 1), others[k])]]

\* A learned entry may be less likely than the model's choice by less than
\* its priority.
Excused(row, token, best, priority) ==
    best # EOS /\ priority # 0 /\ row[token] + priority > row[best]

\* evaluate_candidate_tokens, given the paths of the rows from the first
\* token that is compared, as the model m decides.
JudgeBy(m, question, addressed, rows) ==
    LET text == question.text
        priorities == LearnedPriorities(question.segments)
        logits == Evaluated([k \in DOMAIN rows |->
                                PersonalizedLogits(m, rows[k], Take(text, addressed + k - 1))])
        Row(i) == logits[i - addressed]
        Priority(i) == IF i \in DOMAIN priorities THEN priorities[i] ELSE 0
        Rejected(i) ==
            LET row == Row(i)
                best == StrictArgmax(row)
            IN  best # text[i] /\ ~Excused(row, text[i], best, Priority(i))
        compared == (addressed + 1) .. Len(text)
        rejected == {i \in compared : Rejected(i)}
        first == Min(rejected)
        best == StrictArgmax(Row(first))
        alternatives == FlattenSeq([k \in 1 .. (Len(text) - addressed) |->
                            AlternativesAt(Row(addressed + k), text, addressed + k)])
    IN  IF rejected = {}
        THEN [kind |-> "pass", text |-> <<>>,
              alternatives |-> IF question.rich
                               THEN Take(Ranked(alternatives,
                                            [a \in ToSet(alternatives) |-> -a.gap]), 5)
                               ELSE <<>>]
        ELSE [kind |-> IF best = EOS THEN "whole" ELSE "fix",
              text |-> Take(text, first - 1) \o (IF best = EOS THEN <<>> ELSE <<best>>),
              alternatives |-> <<>>]

Judge(question, addressed, rows) == JudgeBy(model, question, addressed, rows)

PrependFixed(fixed, verdict) ==
    [verdict EXCEPT
        !.text = IF verdict.kind = "pass" THEN @ ELSE fixed \o @,
        !.alternatives = [i \in DOMAIN @ |-> [verdict.alternatives[i] EXCEPT !.text = fixed \o @]]]

\* The cache of verdicts, least recently used first.
Cached(verdicts, key) == {i \in DOMAIN verdicts : verdicts[i].key = key}
Touched(verdicts, i) == Append(RemoveAt(verdicts, i), verdicts[i])
Stored(verdicts, key, verdict) ==
    Append(IF Len(verdicts) >= EvaluationCapacity THEN Tail(verdicts) ELSE verdicts,
           [key |-> key, verdict |-> verdict])

----------------------------------------------------------------------------
(***************************************************************************)
(* The cache a session carries from one request to the next.               *)
(***************************************************************************)
\* The words of the last candidate as far as their readings head the input.
InheritedWords(candidate, input) ==
    LET heads == {k \in 0 .. Len(candidate) : IsPrefix(RubyOf(Take(candidate, k)), input)}
    IN  WordOf(Take(candidate, Max(heads)))

ConstraintFor(entry, input) ==
    IF entry.satisfying # <<>>
    THEN PrefixConstraint(InheritedWords(entry.satisfying[1], input), FALSE)
    ELSE IF IsPrefix(entry.input, input)
    THEN [entry.constraint EXCEPT !.eos = FALSE, !.fixed = {}]
    ELSE NoConstraint

\* A prediction is converted with a cache of its own.
OwnCache(w) == IF w.nested THEN EmptyCache ELSE cache[w.session]

Update(w, constraint, satisfying, evaluated) ==
    [input |-> w.input, constraint |-> constraint, satisfying |-> satisfying,
     evaluated |-> evaluated]

\* A convert call on the reading "input", of which "full" is the whole.
Conversion(w, input, full, accepted, rich, entry, nested) ==
    [w EXCEPT !.at = "draft", !.input = input, !.full = full, !.accepted = accepted,
              !.rich = rich, !.nested = nested,
              !.constraint = Constrained(accepted, ConstraintFor(entry, input)),
              !.constructed = <<>>, !.inserted = <<>>, !.draft = <<>>, !.index = 0,
              !.remaining = InferenceLimit, !.evaluated = <<>>, !.inherited = FALSE]

AcceptedFor(input) == {<<>>} \cup {<<p>> : p \in {q \in AcceptedPredictions : IsPrefix(q.ruby, input)}}

Request(c) ==
    \E s \in SessionsOf[c], target \in Targets, left \in LeftContexts, rich \in RichModes :
    \E accepted \in AcceptedFor(target.input) :
        /\ work[c].at = "idle"
        /\ requests < MaxRequests
        /\ requests' = requests + 1
        /\ work' = [work EXCEPT ![c] =
                Conversion([NoWork EXCEPT !.session = s, !.left = left],
                           target.input, target.full, accepted, rich, cache[s], FALSE)]
        /\ UNCHANGED <<llamaVars, model, evaluator, cache>>

(***************************************************************************)
(* The end of a convert call.  The request goes on with a prediction when  *)
(* that is configured and the dictionary has none; the text to predict is  *)
(* generated, or still known from the last request (zenz_prediction_cache, *)
(* kept by module ConversionSession: here any text), and converted in turn.*)
(***************************************************************************)
Settled(w, outcome) ==
    [w EXCEPT !.at = "idle", !.outcome = outcome, !.draft = <<>>, !.index = 0,
              !.constructed = <<>>, !.remaining = 0, !.predicted = <<>>]

PredictionConversion(w, input) ==
    Conversion(w, input, input, w.accepted, FALSE, EmptyCache, TRUE)

After(w) ==
    {Settled(w, "zenz")}
    \cup (IF Predictive /\ ~w.nested
          THEN {[Settled(w, "none") EXCEPT !.at = "generate"]}
               \cup {PredictionConversion(w, w.input \o p) : p \in KnownPredictions}
          ELSE {})

Converted(c, w, entry) ==
    /\ cache' = IF w.nested THEN cache ELSE [cache EXCEPT ![w.session] = entry]
    /\ \E next \in After(w) : work' = [work EXCEPT ![c] = next]

\* A request that exceeds the context falls back to the dictionary; any
\* other error resets the session.
Aborted(c, w, error) ==
    /\ cache' = [cache EXCEPT ![w.session] = EmptyCache]
    /\ work' = [work EXCEPT ![c] =
            [Settled(w, IF error = "capacity" THEN "dictionary" ELSE "internal")
                EXCEPT !.inserted = <<>>, !.evaluated = <<>>]]

(***************************************************************************)
(* The convert loop.                                                       *)
(***************************************************************************)
DraftCount(w) == IF ConstraintIsEmpty(w.constraint) THEN 2 ELSE IF w.rich THEN 3 ELSE 1

Draft(c) ==
    LET w == work[c]
    IN  /\ w.at = "draft"
        /\ \E draft \in {Drafted(w, DraftCount(w), w.constraint)} :
            IF draft = <<>>
            THEN Converted(c, w, Update(w, NoConstraint, <<>>, <<>>))
            ELSE /\ work' = [work EXCEPT ![c] =
                        [w EXCEPT !.at = "review", !.draft = draft,
                                  !.index = IndexOfBest(draft),
                                  !.constructed = @ \o draft]]
                 /\ UNCHANGED cache
        /\ UNCHANGED <<llamaVars, model, evaluator, requests>>

Candidate(w) == w.draft[w.index]
Inserted(w) == [w EXCEPT !.inserted = <<Candidate(w)>> \o @]

OutOfInferences(c) ==
    LET w == work[c]
    IN  /\ w.at = "review"
        /\ w.remaining = 0
        /\ Converted(c, Inserted(w), Update(w, w.constraint, <<Candidate(w)>>, <<>>))
        /\ UNCHANGED <<llamaVars, model, evaluator, requests>>

DefersEvaluation(w) == ~w.rich /\ ~Personalized /\ Pending(w.full)

\* A letter that waits for more keys is not worth a review: the last
\* candidate that passed stays the one to go on from.
Defer(c) ==
    LET w == work[c]
        kept == IF ConstraintIsEmpty(w.constraint) THEN <<>> ELSE OwnCache(w).evaluated
    IN  /\ w.at = "review"
        /\ w.remaining > 0
        /\ DefersEvaluation(w)
        /\ Converted(c, Inserted(w), Update(w, w.constraint, kept, kept))
        /\ UNCHANGED <<llamaVars, model, evaluator, requests>>

(***************************************************************************)
(* What a verdict leads to.                                                *)
(***************************************************************************)
Normalized(text, eos, ignore) ==
    LET cut == {i \in DOMAIN text : text[i] = Separator}
    IN  [PrefixConstraint(IF cut = {} THEN text ELSE Take(text, Min(cut) - 1), eos \/ cut # {})
            EXCEPT !.ignore = ignore]

Combining == {"dakuten", "handakuten"}

RetryCandidates(w, constraint) ==
    {i \in DOMAIN w.draft :
        /\ i # w.index
        /\ CandidateSatisfies(w.draft[i], constraint)
        /\ ToSet(WordOf(w.draft[i])) \cap Combining = {}}

\* Mutant: every draft is converted afresh, with an inference limit of its own.
RedraftAfresh(w, constraint) ==
    [w EXCEPT !.constraint = constraint, !.at = "draft", !.draft = <<>>, !.index = 0,
              !.inserted = <<>>, !.constructed = <<>>, !.remaining = InferenceLimit]

Redraft(w, constraint) ==
    [w EXCEPT !.constraint = constraint, !.at = "draft", !.draft = <<>>, !.index = 0]

\* review_rejection: the conversion goes on with another candidate of the
\* draft, with a new draft, or fails.
Rejected(w, next) ==
    LET same == next = w.constraint
        incremental == IsPrefix(w.constraint.text, next.text)
        constraint == IF same THEN [next EXCEPT !.ignore = TRUE] ELSE next
        retries == IF same \/ incremental THEN RetryCandidates(w, next) ELSE {}
    IN  IF same /\ (next.ignore \/ ~UsesPersonalDictionary(Candidate(w)))
        THEN [w EXCEPT !.at = "failed"]
        ELSE IF retries # {}
        THEN [w EXCEPT !.constraint = constraint, !.index = Min(retries)]
        ELSE Redraft(w, constraint)

\* insert_rich_candidates: what the model nearly chose, behind the first.
Rich(w, alternatives) ==
    LET likely == Retained(alternatives, {a \in ToSet(alternatives) : a.gap < QuarterGap})
        Add(inserted, a) ==
            LET constraint == Normalized(a.text, FALSE, FALSE)
                existing == Retained(w.constructed,
                    {x \in ToSet(w.constructed) : CandidateSatisfies(x, constraint)})
                drafted == Drafted(w, 3, constraint)
                found == IF existing # <<>> THEN <<BestOf(existing)>>
                         ELSE IF a.gap < HalfGap /\ drafted # <<>> THEN <<BestOf(drafted)>>
                         ELSE <<>>
            IN  Take(inserted, 1) \o found \o SubSeq(inserted, 2, Len(inserted))
    IN  Fold(Add, w.inserted, Reverse(likely))

Judged(c, w, verdict) ==
    LET next == [Normalized(verdict.text, verdict.kind = "whole", w.constraint.ignore)
                    EXCEPT !.fixed = w.constraint.fixed]
        rejected == Rejected(w, next)
        candidate == Candidate(w)
    IN  IF verdict.kind = "pass"
        THEN Converted(c, [w EXCEPT !.evaluated = <<candidate>>,
                                    !.inserted = IF w.rich THEN Rich(w, verdict.alternatives)
                                                 ELSE @],
                       Update(w, w.constraint, <<candidate>>, <<candidate>>))
        ELSE IF rejected.at = "failed" THEN Converted(c, w, Update(w, NoConstraint, <<>>, <<>>))
        ELSE work' = [work EXCEPT ![c] = rejected] /\ UNCHANGED cache

Spent(w) == [w EXCEPT !.remaining = @ - 1]

\* One candidate is reviewed: from the cache, without a call when nothing
\* is left to compare, or with one call of the model.
Evaluate(c) ==
    /\ work[c].at = "review"
    /\ work[c].remaining > 0
    /\ ~DefersEvaluation(work[c])
    /\ \E question \in {Question(work[c], Candidate(work[c]))} :
       \E reuses \in {ReusesAddressedPrefix(evaluator[c].previous, question)} :
        LET fixed == Fixed(work[c], Candidate(work[c]))
            verdicts == evaluator[c].verdicts
            key == CacheKey(question, reuses)
            cached == IF Personalized THEN {} ELSE Cached(verdicts, key)
            addressed == Addressed(question, reuses)
            first == work[c].remaining = InferenceLimit
            w == [Inserted(work[c]) EXCEPT !.inherited = IF first THEN addressed > 0 ELSE @]
            Seen(v) == [evaluator EXCEPT ![c] = [verdicts |-> v, previous |-> question.prompt]]
            Keep(verdict) == Seen(IF Personalized THEN verdicts ELSE Stored(verdicts, key, verdict))
            tokens == question.prompt \o Front(question.text)
        IN  \/ /\ cached # {}
               /\ \E i \in cached :
                    /\ evaluator' = Seen(Touched(verdicts, i))
                    /\ Judged(c, Spent(w), PrependFixed(fixed, verdicts[i].verdict))
               /\ UNCHANGED llamaVars
            \/ /\ cached = {}
               /\ addressed = Len(question.text)
               /\ \E verdict \in {Judge(question, addressed, <<>>)} :
                    /\ evaluator' = Keep(verdict)
                    /\ Judged(c, Spent(w), PrependFixed(fixed, verdict))
               /\ UNCHANGED llamaVars
            \/ /\ cached = {}
               /\ addressed < Len(question.text)
               /\ \E broken \in Faults :
                  \E answer \in {LogitsOf(tokens, Len(question.prompt) - 1 + addressed,
                                          Evaluation, broken)} :
                    /\ cells' = answer.cells
                    /\ held' = answer.held
                    /\ IF answer.error = "none"
                       THEN \E verdict \in {Judge(question, addressed, answer.rows)} :
                            /\ evaluator' = Keep(verdict)
                            /\ Judged(c, Spent(w), PrependFixed(fixed, verdict))
                       ELSE /\ evaluator' = Seen(verdicts)
                            /\ Aborted(c, w, answer.error)
    /\ UNCHANGED <<model, requests>>

(***************************************************************************)
(* generate_next_input: one kana for each call, until the model is unsure, *)
(* ends the sentence or has generated enough.  Which of the kana that may  *)
(* follow it is, is left open (repetition penalty and entropy).            *)
(***************************************************************************)
Allowed(w, text) ==
    \/ ~Pending(w.input)
    \/ Nexts[Last(w.input)] = {}
    \/ \E next \in Nexts[Last(w.input)] : IsPrefix(text, next)

Predicted(w) ==
    IF w.predicted = <<>> THEN Settled(w, "zenz")
    ELSE PredictionConversion(w, Base(w.input) \o w.predicted)

Generate(c) ==
    LET w == work[c]
        nexts == {k \in Kana : Allowed(w, Append(w.predicted, k))}
    IN  /\ w.at = "generate"
        /\ \E broken \in Faults :
           \E answer \in {NextLogitsOf(w.left \o <<InTag>> \o Base(w.input) \o w.predicted, broken)} :
            /\ cells' = answer.cells
            /\ held' = answer.held
            /\ IF answer.error # "none" THEN Aborted(c, w, answer.error)
               ELSE /\ \/ \E k \in nexts :
                            LET longer == [w EXCEPT !.predicted = Append(@, k)]
                            IN  work' = [work EXCEPT ![c] =
                                    IF Len(longer.predicted) = PredictionLength
                                    THEN Predicted(longer) ELSE longer]
                       \/ /\ nexts = {} \/ w.predicted # <<>>
                          /\ work' = [work EXCEPT ![c] = Predicted(w)]
                    /\ UNCHANGED cache
        /\ UNCHANGED <<model, evaluator, requests>>

Step(c) == Draft(c) \/ OutOfInferences(c) \/ Defer(c) \/ Evaluate(c) \/ Generate(c)

Next == \E c \in Connections : Request(c) \/ Step(c)

\* The daemon works on a request until it is answered; the model's lock is
\* held for one call and every connection gets it in the end.  This is
\* WF_vars(Step(c)): Step(c) is enabled exactly when the connection is not
\* idle, and each of its steps changes work[c].
Fairness(c) == []<>(work[c].at = "idle") \/ []<><<work'[c] # work[c]>>_work

Spec == Init /\ [][Next]_vars /\ \A c \in Connections : Fairness(c)

----------------------------------------------------------------------------
(***************************************************************************)
(* Properties.                                                             *)
(***************************************************************************)
\* What the model answers from an empty memory.
FreshRows(question, addressed) ==
    [k \in 1 .. (Len(question.text) - addressed) |->
        question.prompt \o Take(question.text, addressed + k - 1)]

\* A cached verdict is the one the model would give now, with an empty
\* memory: neither what the connections decoded in between nor the prefix
\* an evaluation skipped can make the cache answer another question.
VerdictsAreFresh ==
    \A c \in Connections : \A v \in ToSet(evaluator[c].verdicts) :
        LET addressed == Addressed(v.key.question, v.key.reuses)
        IN  v.verdict = Judge(v.key.question, addressed, FreshRows(v.key.question, addressed))

Priorities == {Ln(LearningPriority(Len(e.ruby))) :
                    e \in {d \in ToSet(Dictionary) : d.source = "learned"}} \cup {0}

\* Every token is the model's choice, or close enough for a learned entry.
Tolerated(question) ==
    \A i \in DOMAIN question.text :
        LET row == PersonalizedLogits(model, FreshRows(question, 0)[i], Take(question.text, i - 1))
            best == StrictArgmax(row)
        IN  \/ best = question.text[i]
            \/ \E p \in Priorities : Excused(row, question.text[i], best, p)

\* A candidate reported as evaluated is one the model agrees with from its
\* first token to its last, however many constraints and drafts led to it,
\* unless the prefix skipped first was inherited from another request.
PassedIsTolerated ==
    \A c \in Connections :
        LET w == work[c]
        IN  w.evaluated # <<>> /\ ~w.inherited => Tolerated(Question(w, w.evaluated[1]))

\* No candidate that is offered contradicts the words of a prediction that
\* was accepted with Tab, whatever the model asks for.  One that ends with an
\* entry of the user or of the learning memory can be shorter than they are.
FixedPrefixKept ==
    \A c \in Connections : \A p \in ToSet(work[c].accepted) :
        \A candidate \in ToSet(work[c].inserted) :
            IsPrefix(p.words, WordOf(candidate)) \/ IsPrefix(WordOf(candidate), p.words)

\* Every request is answered, also when the model and the dictionary keep
\* sending each other back to the same prefixes.
EveryRequestEnds ==
    \A c \in Connections : work[c].at # "idle" ~> work[c].at = "idle"

=============================================================================
