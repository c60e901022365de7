------------------------------ MODULE Lattice ------------------------------
(***************************************************************************)
(* The dictionary converter (crates/converter/src/lattice.rs): the words   *)
(* that cover a composing text form a lattice; a beam search of width      *)
(* nBest finds the best paths through it, and each path becomes a          *)
(* candidate.  Predictions look up the words that go on from a reading.    *)
(*                                                                         *)
(* Costs are integers in units of one half.  A word is a sequence of       *)
(* graphemes, and a prefix constraint counts graphemes where the code      *)
(* counts bytes.  No reading reaches the maximum entry length of 20.       *)
(***************************************************************************)
EXTENDS ComposingText, PrefixConstraints, FiniteSets

CONSTANTS
    Dictionary,         \* the system entries, shorter readings first
    Connection(_, _),   \* cost of a right class before a left class
    MeaningCost(_, _),  \* cost of a meaning after a meaning
    UnusableRight       \* right classes no prediction may end in

BOS_CLASS_ID == 0
BOS_MEANING_ID == 500
DICTIONARY_THRESHOLD == 0 - 34

(***************************************************************************)
(* Entries.  "source" is system, learned or user (the metadata bits).      *)
(***************************************************************************)
Value(entry) == IF entry.base > 0 THEN 0 ELSE entry.base
Adjusted(entry, by) == [entry EXCEPT !.base = entry.base + by]

ShouldRemove(entry) ==
    LET distance == Value(entry) - DICTIONARY_THRESHOLD
        count == Len(entry.word)
    IN  distance < 0 \/ count = 0 \/ distance * count < 4

TypoAdjustment(entry, penalty) ==
    LET count == IF entry.word = <<>> THEN 1 ELSE Len(entry.word)
    IN  0 - (IF entry.left \in 147 .. 554 THEN (penalty * 5) \div (count * 2)
             ELSE penalty \div count)

SingleCharacterEntries(katakana) ==
    LET hiragana == ToHiragana(<<katakana>>)[1]
        Single(word, base) == [word |-> <<word>>, ruby |-> <<katakana>>, left |-> 1288,
                               right |-> 1288, meaning |-> 501, base |-> base,
                               source |-> "system"]
    IN  IF hiragana = katakana THEN <<Single(katakana, 0 - 28)>>
        ELSE <<Single(hiragana, 0 - 26), Single(katakana, 0 - 28)>>

WordType(class) ==
    CASE class \in {0, 1316} -> 3
      [] class \in {1315, 6} \cup 557 .. 560 -> 0
      [] \/ class \in 561 .. 867 \/ class \in 1283 .. 1296 \/ class \in 1306 .. 1309
         \/ class \in 11 .. 52 \/ class \in 555 .. 556 \/ class \in 1281 .. 1282
         \/ class \in {1314, 3, 2, 4, 5, 1, 9} -> 1
      [] OTHER -> 2

IsClause(former, latter) ==
    WordType(latter) \in {0, 1} /\ WordType(former) \in {1, 2}

IncludesMeaning(entry) ==
    \E class \in {entry.left, entry.right} :
        class \in 895 .. 1280 \/ class \in 1297 .. 1305 \/ WordType(class) = 1

PredictionUsable(right) == right \notin UnusableRight

\* The meaning a clause has once the entry is part of it.
ClauseMeaning(meaning, entry) ==
    IF IncludesMeaning(entry) \/ meaning = BOS_MEANING_ID THEN entry.meaning ELSE meaning

NewClauseMeaning(entry) == IF IncludesMeaning(entry) THEN entry.meaning ELSE BOS_MEANING_ID

StartContext == [right |-> BOS_CLASS_ID, meaning |-> BOS_MEANING_ID]

(***************************************************************************)
(* Stable sorting and removal of repeated texts.                           *)
(***************************************************************************)
Reordered(s, order) == Evaluated([i \in DOMAIN s |-> s[order[i]]])

StableSort(s, Less(_, _)) ==
    Reordered(s, SortSeq([i \in DOMAIN s |-> i], LAMBDA i, j :
                    Less(s[i], s[j]) \/ (~Less(s[j], s[i]) /\ i < j)))

ByValue(a, b) == a.value > b.value
ByRubyThenValue(a, b) ==
    a.rubyCount > b.rubyCount \/ (a.rubyCount = b.rubyCount /\ a.value > b.value)

Unique(candidates) ==
    LET Add(kept, c) ==
            LET same == {i \in DOMAIN kept : kept[i].text = c.text}
                i == CHOOSE i \in same : TRUE
            IN  IF c.text = <<>> THEN kept
                ELSE IF same = {} THEN Append(kept, c)
                ELSE IF kept[i].value < c.value \/ kept[i].rubyCount < c.rubyCount
                THEN [kept EXCEPT ![i] = c]
                ELSE kept
    IN  Fold(Add, <<>>, candidates)

UniqueCandidates(candidates) == StableSort(Unique(candidates), ByValue)

----------------------------------------------------------------------------
(***************************************************************************)
(* Positions.  A position is known by its key index, its grapheme index or *)
(* both: two sets of at most one number.  When several key positions stand *)
(* for one grapheme position (a separator shows nothing) the code keeps    *)
(* the first that iterating a hash map yields: toInput is any such map.    *)
(***************************************************************************)
Inversions(toSurface, surfaces) ==
    LET Keys(s) == {i \in DOMAIN toSurface : toSurface[i] = s}
        Longer(s, maps) == {m @@ (s :> i) : m \in maps, i \in Keys(s)}
    IN  FoldSet(Longer, {<<>>}, surfaces)

InversionsOf(toSurface) == Inversions(toSurface, {toSurface[i] : i \in DOMAIN toSurface})

SurfaceToInputMaps(text) == InversionsOf(InputToSurfaceMap(text))

Dual(toSurface, toInput, by, position) ==
    IF by = "input"
    THEN [input |-> {position},
          surface |-> IF position \in DOMAIN toSurface THEN {toSurface[position]} ELSE {}]
    ELSE [surface |-> {position},
          input |-> IF position \in DOMAIN toInput THEN {toInput[position]} ELSE {}]

\* The order in which the search visits the positions.
Indices(text, toSurface) ==
    LET count == Len(text.surface)
        Surfaces(from, to) == [i \in 1 .. (IF from < to THEN to - from ELSE 0) |->
                                [input |-> {}, surface |-> {from + i - 1}]]
        Visit(acc, i) ==
            LET s == toSurface[i]
            IN  IF i \notin DOMAIN toSurface
                THEN [acc EXCEPT !.order = Append(@, [input |-> {i}, surface |-> {}])]
                ELSE [order |-> acc.order \o Surfaces(acc.next, s)
                        \o <<[input |-> {i},
                              surface |-> IF acc.next <= s /\ s < count THEN {s} ELSE {}]>>,
                      next |-> s + 1]
        visited == Fold(Visit, [order |-> <<>>, next |-> 0],
                            [i \in DOMAIN text.input |-> i - 1])
    IN  visited.order \o Surfaces(visited.next, count)

(***************************************************************************)
(* Nodes: an entry and the range of keys or of graphemes it covers.        *)
(***************************************************************************)
Node(entry, by, from, to) ==
    [entry |-> entry, range |-> [by |-> by, from |-> from, to |-> to]]

NodesFrom(start, entries) ==
    [i \in DOMAIN entries |->
        Node(entries[i], "surface", start, start + Len(entries[i].ruby))]

SurfaceNodesOf(katakana, extra) ==
    LET Covers(e, start) ==
            /\ e.ruby # <<>>
            /\ IsPrefix(e.ruby, SubSeq(katakana, start + 1, Len(katakana)))
            /\ ~ShouldRemove(e)
        Covering(entries, start) == SelectSeq(entries, LAMBDA e : Covers(e, start))
    IN  FlattenSeq([i \in DOMAIN katakana |->
            NodesFrom(i - 1, Covering(Dictionary, i - 1) \o SingleCharacterEntries(katakana[i])
                             \o Covering(extra, i - 1))])

SurfaceNodes(text, extra) == SurfaceNodesOf(ToKatakana(text.surface), extra)

\* The entries of a corrected reading, at the penalty of the correction.
Corrected(exact, penalty) ==
    SelectSeq([i \in DOMAIN exact |-> Adjusted(exact[i], TypoAdjustment(exact[i], penalty))],
              LAMBDA e : ~ShouldRemove(e))

CorrectedNodes(start, consumed, usable) ==
    [i \in DOMAIN usable |-> Node(usable[i], "input", start, start + consumed)]

InputNodesFrom(start, prefixes, extra) ==
    FlattenSeq([i \in DOMAIN prefixes |->
        CorrectedNodes(start, prefixes[i].consumed,
            Corrected(SelectSeq(Dictionary \o extra, LAMBDA e : e.ruby = prefixes[i].ruby),
                      prefixes[i].penalty))])

InputNodes(text, extra) ==
    FlattenSeq([i \in DOMAIN text.input |->
        InputNodesFrom(i - 1, InSomeOrder(TypoPrefixes(After(text.input, i - 1))), extra)])

\* Mutant: a full list keeps its worst path instead of the new one.
InsertUnlessFull(values, value, nBest) ==
    LET index == Cardinality({i \in DOMAIN values : values[i].total >= value.total})
    IN  IF Len(values) >= nBest THEN values ELSE InsertAt(values, index + 1, value)

InsertPredecessor(values, value, nBest) ==
    LET index == Cardinality({i \in DOMAIN values : values[i].total >= value.total})
    IN  IF index = nBest THEN values
        ELSE InsertAt(IF Len(values) >= nBest THEN Front(values) ELSE values, index + 1, value)

\* A path is a sequence of [entry, range, total], total being the cost up to
\* and with the entry.
PathWords(path) == WordOf([i \in DOMAIN path |-> path[i].entry])

\* The paths that end with the node, of those that reach it.
PathsThrough(node, before, context, constraint) ==
    SelectSeq(
        Evaluated([i \in DOMAIN before |->
            Append(before[i].path, [entry |-> node.entry, range |-> node.range,
                total |-> before[i].total + Value(node.entry)
                    + (IF node.range.from = 0 THEN Connection(context.right, node.entry.left)
                       ELSE 0)])]),
        LAMBDA p : \A c \in constraint : PathAllowed(c, PathWords(p), node.entry))

\* What reaches the node "follower" once the completed paths lead to it.
Reaching(follower, values, node, completed, nBest, constraint) ==
    Fold(LAMBDA acc, p :
            IF \A c \in constraint :
                PathAllowed(c, PathWords(p) \o follower.entry.word, follower.entry)
            THEN InsertPredecessor(acc,
                    [path |-> p, total |-> p[Len(p)].total
                        + Connection(node.entry.right, follower.entry.left)], nBest)
            ELSE acc, values, completed)

\* One node of the search: its paths end the text or lead on.
VisitNode(acc, text, nodes, node, completed, next, nBest, constraint) ==
    IF Len(text.surface) \in next.surface \/ Len(text.input) \in next.input
    THEN [acc EXCEPT !.results = @ \o SelectSeq(completed, LAMBDA p :
            \A c \in constraint : PathComplete(c, PathWords(p), node.entry))]
    ELSE [acc EXCEPT !.before = Evaluated([m \in DOMAIN nodes |->
            IF nodes[m].range.from \in next[nodes[m].range.by]
            THEN Reaching(nodes[m], @[m], node, completed, nBest, constraint)
            ELSE @[m]])]

NodesAt(nodes, index) ==
    SelectSeq([n \in DOMAIN nodes |-> n], LAMBDA n :
        nodes[n].range.from \in index[nodes[n].range.by])

NodesInOrder(nodes, indices) ==
    FlattenSeq([i \in DOMAIN indices |-> NodesAt(nodes, indices[i])])

SearchNodes(text, nBest, context, nodes, constraint, toSurface, toInput) ==
    LET Visit(acc, n) ==
            VisitNode(acc, text, nodes, nodes[n],
                      PathsThrough(nodes[n], acc.before[n], context, constraint),
                      Dual(toSurface, toInput, nodes[n].range.by, nodes[n].range.to),
                      nBest, constraint)
        start == [results |-> <<>>,
                  before |-> [n \in DOMAIN nodes |-> IF nodes[n].range.from = 0
                                THEN <<[path |-> <<>>, total |-> 0]>> ELSE <<>>]]
    IN  Fold(Visit, start, NodesInOrder(nodes, Indices(text, toSurface))).results

\* The completed paths in the order they are found.
SearchPaths(text, nBest, context, extra, typo, constraint, toInput) ==
    SearchNodes(text, nBest, context,
                SurfaceNodes(text, extra) \o (IF typo THEN InputNodes(text, extra) ELSE <<>>),
                constraint, InputToSurfaceMap(text), toInput)

----------------------------------------------------------------------------
(***************************************************************************)
(* Candidates.                                                             *)
(***************************************************************************)
RangeCount(range) ==
    IF range.by = "input" THEN InputCount(range.to - range.from)
    ELSE SurfaceCount(range.to - range.from)

CombineCounts(left, right) ==
    IF Len(left) = 1 /\ Len(right) = 1 /\ left[1].by = right[1].by
    THEN <<[left[1] EXCEPT !.count = @ + right[1].count]>>
    ELSE left \o right

CountOf(ranges) ==
    IF ranges = <<>> THEN InputCount(0)
    ELSE Fold(LAMBDA acc, r : CombineCounts(acc, RangeCount(r)),
                  RangeCount(ranges[1]), Tail(ranges))

\* A candidate that did not come from a path; "first" is <<>> or <<clause>>.
Single(text, value, count, meaning, entries) ==
    [text |-> text, value |-> value, count |-> count, meaning |-> meaning,
     entries |-> entries, rubyCount |-> Len(RubyOf(entries)),
     learn |-> TRUE, typo |-> FALSE, first |-> <<>>]

\* The clauses with one for the entry to go into: the last, or a new one.
OpenClause(clauses, last, entry) ==
    IF last.text = <<>> \/ ~IsClause(last.right, entry.left) THEN clauses
    ELSE Append(clauses, [last EXCEPT !.text = <<>>, !.ranges = <<>>,
                                      !.meaning = NewClauseMeaning(entry)])

ExtendClause(clauses, at) ==
    [clauses EXCEPT ![Len(clauses)] =
        [text |-> @.text \o at.entry.word, value |-> at.total,
         meaning |-> ClauseMeaning(@.meaning, at.entry),
         ranges |-> Append(@.ranges, at.range),
         last |-> @.last + 1, right |-> at.entry.right]]

Clauses(path, context) ==
    Fold(LAMBDA clauses, at :
            ExtendClause(OpenClause(clauses, clauses[Len(clauses)], at.entry), at),
         <<[text |-> <<>>, value |-> 0, meaning |-> context.meaning,
            ranges |-> <<>>, last |-> 0, right |-> BOS_CLASS_ID]>>, path)

MeaningValue(meanings, start) ==
    Fold(LAMBDA acc, m : [value |-> acc.value + MeaningCost(acc.last, m), last |-> m],
             [value |-> 0, last |-> start], meanings).value

CandidateOf(path, entries, clauses, last) ==
    [text |-> WordOf(entries),
     value |-> last.value
                + MeaningValue([i \in DOMAIN clauses |-> clauses[i].meaning], BOS_MEANING_ID),
     count |-> CountOf([i \in DOMAIN path |-> path[i].range]),
     meaning |-> last.meaning, entries |-> entries,
     rubyCount |-> Len(RubyOf(entries)), learn |-> TRUE,
     typo |-> \E i \in DOMAIN path : path[i].range.by = "input",
     first |-> <<clauses[1]>>]

CandidateOfClauses(path, clauses) ==
    CandidateOf(path, [i \in DOMAIN path |-> path[i].entry], clauses, clauses[Len(clauses)])

MakeCandidate(path, context) == CandidateOfClauses(path, Clauses(path, context))

\* Mutant: the first clause consumes what the whole candidate does.
FirstClauseOfWhole(c) ==
    IF c.first = <<>> \/ c.first[1].last = Len(c.entries) THEN <<>>
    ELSE <<[c EXCEPT !.text = c.first[1].text, !.value = c.first[1].value, !.first = <<>>,
                     !.entries = SubSeq(@, 1, c.first[1].last)]>>

\* The first clause as a candidate of its own: <<>> when it is the whole.
FirstClauseCandidate(c) ==
    IF c.first = <<>> \/ c.first[1].last = Len(c.entries) THEN <<>>
    ELSE LET f == c.first[1]
             entries == SubSeq(c.entries, 1, f.last)
         IN  <<[text |-> f.text, value |-> f.value, count |-> CountOf(f.ranges),
                meaning |-> f.meaning, entries |-> entries,
                rubyCount |-> Len(RubyOf(entries)), learn |-> c.learn,
                typo |-> c.typo, first |-> <<>>]>>

CandidatesOf(paths, context) ==
    UniqueCandidates(StableSort(
        Evaluated([i \in DOMAIN paths |-> MakeCandidate(paths[i], context)]), ByValue))

Convert(text, nBest, context, extra, typo, constraint, toInput) ==
    IF nBest = 0 \/ text.surface = <<>> THEN <<>>
    ELSE CandidatesOf(SearchPaths(text, nBest, context, extra, typo, constraint, toInput), context)

WordCandidates(text) ==
    LET katakana == ToKatakana(text.surface)
        found == SelectSeq(Dictionary, LAMBDA e : IsPrefix(e.ruby, katakana))
        candidates == [i \in DOMAIN found |->
            Single(found[i].word, Value(found[i]), SurfaceCount(Len(found[i].ruby)),
                   found[i].meaning, <<found[i]>>)]
    IN  StableSort(UniqueCandidates(candidates), ByRubyThenValue)

\* The whole reading in katakana and in hiragana.  The upper-case and the
\* width variants differ from these in characters the model does not have.
RepresentationCandidates(text) ==
    LET katakana == ToKatakana(text.surface)
        Represent(word, value) ==
            Single(word, value, InputCount(Len(text.input)), 501,
                   <<[word |-> word, ruby |-> katakana, left |-> 1288, right |-> 1288,
                      meaning |-> 501, base |-> value, source |-> "system"]>>)
    IN  <<Represent(katakana, 0 - 28), Represent(ToHiragana(katakana), 0 - 29)>>

----------------------------------------------------------------------------
(***************************************************************************)
(* Predictions.                                                            *)
(***************************************************************************)
ScoreEntry(acc, entry, opened) ==
    [any |-> TRUE, right |-> entry.right,
     value |-> acc.value + Connection(acc.right, entry.left) + Value(entry),
     meanings |-> [opened EXCEPT ![Len(opened)] = ClauseMeaning(@, entry)]]

ScoreOf(scored, meaning) ==
    [value |-> scored.value + MeaningValue(scored.meanings, meaning),
     right |-> scored.right, meaning |-> scored.meanings[Len(scored.meanings)]]

ScoreEntries(entries, context) ==
    LET Step(acc, entry) ==
            ScoreEntry(acc, entry, IF acc.any /\ IsClause(acc.right, entry.left)
                                   THEN Append(acc.meanings, NewClauseMeaning(entry))
                                   ELSE acc.meanings)
    IN  IF entries = <<>>
        THEN [value |-> 0, right |-> context.right, meaning |-> context.meaning]
        ELSE ScoreOf(Fold(Step, [any |-> FALSE, right |-> context.right, value |-> 0,
                                 meanings |-> <<context.meaning>>], entries), context.meaning)

MaximumDepth(count) == CASE count = 1 -> 3 [] count = 2 -> 5 [] OTHER -> 700

Extends(ruby, prefix) == IsPrefix(prefix, ruby) /\ ruby # prefix

PredictedCandidate(entry, prefix, before, consumed, score) ==
    Single(WordOf(before) \o entry.word,
           score.value + Connection(score.right, entry.left) + Value(entry)
               + (IF IncludesMeaning(entry) THEN MeaningCost(score.meaning, entry.meaning) ELSE 0)
               - 2 * (Len(entry.ruby) - Len(prefix)),
           SurfaceCount(consumed),
           IF IncludesMeaning(entry) THEN entry.meaning ELSE score.meaning,
           Append(before, entry))

PredictableEntries(prefix, extra) ==
    SelectSeq(Dictionary, LAMBDA e :
        /\ Extends(e.ruby, prefix) /\ PredictionUsable(e.right)
        /\ Len(e.ruby) - Len(prefix) <= MaximumDepth(Len(prefix)))
    \o SelectSeq(extra, LAMBDA e : Extends(e.ruby, prefix))

PredictForScore(prefixes, before, consumed, nBest, extra, score) ==
    LET Of(prefix, found) ==
            [i \in DOMAIN found |-> PredictedCandidate(found[i], prefix, before, consumed, score)]
    IN  Take(UniqueCandidates(StableSort(
                FlattenSeq([i \in DOMAIN prefixes |->
                    Of(prefixes[i], PredictableEntries(prefixes[i], extra))]), ByValue)), nBest)

PredictForRubyPrefixes(prefixes, before, consumed, nBest, context, extra) ==
    PredictForScore(prefixes, before, consumed, nBest, extra, ScoreEntries(before, context))

\* How many graphemes at the end are letters still to be completed.
RomanCount(surface) ==
    LET runs == {n \in 0 .. Len(surface) :
                    \A i \in Len(surface) - n + 1 .. Len(surface) : surface[i] \in Ascii}
    IN  CHOOSE n \in runs : \A m \in runs : m <= n

LastStyle(text) == IF text.input = <<>> THEN Direct ELSE text.input[Len(text.input)].style

PredictPrefixes(text, base, nexts) ==
    IF LastStyle(text) = Direct \/ base = text.surface THEN <<ToKatakana(text.surface)>>
    ELSE IF base = <<>> THEN <<>>
    ELSE [i \in DOMAIN nexts |-> ToKatakana(base) \o nexts[i]]

PredictWholeInput(text, nBest, context, extra) ==
    LET base == Take(text.surface, Len(text.surface) - RomanCount(text.surface))
    IN  PredictForRubyPrefixes(
            PredictPrefixes(text, base,
                InSomeOrder(PossibleNexts(Resolve(LastStyle(text)),
                                          After(text.surface, Len(base))))),
            <<>>, Len(text.surface), nBest, context, extra)

\* A group of predictions: from a clause of the candidate, or from the whole
\* of it when the second group starts behind the first clause.
AddGroup(acc, found, whole) ==
    IF found = <<>> THEN acc
    ELSE [output |-> acc.output \o found \o whole, groups |-> acc.groups + 1]

PredictFromCandidate(text, candidate, nBest, context, extra) ==
    LET entries == candidate.entries
        starts == SelectSeq([i \in DOMAIN entries |-> Len(entries) - i], LAMBDA s :
                    s = 0 \/ IsClause(entries[s].right, entries[s + 1].left))
        PredictFrom(start) ==
            PredictForRubyPrefixes(<<RubyOf(After(entries, start))>>,
                Before(entries, start), Len(text.surface), 5, context, extra)
        Group(acc, start) ==
            IF acc.groups = 2 THEN acc
            ELSE AddGroup(acc, PredictFrom(start),
                          IF acc.groups = 1 /\ start > 0 THEN PredictFrom(0) ELSE <<>>)
    IN  Take(UniqueCandidates(
                Fold(Group, [output |-> <<>>, groups |-> 0], starts).output), nBest)

PredictOrElse(predicted, text, nBest, context, extra) ==
    IF predicted # <<>> THEN predicted ELSE PredictWholeInput(text, nBest, context, extra)

PredictFromBest(text, converted, nBest, context, extra) ==
    PredictOrElse(IF converted = <<>> THEN <<>>
                  ELSE PredictFromCandidate(text, converted[1], nBest, context, extra),
                  text, nBest, context, extra)

Predict(text, nBest, context, extra, toInput) ==
    IF nBest = 0 \/ text.surface = <<>> THEN <<>>
    ELSE PredictFromBest(text, Convert(text, 1, context, extra, FALSE, {}, toInput),
                         nBest, context, extra)

=============================================================================
