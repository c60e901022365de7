------------------------- MODULE ConversionSession -------------------------
(***************************************************************************)
(* One conversion session (crates/converter/src/session.rs) as the daemon  *)
(* drives it (engine.rs, request_candidates_with_context and the key       *)
(* handlers): the text being composed, the candidates of the last request, *)
(* the prediction the user accepted with Tab, and the two caches that keep *)
(* predictions stable while typing goes on.                                *)
(*                                                                         *)
(* Zenzai is represented by what it can do to a session: the prefix        *)
(* constraint of its last draft and the text it generates are arbitrary    *)
(* (module Zenzai has the loop that chooses them).  The learning memory is *)
(* the set of entries it yields (module LearningMemory has its contents).  *)
(***************************************************************************)
EXTENDS Lattice

CONSTANTS
    Pieces,         \* the elements a key event can insert
    MaxEdits,       \* bound: the edits and partial selections
    NBest,          \* n_best of a request
    LeadingCount,   \* candidates kept at the head of the list (5 in the code)
    FirstCount,     \* first-clause candidates kept (5)
    PredictionCount,\* predictions asked for (3, and 5 with Zenzai)
    UserDictionary, \* the entries of the user dictionary
    Shortcuts,      \* the shortcuts of the user dictionary
    Learnable,      \* the entries learning can produce
    Remembered,     \* what learning may yield when the session starts
    TypoModes,      \* whether a request corrects typos
    ModelPrefixes,  \* the texts a model constraint may require
    Rankings,       \* which candidate of its draft the model may settle on
    Generated,      \* the texts the model may generate (katakana)
    PredictionModes \* japanese_prediction: disabled, manual or automatic

VARIABLES
    composing,      \* the text
    context,        \* class and meaning of what was committed before it
    learned,        \* the entries the learning memory yields
    accepted,       \* <<>> or <<reading and words of the accepted prediction>>
    stable,         \* <<>> or <<the stable prediction cache>>
    zenzPrediction, \* <<>> or <<the cache of generated text>>
    result,         \* the last ConversionResult, with what it was about
    edits           \* the edits and partial selections made

vars == <<composing, context, learned, accepted, stable, zenzPrediction, result, edits>>

NoResult == [about |-> NoText, segment |-> FALSE, zenz |-> FALSE,
             main |-> <<>>, predictions |-> <<>>, first |-> <<>>]

Init ==
    /\ composing = NoText
    /\ context = StartContext
    /\ learned \in Remembered
    /\ accepted = <<>>
    /\ stable = <<>>
    /\ zenzPrediction = <<>>
    /\ result = NoResult
    /\ edits = 0

Additional == UserDictionary \o InSomeOrder(learned)

(***************************************************************************)
(* The accepted prediction holds while its reading heads the text.         *)
(***************************************************************************)
\* Mutant: an edit of its reading does not release it.
AcceptedPredictionKept(text) == accepted

AcceptedPrediction(text) ==
    IF accepted # <<>> /\ IsPrefix(accepted[1].ruby, ToKatakana(text.surface))
    THEN accepted ELSE <<>>

CandidateDictionaryText(c) == IF WordOf(c.entries) = <<>> THEN c.text ELSE WordOf(c.entries)

ConstrainZenzPrefix(text, constraint) ==
    LET kept == AcceptedPrediction(text)
    IN  IF kept = <<>> THEN constraint ELSE Behind(kept[1], constraint)

(***************************************************************************)
(* What typing goes on from: the text without the letters that are still   *)
(* to become kana, when some mapping can complete them.                    *)
(***************************************************************************)
SourceFrom(text, roman, nexts) ==
    IF LastStyle(text) = Direct \/ roman = 0 \/ nexts = {}
    THEN [base |-> text.surface, nexts |-> {}, dropped |-> 0]
    ELSE [base |-> Take(text.surface, Len(text.surface) - roman), nexts |-> nexts,
          dropped |-> roman]

SourceAfter(text, roman) ==
    SourceFrom(text, roman, PossibleNexts(Resolve(LastStyle(text)),
                                          After(text.surface, Len(text.surface) - roman)))

PredictiveInputSource(text) == SourceAfter(text, RomanCount(text.surface))

\* Mutant: the cached predictions are shown for any longer text.
CompatibleUnchecked(cache, text) ==
    [i \in DOMAIN cache.candidates |->
        [cache.candidates[i] EXCEPT !.count = SurfaceCount(Len(text.surface))]]

\* The cached candidates that still continue the reading.
Fitting(candidates, text, ruby, prefixes) ==
    LET fitting == SelectSeq(candidates, LAMBDA c :
                    /\ c.text # <<>>
                    /\ RubyOf(c.entries) # ruby
                    /\ \E p \in prefixes : IsPrefix(p, RubyOf(c.entries)))
    IN  [i \in DOMAIN fitting |->
            [fitting[i] EXCEPT !.count = SurfaceCount(Len(text.surface))]]

CompatibleWith(cache, text, ruby, source) ==
    LET cachedBase == Take(cache.surface, IF Len(cache.surface) < cache.suffix THEN 0
                                          ELSE Len(cache.surface) - cache.suffix)
    IN  IF ~IsPrefix(cachedBase, source.base) THEN <<>>
        ELSE Fitting(cache.candidates, text, ruby,
                     IF source.nexts = {} THEN {ruby}
                     ELSE {ToKatakana(source.base) \o n : n \in source.nexts})

CompatibleCandidates(cache, text) ==
    CompatibleWith(cache, text, ToKatakana(text.surface), PredictiveInputSource(text))

\* The predictions for a text, and the cache they leave.
NewTexts(s, seen) == SelectSeq(s, LAMBDA c : c.text \notin seen)
TextsOf(s) == {s[i].text : i \in DOMAIN s}

WithCache(found, text) ==
    [found |-> found,
     cache |-> IF found = <<>> THEN <<>>
               ELSE <<[surface |-> text.surface, suffix |-> PredictiveInputSource(text).dropped,
                       candidates |-> found]>>]

PredictionsAfter(kept, text, nBest, prefix, toInput) ==
    LET fresh == NewTexts(Predict(text, nBest, context, Additional, toInput), TextsOf(kept))
    IN  WithCache(Take(SelectSeq(kept \o fresh, LAMBDA c : IsPrefix(prefix, c.text)), nBest), text)

Predictions(text, nBest, prefix, toInput) ==
    PredictionsAfter(IF stable = <<>> THEN <<>> ELSE Unique(CompatibleCandidates(stable[1], text)),
                     text, nBest, prefix, toInput)

(***************************************************************************)
(* The candidates a request answers with.  "head" is <<>> or the accepted  *)
(* prediction every candidate must start with; "given" is <<>> or <<the    *)
(* predictions of predictive input, and the stable cache they leave>>.     *)
(***************************************************************************)
ShortcutCandidates(katakana) ==
    LET found == SelectSeq(Shortcuts, LAMBDA e : e.ruby = katakana)
    IN  [i \in DOMAIN found |->
            [Single(found[i].word, Value(found[i]), SurfaceCount(Len(katakana)),
                    found[i].meaning, <<found[i]>>) EXCEPT !.learn = FALSE]]

\* One of the first three covers the whole reading, if any candidate does.
IsWhole(c, katakana) == RubyOf(c.entries) = katakana

InsertThird(whole, others) ==
    InsertAt(others, (IF Len(others) < 2 THEN Len(others) ELSE 2) + 1, whole)

KeepWholeReading(leading, full, katakana) ==
    LET whole == SelectSeq(full, LAMBDA c : IsWhole(c, katakana))
    IN  IF (\E i \in DOMAIN Take(leading, 3) : IsWhole(leading[i], katakana)) \/ whole = <<>>
        THEN leading
        ELSE InsertThird(whole[1], SelectSeq(leading, LAMBDA c : c.text # whole[1].text))

\* The head of the list: the best candidates, shortcuts and predictions.
MergeLeading(full, predictions, katakana, mode) ==
    LET shortcut == Unique(Take(full, LeadingCount) \o ShortcutCandidates(katakana))
    IN  IF mode = "automatic" THEN Unique(shortcut \o predictions) ELSE shortcut

Leading(full, merged, prefix, katakana) ==
    KeepWholeReading(
        Take(StableSort(SelectSeq(merged, LAMBDA c : IsPrefix(prefix, c.text)), ByValue),
             LeadingCount), full, katakana)

FirstClauses(full, prefix) ==
    Take(SelectSeq(
            StableSort(Unique(FlattenSeq([i \in DOMAIN full |-> FirstClauseCandidate(full[i])])),
                       ByRubyThenValue),
            LAMBDA c : IsPrefix(prefix, c.text)), FirstCount)

WordsFor(text, seen) ==
    NewTexts(StableSort(Unique(WordCandidates(text) \o RepresentationCandidates(text)),
                        ByRubyThenValue), seen)

AssembleLists(text, prefix, leading, first, predictions, cache) ==
    [main |-> SelectSeq(leading \o NewTexts(first, TextsOf(leading))
                        \o WordsFor(text, TextsOf(leading) \cup TextsOf(first)),
                        LAMBDA c : IsPrefix(prefix, c.text)),
     predictions |-> predictions, first |-> first, cache |-> cache]

AssembleFrom(text, prefix, full, predictions, mode, cache) ==
    LET katakana == ToKatakana(text.surface)
    IN  AssembleLists(text, prefix,
            Leading(full, MergeLeading(full, predictions, katakana, mode), prefix, katakana),
            FirstClauses(full, prefix), predictions, cache)

AssembleWith(text, candidates, own, prefix, mode) ==
    LET Matching(s) == SelectSeq(s, LAMBDA c : IsPrefix(prefix, c.text))
    IN  AssembleFrom(text, prefix, Matching(candidates), Matching(own.found), mode, own.cache)

HeadWords(head) == IF head = <<>> THEN <<>> ELSE head[1].words

AssembleRequest(text, candidates, given, head, mode, toInput) ==
    AssembleWith(text, candidates,
                 IF mode = "disabled" THEN [found |-> <<>>, cache |-> <<>>]
                 ELSE IF given # <<>> THEN given[1]
                 ELSE Predictions(text, PredictionCount, HeadWords(head), toInput),
                 HeadWords(head), mode)

----------------------------------------------------------------------------
(***************************************************************************)
(* Editing.  Every edit drops what was shown.                              *)
(***************************************************************************)
CountEdit == edits < MaxEdits /\ edits' = edits + 1

Edited(text) ==
    /\ composing' = text
    /\ accepted' = AcceptedPrediction(text)
    /\ result' = NoResult
    /\ UNCHANGED <<learned, stable, zenzPrediction>>

InsertPiece(element) ==
    /\ CountEdit
    /\ \E text \in {Insert(composing, <<element>>)} : Edited(text)
    /\ UNCHANGED context

InsertCompositionSeparator(style) ==
    /\ composing.input # <<>>
    /\ composing.input[Len(composing.input)].piece # Separator
    /\ composing' = Insert(composing, <<Element(Separator, style)>>)
    /\ result' = NoResult
    /\ CountEdit
    /\ UNCHANGED <<context, learned, accepted, stable, zenzPrediction>>

\* Everything of the session but what was learned.
Cleared ==
    /\ composing' = NoText
    /\ context' = StartContext
    /\ accepted' = <<>>
    /\ stable' = <<>>
    /\ zenzPrediction' = <<>>
    /\ result' = NoResult

\* Backspace deletes at the end of the text, wherever the cursor is, and the
\* handler resets the session when nothing is left.
SessionDeleteBackward ==
    /\ composing.surface # <<>>
    /\ \E text \in {DeleteBackward(AtEnd(composing), 1)} :
        IF text.surface = <<>> THEN Cleared /\ UNCHANGED <<learned, edits>>
        ELSE Edited(text) /\ CountEdit /\ UNCHANGED context

----------------------------------------------------------------------------
(***************************************************************************)
(* Requests.  "text" is the text with the cursor the handler gives it.  A  *)
(* segment request (Shift and an arrow) moves the cursor to the end of the *)
(* segment and is about the text up to it; the whole text comes back when  *)
(* the request ends.                                                       *)
(***************************************************************************)
Target(text, segment) == IF segment THEN PrefixToCursor(text) ELSE text

MayRequest == composing.surface # <<>> /\ result = NoResult

Answer(text, target, segment, zenz, assembled) ==
    /\ composing' = text
    /\ result' = [about |-> target, segment |-> segment, zenz |-> zenz,
                  main |-> assembled.main, predictions |-> assembled.predictions,
                  first |-> assembled.first]
    /\ stable' = assembled.cache
    \* begin_segment_request releases an accepted reading that is longer
    /\ accepted' = IF segment THEN AcceptedPrediction(target) ELSE accepted
    /\ UNCHANGED <<context, learned, edits>>

\* The answers of the dictionary.
DictionaryAnswers(target, typo, mode) ==
    {AssembleRequest(target, Convert(target, NBest, context, Additional, typo, {}, toInput),
                     <<>>, <<>>, mode, toInput) : toInput \in SurfaceToInputMaps(target)}

DiscardZenzInferenceState == zenzPrediction' = <<>>

\* A request with Zenzai whose inference ran out of room is answered by the
\* dictionary too, and drops the generated text.
Request(text, segment, typo, mode) ==
    /\ MayRequest
    /\ \E target \in {Target(text, segment)} :
        \E assembled \in DictionaryAnswers(target, typo, mode) :
            Answer(text, target, segment, FALSE, assembled)
    /\ \/ UNCHANGED zenzPrediction
       \/ ~typo /\ DiscardZenzInferenceState

ConstrainedDraft(target, constrained, toInput) ==
    Convert(target, NBest, context, Additional, FALSE,
            IF ConstraintIsEmpty(constrained) THEN {} ELSE {constrained}, toInput)

ZenzDraft(target, constraint, toInput) ==
    ConstrainedDraft(target, ConstrainZenzPrefix(target, constraint), toInput)

ModelConstraints == {PrefixConstraint(p, FALSE) : p \in ModelPrefixes}

\* The values of the leading candidates follow the order Zenzai gave them.
LevelValues(s) ==
    LET leading == StableSort(Take(s, LeadingCount), ByValue)
    IN  [i \in DOMAIN s |-> IF i \in DOMAIN leading
                            THEN [s[i] EXCEPT !.value = leading[i].value] ELSE s[i]]

\* The candidates Zenzai leaves in the session: its last draft, with the
\* candidate it settled on in front.
ZenzCandidates(draft, choice) ==
    LevelValues(IF choice \in DOMAIN draft
                THEN <<draft[choice]>> \o RemoveAt(draft, choice) ELSE draft)

RequestZenz(text, segment, constraint, choice, mode) ==
    /\ MayRequest
    /\ \E target \in {Target(text, segment)} :
        \E assembled \in
                {AssembleRequest(target,
                                 ZenzCandidates(ZenzDraft(target, constraint, toInput), choice),
                                 <<>>, AcceptedPrediction(target), mode, toInput) :
                    toInput \in SurfaceToInputMaps(target)} :
            Answer(text, target, segment, TRUE, assembled)
    /\ UNCHANGED zenzPrediction

(***************************************************************************)
(* Predictive input: without a prediction from the dictionary, the model   *)
(* goes on from what is typed, or the text it generated before is used as  *)
(* long as typing follows it.                                              *)
(***************************************************************************)
GeneratedInsert(text, style) == IF style = "roman" THEN ToHiragana(text) ELSE text

RemainingPrediction(cache, text) ==
    LET base == Take(cache.surface, Len(cache.surface) - cache.suffix)
        typed == SubSeq(text.surface, Len(base) + 1, Len(text.surface))
    IN  IF /\ cache.left = context
           /\ cache.style = LastStyle(text)
           /\ IsPrefix(base, text.surface)
           /\ IsPrefix(typed, GeneratedInsert(cache.text, cache.style))
           /\ Len(typed) < Len(cache.text)
        THEN SubSeq(cache.text, Len(typed) + 1, Len(cache.text)) ELSE <<>>

\* The text without the last graphemes.
Without(text, dropped) == IF dropped > 0 THEN DeleteBackward(text, dropped) ELSE text

InsertStr(text, added, style) ==
    Insert(text, [i \in DOMAIN added |-> Element(Char(added[i]), style)])

PredictedText(text, predicted, dropped) ==
    InsertStr(Without(text, dropped), GeneratedInsert(predicted, LastStyle(text)), LastStyle(text))

\* The model's text, which a pending spelling restricts.
Generates(source) ==
    IF source.nexts = {} THEN Generated
    ELSE {SubSeq(n, 1, i) : n \in source.nexts, i \in 0 .. 1}

\* What goes on from the text, with the generated text kept for the next
\* request: nothing when the dictionary predicts ("found"), the rest of what
\* was generated before, or what the model generates now.
Continuations(target, found, cached) ==
    LET Continuation(text, dropped, kept) == [text |-> text, dropped |-> dropped, kept |-> kept]
        source == PredictiveInputSource(target)
        Kept(g) == IF g = <<>> THEN <<>>
                   ELSE <<[left |-> context, style |-> LastStyle(target),
                           surface |-> target.surface, suffix |-> source.dropped, text |-> g]>>
    IN  IF found # <<>> THEN {Continuation(<<>>, 0, zenzPrediction)}
        ELSE IF cached # <<>> THEN {Continuation(cached, 0, zenzPrediction)}
        ELSE {Continuation(g, source.dropped, Kept(g)) : g \in Generates(source)}

Cached(target) ==
    IF zenzPrediction = <<>> THEN <<>> ELSE RemainingPrediction(zenzPrediction[1], target)

\* The predictions: the dictionary's, or the conversions of the text with
\* its continuation behind it.
ConsumingAll(drafts, target) ==
    [i \in DOMAIN drafts |-> [drafts[i] EXCEPT !.count = SurfaceCount(Len(target.surface))]]

ConversionsOf(predicted, target) ==
    {ConsumingAll(ZenzDraft(predicted, PrefixConstraint(<<>>, FALSE), toInput), target) :
        toInput \in SurfaceToInputMaps(predicted)}

PredictionsWith(target, found, next) ==
    IF found # <<>> \/ next.text = <<>> THEN {found}
    ELSE ConversionsOf(PredictedText(target, next.text, next.dropped), target)

PredictiveAnswer(text, target, segment, mode, candidates, own, toInput) ==
    \E next \in Continuations(target, own.found, Cached(target)) :
        /\ \E found \in PredictionsWith(target, own.found, next) :
            Answer(text, target, segment, TRUE,
                   AssembleRequest(target, candidates, <<[own EXCEPT !.found = found]>>,
                                   AcceptedPrediction(target), mode, toInput))
        /\ zenzPrediction' = next.kept

RequestZenzPrediction(text, segment, constraint, mode) ==
    /\ MayRequest
    /\ \E target \in {Target(text, segment)} : \E toInput \in SurfaceToInputMaps(target) :
        \E candidates \in {ZenzCandidates(ZenzDraft(target, constraint, toInput), 1)},
           own \in {Predictions(target, PredictionCount,
                                HeadWords(AcceptedPrediction(target)), toInput)} :
            PredictiveAnswer(text, target, segment, mode, candidates, own, toInput)

----------------------------------------------------------------------------
(***************************************************************************)
(* What the user does with an answer.                                      *)
(***************************************************************************)
RemainingAfter(text, c) == CompletePrefix(text, c.count).surface

DesktopCandidates ==
    IF result.segment \/ \E i \in DOMAIN result.first :
            RemainingAfter(result.about, result.first[i]) = <<>>
    THEN result.main
    ELSE result.first \o NewTexts(result.main, TextsOf(result.first))

RawInput(input) ==
    LET shown == SelectSeq(input, LAMBDA e : e.piece # Separator)
    IN  [i \in DOMAIN shown |-> shown[i].piece.value]

\* The notations Up adds in front of the list, for the selected candidate.
Notations(selected, ruby, consumed) ==
    LET Notation(text) ==
            [Single(text, 0, selected.count, 501,
                <<[word |-> text, ruby |-> ToKatakana(ruby), left |-> 1288, right |-> 1288,
                   meaning |-> 501, base |-> 0, source |-> "system"]>>) EXCEPT !.learn = FALSE]
    IN  <<Notation(RawInput(Take(composing.input, consumed))),
          Notation(ToKatakana(ruby)), Notation(ToHiragana(ruby))>>

AdditionalCandidates(selected) ==
    Notations(selected, RubyOf(selected.entries),
              Len(composing.input) - Len(CompletePrefix(composing, selected.count).input))

WithAdditional(shown) ==
    IF shown = <<>> THEN <<>> ELSE shown \o AdditionalCandidates(shown[1])

Offered == WithAdditional(DesktopCandidates)

\* The entries learning a candidate adds: its words and the whole of it.
LearnedFrom(c) ==
    {e \in Learnable :
        \/ e.ruby = RubyOf(c.entries) /\ e.word = c.text
        \/ \E i \in DOMAIN c.entries : e.ruby = c.entries[i].ruby /\ e.word = c.entries[i].word}

SelectedRest(c, rest) ==
    IF rest.surface = <<>> THEN Cleared /\ UNCHANGED edits
    ELSE /\ composing' = rest
         /\ context' = IF c.entries = <<>> THEN context
                       ELSE [right |-> c.entries[Len(c.entries)].right, meaning |-> c.meaning]
         /\ accepted' = <<>>
         /\ result' = NoResult
         /\ CountEdit
         /\ UNCHANGED <<stable, zenzPrediction>>

SelectCandidateValue(c) ==
    /\ learned' = IF c.learn THEN learned \cup LearnedFrom(c) ELSE learned
    /\ \E rest \in {CompletePrefix(composing, c.count)} : SelectedRest(c, rest)

\* A learning error resets the session in the handler: see Reset.
Select == \E c \in ToSet(Offered) : SelectCandidateValue(c)

AcceptPredictionCandidate(c) ==
    /\ composing.surface # <<>>
    /\ composing.cursor = Len(composing.surface)
    /\ \E source \in {PredictiveInputSource(composing)}, ruby \in {RubyOf(c.entries)} :
        /\ Extends(ToHiragana(ruby), ToHiragana(source.base))
        /\ composing' = InsertStr(Without(composing, source.dropped),
                                  After(ToHiragana(ruby), Len(source.base)), Direct)
        /\ accepted' = <<[ruby |-> ruby, words |-> CandidateDictionaryText(c)]>>
    /\ result' = NoResult
    /\ stable' = <<>>
    /\ zenzPrediction' = <<>>
    /\ CountEdit
    /\ UNCHANGED <<context, learned>>

Accept == \E c \in ToSet(result.predictions) : ~result.segment /\ AcceptPredictionCandidate(c)

ForgetLearning ==
    /\ \E i \in DOMAIN result.main :
        LET c == result.main[i]
        IN  learned' = {e \in learned : \A k \in DOMAIN c.entries : c.entries[k].word # e.word}
    /\ stable' = <<>>
    /\ result' = NoResult
    /\ UNCHANGED <<composing, context, accepted, zenzPrediction, edits>>

\* Mutant: the cached predictions outlive what they came from.
ResetLearningOnly ==
    /\ learned # {}
    /\ learned' = {}
    /\ result' = NoResult
    /\ UNCHANGED <<composing, context, accepted, stable, zenzPrediction, edits>>

ResetLearning ==
    /\ learned # {}
    /\ learned' = {}
    /\ stable' = <<>>
    /\ result' = NoResult
    /\ UNCHANGED <<composing, context, accepted, zenzPrediction, edits>>

Reset ==
    /\ composing # NoText
    /\ Cleared
    /\ UNCHANGED <<learned, edits>>

Edit ==
    \/ \E element \in Pieces : InsertPiece(element)
    \/ InsertCompositionSeparator("roman")
    \/ SessionDeleteBackward

\* A request about the whole text, or about its first graphemes.
Ask ==
    \E mode \in PredictionModes,
       about \in {<<composing, FALSE>>} \cup
                 {<<[composing EXCEPT !.cursor = to], TRUE>> : to \in DOMAIN composing.surface} :
        \/ \E typo \in TypoModes : Request(about[1], about[2], typo, mode)
        \/ \E c \in ModelConstraints, i \in Rankings :
            RequestZenz(about[1], about[2], c, i, mode)
        \/ /\ mode # "disabled"
           /\ RequestZenzPrediction(about[1], about[2], PrefixConstraint(<<>>, FALSE), mode)

Next == Edit \/ Ask \/ Select \/ Accept \/ ForgetLearning \/ ResetLearning \/ Reset

Spec == Init /\ [][Next]_vars

----------------------------------------------------------------------------
(***************************************************************************)
(* Properties.                                                             *)
(***************************************************************************)

\* The graphemes shown are always the conversion of the keys kept, although
\* insert and complete_prefix patch the surface instead of converting again,
\* and at each position independent_boundaries reports the keys before it
\* and the keys after it convert to the graphemes before it and after it.
SurfaceFollowsKeys ==
    /\ composing.surface = ConvertElements(composing.input)
    /\ composing.cursor \in 0 .. Len(composing.surface)
    /\ \A b \in ToSet(IndependentBoundaries(composing)) :
        /\ ConvertElements(SubSeq(composing.input, 1, b.input))
             = SubSeq(composing.surface, 1, b.surface)
        /\ ConvertElements(SubSeq(composing.input, b.input + 1, Len(composing.input)))
             = SubSeq(composing.surface, b.surface + 1, Len(composing.surface))

\* Wherever the cursor is, deleting any number of graphemes removes exactly
\* these, and an insertion leaves what follows the cursor as it is: keys on
\* the two sides of an edit never combine.
EditsStayLocal ==
    \A at \in 0 .. Len(composing.surface) :
        LET text == MoveCursor(composing, at - composing.cursor)
            before == SubSeq(text.surface, 1, at)
            after == SubSeq(text.surface, at + 1, Len(text.surface))
        IN  /\ \A n \in 1 .. at :
                DeleteBackward(text, n).surface = SubSeq(before, 1, at - n) \o after
            /\ \A n \in 1 .. Len(after) :
                DeleteForward(text, n).surface = before \o SubSeq(after, n + 1, Len(after))
            /\ \A e \in Pieces :
                LET longer == Insert(text, <<e>>)
                IN  SubSeq(longer.surface, longer.cursor + 1, Len(longer.surface)) = after

\* Every covering of the reading by words, and its cost: the reference the
\* search is compared with.
Coverings(text, extra) ==
    LET nodes == ToSet(SurfaceNodes(text, extra))
        Cost(p, node) == p.total + Value(node.entry)
            + (IF p.end = 0 THEN Connection(context.right, node.entry.left)
               ELSE Connection(p.right, node.entry.left))
        Longer(p) == {[end |-> n.range.to, right |-> n.entry.right, total |-> Cost(p, n),
                       words |-> Append(p.words, n.entry)] :
                        n \in {n \in nodes : n.range.from = p.end}}
        Round(paths, i) == UNION {IF p.end = Len(text.surface) THEN {p} ELSE Longer(p) : p \in paths}
    IN  Fold(Round, {[end |-> 0, right |-> 0, total |-> 0, words |-> <<>>]}, text.surface)

\* The beam search loses nothing: a covering it does not return is beaten
\* by NBest coverings that it returns.
NBestExact ==
    LET Totals(found) == [i \in DOMAIN found |-> found[i][Len(found[i])].total]
        WordsOf(found) == {[k \in DOMAIN found[i] |-> found[i][k].entry] : i \in DOMAIN found}
        Beaten(covering, totals) ==
            Cardinality({i \in DOMAIN totals : totals[i] >= covering.total}) >= NBest
        Exact(found) ==
            \A c \in Coverings(composing, Additional) :
                c.words \in WordsOf(found) \/ Beaten(c, Totals(found))
    IN  MayRequest =>
            \A toInput \in SurfaceToInputMaps(composing) :
                Exact(SearchPaths(composing, NBest, context, Additional, FALSE, {}, toInput))

\* What is left after a candidate: the graphemes behind its reading, or,
\* for a corrected reading, some end of the text.
LeavesTheRest(c) ==
    LET rest == RemainingAfter(composing, c)
        ruby == RubyOf(c.entries)
    IN  IF \/ IsPrefix(ruby, ToKatakana(composing.surface))
           \/ IsPrefix(ToKatakana(composing.surface), ruby)
        THEN rest = SubSeq(composing.surface, Len(ruby) + 1, Len(composing.surface))
        ELSE IsSuffix(rest, composing.surface)

\* Choosing a candidate of the whole text consumes its reading and leaves
\* the graphemes behind it as they were shown.
SelectionLeavesTheRest ==
    ~result.segment => \A c \in ToSet(Offered) : LeavesTheRest(c)

\* The same for the candidates of a narrowed target (Shift+Left).
SegmentLeavesTheRest ==
    result.segment => \A c \in ToSet(Offered) : LeavesTheRest(c)

\* Whether entries that are still known spell the accepted words.
Spelled(prediction) ==
    LET nodes == ToSet(SurfaceNodesOf(prediction.ruby, Additional))
        Follows(node, at) ==
            /\ node.range.from = at.ruby
            /\ IsPrefix(node.entry.word, After(prediction.words, at.words))
        Longer(at) == {[ruby |-> n.range.to, words |-> at.words + Len(n.entry.word)] :
                            n \in {n \in nodes : Follows(n, at)}}
        Round(reached, i) == reached \cup UNION {Longer(at) : at \in reached}
    IN  [ruby |-> Len(prediction.ruby), words |-> Len(prediction.words)]
            \in Fold(Round, {[ruby |-> 0, words |-> 0]}, prediction.ruby)

\* A request about a text does not answer with an empty list, whatever
\* constraint the model or an accepted prediction puts on the candidates,
\* unless the words of the accepted prediction were those of an entry that
\* learning has lost since: they are required though nothing spells them.
AlwaysACandidate ==
    result # NoResult /\ result.main = <<>> => accepted # <<>> /\ ~Spelled(accepted[1])

\* With the cursor at the end a prediction continues what is typed: its
\* reading is not the one typed, starts with the kana typed, and completes
\* the letters still pending in a way the input table allows, also when the
\* prediction comes from a cache filled for an earlier text.
PredictionsFollow ==
    LET text == result.about
        source == PredictiveInputSource(text)
        kana == ToKatakana(Take(text.surface, Len(text.surface) - RomanCount(text.surface)))
        heads == IF source.nexts = {} THEN {kana}
                 ELSE {kana \o SubSeq(n, 1, 1) : n \in source.nexts}
    IN  text.cursor = Len(text.surface) => \A i \in DOMAIN result.predictions :
            LET ruby == RubyOf(result.predictions[i].entries)
            IN  ruby # ToKatakana(text.surface) /\ \E h \in heads : IsPrefix(h, ruby)

\* No prediction rests on an entry that learning no longer has, although the
\* stable prediction cache holds candidates of earlier requests.
ForgottenNotPredicted ==
    \A i \in DOMAIN result.predictions : \A e \in ToSet(result.predictions[i].entries) :
        e.source = "learned" => e \in learned

=============================================================================
