--------------------------- MODULE ComposingText ---------------------------
(***************************************************************************)
(* The text being composed (crates/converter/src/input/composing.rs) and   *)
(* the input tables that turn keys into kana (input/table.rs).  A text is  *)
(* a value: the keys typed, the graphemes they show, and a cursor among    *)
(* the graphemes.  Everything here is a function of its arguments; the     *)
(* session that owns a text is in ConversionSession.                       *)
(*                                                                         *)
(* A grapheme is a string.  A piece is a record: a character, a composition*)
(* separator, or a key with the modifier that was held.  An element pairs  *)
(* a piece with the input style it was typed in.                           *)
(***************************************************************************)
EXTENDS SeqHelpers

CONSTANTS
    Tables,     \* style -> sequence of mappings [key, value]; no entry: Direct
    Katakana,   \* hiragana grapheme -> katakana grapheme
    Ascii       \* the graphemes that are ASCII letters

(***************************************************************************)
(* Pieces, elements and styles.                                            *)
(***************************************************************************)
Char(g) == [kind |-> "char", value |-> g, shift |-> FALSE]
Separator == [kind |-> "separator", value |-> "", shift |-> FALSE]
Key(g, shift) == [kind |-> "key", value |-> g, shift |-> shift]
\* In a mapping: a key that matches any piece, and a value that repeats it.
AnyKey == [kind |-> "any", value |-> "", shift |-> FALSE]
AnyValue == "*"

Direct == "direct"
Frozen == "frozen"

Element(piece, style) == [piece |-> piece, style |-> style]
FrozenSeparator == Element(Separator, Frozen)

\* What a piece shows: nothing for a separator.
Displayed(piece) == IF piece.kind = "separator" THEN <<>> ELSE <<piece.value>>

NoText == [input |-> <<>>, surface |-> <<>>, cursor |-> 0]

(***************************************************************************)
(* Kana, kana.rs: only the kana of the fixed range change.                 *)
(***************************************************************************)
ToKatakana(s) ==
    Evaluated([i \in DOMAIN s |-> IF s[i] \in DOMAIN Katakana THEN Katakana[s[i]] ELSE s[i]])

ToHiragana(s) ==
    Evaluated([i \in DOMAIN s |->
        IF \E h \in DOMAIN Katakana : Katakana[h] = s[i]
        THEN CHOOSE h \in DOMAIN Katakana : Katakana[h] = s[i]
        ELSE s[i]])

----------------------------------------------------------------------------
(***************************************************************************)
(* Input tables.                                                           *)
(***************************************************************************)
CountIf(s, Test(_)) == Len(SelectSeq(s, Test))

\* Does the piece "expected" of a mapping stand for the piece "current"?
PieceMatches(expected, current) ==
    CASE expected.kind = "char" -> Displayed(current) = <<expected.value>>
      [] expected.kind = "separator" -> current.kind = "separator"
      [] expected.kind = "key" -> current = expected
      [] OTHER -> TRUE

\* The last Len(key) pieces of the buffer and the piece added to it.
Recent(buffer, added, count) ==
    Evaluated([i \in 1 .. count |->
        IF i = count THEN added ELSE Char(buffer[Len(buffer) - count + i + 1])])

MatchMapping(mapping, buffer, added) ==
    LET key == mapping.key
        recent == Recent(buffer, added, Len(key))
        wild == {i \in DOMAIN key : key[i] = AnyKey}
    IN  /\ Len(key) \in 1 .. Len(buffer) + 1
        /\ \A i \in DOMAIN key : PieceMatches(key[i], recent[i])
        /\ \A i, j \in wild : recent[i] = recent[j]

\* The order of preference between two mappings that match.
MatchRank(table, m) ==
    <<Len(table[m].key),
      0 - CountIf(table[m].key, LAMBDA e : e = AnyKey),
      CountIf(table[m].key, LAMBDA e : e.kind = "key"),
      0 - m>>

CompareMatches(a, b) == \E k \in 1 .. 4 : a[k] > b[k] /\ \A l \in 1 .. k - 1 : a[l] = b[l]

BestMatch(table, matching) ==
    table[CHOOSE m \in matching :
            \A n \in matching \ {m} : CompareMatches(MatchRank(table, m), MatchRank(table, n))]

\* What a value of a mapping shows, when its wild keys stand for "resolved".
Put(v, resolved) ==
    IF v # AnyValue THEN <<v>>
    ELSE IF resolved = {} THEN <<>>
    ELSE Displayed(CHOOSE p \in resolved : TRUE)

Resolved(mapping, recent) ==
    {recent[i] : i \in {i \in DOMAIN recent : mapping.key[i] = AnyKey}}

ApplyMapping(mapping, buffer, recent) ==
    LET kept == SubSeq(buffer, 1, Len(buffer) - (Len(mapping.key) - 1))
    IN  [buffer |-> kept \o FlattenSeq([i \in DOMAIN mapping.value |->
                                Put(mapping.value[i], Resolved(mapping, recent))]),
         deleted |-> Len(mapping.key) - 1]

ApplyBest(buffer, added, mapping) ==
    ApplyMapping(mapping, buffer, Recent(buffer, added, Len(mapping.key)))

ApplyMatching(table, buffer, added, matching) ==
    IF matching = {}
    THEN [buffer |-> buffer \o Displayed(added), deleted |-> 0]
    ELSE ApplyBest(buffer, added, BestMatch(table, matching))

\* The buffer after a piece is added, and how many graphemes it replaced.
Apply(table, buffer, added) ==
    ApplyMatching(table, buffer, added,
                  {m \in DOMAIN table : MatchMapping(table[m], buffer, added)})

Resolve(style) == Tables[style]

\* The katakana a pending spelling can still become.
PossibleNexts(table, prefix) ==
    {ToKatakana(m.value) :
        m \in {m \in ToSet(table) :
            /\ prefix # <<>>
            /\ \A i \in DOMAIN m.key : m.key[i].kind = "char"
            /\ AnyValue \notin ToSet(m.value)
            /\ Len(prefix) < Len(m.key)
            /\ \A i \in DOMAIN prefix : m.key[i].value = prefix[i]}}

----------------------------------------------------------------------------
(***************************************************************************)
(* Conversion of the keys: one segment per run of a style.                 *)
(***************************************************************************)
UpdateSurface(surface, element) ==
    IF element.style = Direct
    THEN [buffer |-> surface \o Displayed(element.piece), deleted |-> 0]
    ELSE Apply(Resolve(element.style), surface, element.piece)

\* Does the element continue the last segment?
Continues(segments, element) ==
    segments # <<>> /\ segments[Len(segments)].style = element.style

PutSegment(segments, element, updated) ==
    IF Continues(segments, element)
    THEN [segments |-> Append(Front(segments),
                [graphemes |-> updated.buffer, style |-> element.style]),
          deleted |-> updated.deleted]
    ELSE IF segments = <<>> /\ element.piece = Separator
    THEN [segments |-> segments, deleted |-> 0]
    ELSE [segments |-> Append(segments,
                [graphemes |-> updated.buffer, style |-> element.style]),
          deleted |-> 0]

UpdateSegments(segments, element) ==
    PutSegment(segments, element,
               UpdateSurface(IF Continues(segments, element)
                             THEN segments[Len(segments)].graphemes ELSE <<>>, element))

SegmentsLength(segments) ==
    Fold(LAMBDA n, s : n + Len(s.graphemes), 0, segments)

GraphemesOf(segments) == FlattenSeq([i \in DOMAIN segments |-> segments[i].graphemes])

ConvertElements(elements) ==
    GraphemesOf(Fold(LAMBDA acc, e : UpdateSegments(acc, e).segments, <<>>, elements))

NoBoundaries == [segments |-> <<>>, length |-> 0, count |-> 0,
                 boundaries |-> <<[input |-> 0, surface |-> 0]>>]

Advanced(acc, kept, segments, length) ==
    [segments |-> segments, length |-> length, count |-> acc.count + 1,
     boundaries |-> Append(kept, [input |-> acc.count + 1, surface |-> length])]

\* Mutant: a key that rewrites graphemes leaves the positions among them.
BoundariesUnpruned(text) ==
    LET Pruned(acc, updated) ==
            Advanced(acc, acc.boundaries, updated.segments, SegmentsLength(updated.segments))
    IN  Fold(LAMBDA acc, e : Pruned(acc, UpdateSegments(acc.segments, e)),
             NoBoundaries, text.input).boundaries

\* The positions at which the keys before and after convert on their own:
\* pairs of a key count and a grapheme count, kept while no later key
\* rewrites a grapheme in front of them.
IndependentBoundaries(text) ==
    LET Pruned(acc, updated) ==
            Advanced(acc, SelectSeq(acc.boundaries, LAMBDA b :
                                \/ b.surface <= acc.length - updated.deleted
                                \/ b.surface = 0),
                     updated.segments, SegmentsLength(updated.segments))
    IN  Fold(LAMBDA acc, e : Pruned(acc, UpdateSegments(acc.segments, e)),
             NoBoundaries, text.input).boundaries

\* The map a lattice uses from key positions to grapheme positions.
SurfaceOfInput(pairs) ==
    [i \in {p.input : p \in pairs} |-> (CHOOSE p \in pairs : p.input = i).surface]

InputToSurfaceMap(text) ==
    IF /\ Len(text.input) = Len(text.surface)
       /\ \A i \in DOMAIN text.input :
            text.input[i].style = Direct /\ text.input[i].piece.kind = "char"
    THEN [i \in 0 .. Len(text.input) |-> i]
    ELSE SurfaceOfInput(ToSet(IndependentBoundaries(text)))

\* The key position of a grapheme position.  A position inside a group of
\* keys that convert together freezes the graphemes of that group.
Latest(boundaries) == CHOOSE b \in boundaries : \A c \in boundaries : c.input <= b.input

\* The group of graphemes between two boundaries, each as its own key.
FreezeGroup(text, target, from, to) ==
    LET frozen == [i \in 1 .. to.surface - from.surface |->
                    Element(Char(text.surface[from.surface + i]), Frozen)]
    IN  [input |-> SubSeq(text.input, 1, from.input) \o frozen
                   \o SubSeq(text.input, to.input + 1, Len(text.input)),
         index |-> target - from.surface + from.input]

ForceInside(text, target, boundaries) ==
    LET at == {b \in boundaries : b.surface = target}
        before == {b \in boundaries : b.surface < target}
        after == {b \in boundaries : b.surface \in target + 1 .. Len(text.surface) - 1}
    IN  IF at # {} THEN [input |-> text.input, index |-> Latest(at).input]
        ELSE FreezeGroup(text, target, Latest(before),
                IF after = {} THEN [input |-> Len(text.input), surface |-> Len(text.surface)]
                ELSE Latest({b \in after : \A c \in after : b.surface <= c.surface}))

ForceInputCursor(text, target) ==
    IF target = 0 THEN [input |-> text.input, index |-> 0]
    ELSE IF target >= Len(text.surface)
    THEN [input |-> text.input, index |-> Len(text.input)]
    ELSE ForceInside(text, target, ToSet(IndependentBoundaries(text)))

----------------------------------------------------------------------------
(***************************************************************************)
(* The editing operations.  Each returns the text it leaves.               *)
(***************************************************************************)
EndsInFrozenSeparator(input, index) == index > 0 /\ input[index] = FrozenSeparator

\* The keys before an index, and those after it.
Before(input, index) == SubSeq(input, 1, index)
After(input, index) == SubSeq(input, index + 1, Len(input))

\* The keys before an index without a frozen separator at the end of them.
Unseparated(input, index) ==
    Before(input, IF EndsInFrozenSeparator(input, index) THEN index - 1 ELSE index)

Converted(text, head, tail, prefix) ==
    [input |-> head \o tail, surface |-> prefix \o After(text.surface, text.cursor),
     cursor |-> Len(prefix)]

InsertBetween(text, head, tail) == Converted(text, head, tail, ConvertElements(head))

InsertForced(text, elements, forced) ==
    InsertBetween(text, Unseparated(forced.input, forced.index) \o elements,
                  After(forced.input, forced.index))

Insert(text, elements) ==
    IF elements = <<>> THEN text
    ELSE InsertForced(text, IF text.cursor = Len(text.surface) THEN elements
                            ELSE Append(elements, FrozenSeparator),
                      ForceInputCursor(text, text.cursor))

\* What surrounds deleted graphemes: "between" keeps it from combining.
Separated(head, tail, between) ==
    IF head = <<>> \/ tail = <<>> THEN head \o tail ELSE head \o between \o tail

Shortened(input, cursor) ==
    [input |-> input, surface |-> ConvertElements(input), cursor |-> cursor]

\* Both ends are forced before either is used: the second on the first's keys.
DeleteBetween(index, current, cursor, between) ==
    Shortened(Separated(Unseparated(current.input, index),
                        After(current.input, current.index), between), cursor)

DeleteForced(text, target, count, between) ==
    DeleteBetween(target.index,
                  ForceInputCursor([text EXCEPT !.input = target.input], text.cursor),
                  text.cursor - count, between)

\* Mutant: nothing separates what surrounds the deleted graphemes.
DeleteUnseparated(text, requested) ==
    DeleteForced(text, ForceInputCursor(text, text.cursor - requested), requested, <<>>)

DeleteCount(text, count) ==
    IF count = 0 THEN text
    ELSE DeleteForced(text, ForceInputCursor(text, text.cursor - count), count,
                      <<FrozenSeparator>>)

DeleteBackward(text, requested) ==
    DeleteCount(text, IF requested > text.cursor THEN text.cursor ELSE requested)

DeleteForward(text, requested) ==
    LET rest == Len(text.surface) - text.cursor
        count == IF requested > rest THEN rest ELSE requested
    IN  IF count = 0 THEN text
        ELSE DeleteBackward([text EXCEPT !.cursor = text.cursor + count], count)

MoveCursor(text, count) ==
    LET moved == text.cursor + count
    IN  [text EXCEPT !.cursor = IF moved < 0 THEN 0
                                ELSE IF moved > Len(text.surface) THEN Len(text.surface)
                                ELSE moved]

AtEnd(text) == MoveCursor(text, Len(text.surface))

\* A composing count is a sequence of steps, each counted in keys or in
\* graphemes (ComposingCount::Composite runs its two halves in order).
InputCount(n) == <<[by |-> "input", count |-> n]>>
SurfaceCount(n) == <<[by |-> "surface", count |-> n]>>

CursorAfter(cursor, removed, length) ==
    IF cursor <= removed THEN length ELSE cursor - removed

CompleteInput(text, input, surface) ==
    [input |-> input, surface |-> surface,
     cursor |-> CursorAfter(text.cursor, Len(text.surface) - Len(surface), Len(surface))]

CompleteSurface(text, count, forced) ==
    [input |-> After(forced.input, forced.index),
     surface |-> After(text.surface, count),
     cursor |-> CursorAfter(text.cursor, count, Len(text.surface) - count)]

CompleteStep(text, step) ==
    LET Within(n) == IF step.count > n THEN n ELSE step.count
        input == After(text.input, Within(Len(text.input)))
        count == Within(Len(text.surface))
    IN  IF step.by = "input" THEN CompleteInput(text, input, ConvertElements(input))
        ELSE CompleteSurface(text, count, ForceInputCursor(text, count))

CompletePrefix(text, count) == Fold(CompleteStep, text, count)

PrefixForced(text, forced) ==
    [input |-> Before(forced.input, forced.index),
     surface |-> Before(text.surface, text.cursor),
     cursor |-> text.cursor]

PrefixToCursor(text) == PrefixForced(text, ForceInputCursor(text, text.cursor))

----------------------------------------------------------------------------
(***************************************************************************)
(* Typo correction, typo.rs: the readings of a run of keys in which some   *)
(* keys are replaced by likely intended ones.                              *)
(***************************************************************************)
CONSTANTS
    DirectTypos,    \* katakana grapheme -> set of [value, weight]
    RomanTypos,     \* pair of graphemes -> the pair they replace
    RomanWeight,    \* the penalty of a roman replacement
    MaximumPenalty  \* no replacement is tried from this penalty on

Render(elements) == ConvertElements(elements)

IsStablePrefix(input, consumed, elements) ==
    \/ consumed >= Len(input)
    \/ IsPrefix(Render(elements), Render(Append(elements, input[consumed + 1])))

\* One more step of the enumeration from the partial correction p.
TypoSteps(input, p) ==
    LET next == input[p.consumed + 1]
        pair == <<next.piece.value, input[p.consumed + 2].piece.value>>
        Extend(by, elements, weight, changed) ==
            [consumed |-> p.consumed + by, elements |-> p.elements \o elements,
             penalty |-> p.penalty + weight, changed |-> p.changed \/ changed]
        kept == {Extend(1, <<next>>, 0, FALSE)}
        direct ==
            IF next.style # Direct \/ next.piece.kind # "char"
               \/ ToKatakana(<<next.piece.value>>)[1] \notin DOMAIN DirectTypos THEN {}
            ELSE {Extend(1, <<Element(Char(r.value), Direct)>>, r.weight, TRUE) :
                    r \in DirectTypos[ToKatakana(<<next.piece.value>>)[1]]}
        roman ==
            IF p.consumed + 1 < Len(input)
               /\ \A i \in 1 .. 2 : /\ input[p.consumed + i].style = "roman"
                                    /\ input[p.consumed + i].piece.kind = "char"
               /\ pair \in DOMAIN RomanTypos
            THEN {Extend(2, [i \in 1 .. 2 |-> Element(Char(RomanTypos[pair][i]), "roman")],
                         RomanWeight, TRUE)}
            ELSE {}
    IN  IF p.consumed >= Len(input) THEN {}
        ELSE IF p.penalty >= MaximumPenalty THEN kept
        ELSE kept \cup direct \cup roman

\* Of two ways to one reading the cheaper one is kept.
Cheapest(found) ==
    {f \in found : \A g \in found :
        f.ruby = g.ruby /\ f.consumed = g.consumed => f.penalty <= g.penalty}

TypoPrefixes(input) ==
    LET Reached(acc, next) == [front |-> next, all |-> acc.all \cup next]
        Round(acc, i) == Reached(acc, UNION {TypoSteps(input, p) : p \in acc.front})
        start == {[consumed |-> 0, elements |-> <<>>, penalty |-> 0, changed |-> FALSE]}
        partial == Fold(Round, [front |-> start, all |-> start], input).all
    IN  Cheapest({[ruby |-> ToKatakana(Render(p.elements)), consumed |-> p.consumed,
                   penalty |-> p.penalty] :
                    p \in {p \in partial :
                        p.changed /\ IsStablePrefix(input, p.consumed, p.elements)}})

=============================================================================
