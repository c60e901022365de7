------------------------- MODULE InputEngineProofs -------------------------
(***************************************************************************)
(* The session state machine keeps its lists, indexes and corrections in   *)
(* step with the reading, and loses nothing that was typed: for any        *)
(* keyboard, any length of text, any number of notations and any           *)
(* corrections the language model may propose.                             *)
(***************************************************************************)
EXTENDS InputEngine, SequenceTheorems, WellFoundedInduction, TLAPS

----------------------------------------------------------------------------
(***************************************************************************)
(* The inductive invariant: what every handler finds and leaves.           *)
(***************************************************************************)
Texts == Seq(Nat)
Candidates == [count : Nat, text : Texts]
Edits == [candidate : Option(Texts), delete : Int, append : Texts]
Modes == {"None", "Composing", "Previewing", "Selecting", "Unicode"}

Sessions ==
    [mode : Modes, language : {"Japanese", "English"},
     reading : Texts, cursor : Nat,
     display : Seq(Candidates), remainders : Seq(Texts),
     selected : Nat, preview : Option(Nat), additional : Nat,
     segment : BOOLEAN, backspaced : BOOLEAN,
     prediction : Option(Edits), correction : Option(Texts \ {<< >>}),
     liveCandidate : Option(Candidates), typos : Option(Texts), unicode : Nat]

\* The cursor stays in the reading; a resized segment is not empty; deleting
\* leaves the cursor at the end of the whole reading.
CursorFits(s) ==
    /\ s.cursor <= Len(s.reading)
    /\ s.segment /\ s.reading # << >> => s.cursor > 0
    /\ s.backspaced => AtEnd(s) /\ ~s.segment

\* Candidates were made for the reading as it is now, and so were the
\* remainders kept beside them.
MadeFor(c, r) == c.count <= Len(r) /\ c.text = Prefix(r, c.count)

ListFits(s) ==
    /\ s.reading = << >> => s.display = << >>
    /\ \A i \in DOMAIN s.display : MadeFor(s.display[i], s.reading)
    /\ s.remainders = Remainders(s.reading, s.display)
    /\ \A i \in DOMAIN s.liveCandidate : s.liveCandidate[i].text = s.reading

NotationsFit(s) ==
    s.additional > 0 =>
       /\ s.additional < Len(s.display)
       /\ \A i \in 1..s.additional : s.display[i].count = s.display[s.additional + 1].count

\* A correction offered as an edit belongs to an unbroken run of deletions,
\* whatever mode the session has gone through since.
Leads(p, s) ==
    p.candidate = << >> =>
       /\ s.backspaced
       /\ s.correction # << >>
       /\ p.delete \in 0..Len(s.reading)
       /\ Prefix(s.reading, Len(s.reading) - p.delete) \o p.append = s.correction[1]

PredictionFits(s) == \A i \in DOMAIN s.prediction : Leads(s.prediction[i], s)
TyposFit(s) == \A i \in DOMAIN s.typos : s.typos[i] = s.reading

ModeFits(s) == Composes(s) <=> s.reading # << >>
SelectionFits(s) == s.mode = "Selecting" => s.selected < Len(s.display)

Presented(s) ==
    /\ s \in Sessions
    /\ CursorFits(s) /\ ListFits(s) /\ NotationsFit(s) /\ PredictionFits(s) /\ TyposFit(s)

Good(s) == Presented(s) /\ ModeFits(s) /\ SelectionFits(s)

EngineInv == live \in BOOLEAN /\ Good(session)

----------------------------------------------------------------------------
(***************************************************************************)
(* Sequences and options.                                                  *)
(***************************************************************************)

\* An optional value is absent or the one element of its sequence.
LEMMA OptionFacts ==
    ASSUME NEW S, NEW x \in Option(S)
    PROVE  /\ x \in Seq(S)
           /\ x # << >> => x[1] \in S /\ x = <<x[1]>> /\ DOMAIN x = {1}
           /\ \A i \in DOMAIN x : i = 1 /\ x # << >>
  <1>1. CASE x = << >>
    BY <1>1
  <1>2. ASSUME NEW y \in S, x = <<y>>
        PROVE  /\ x \in Seq(S)
               /\ x # << >> => x[1] \in S /\ x = <<x[1]>> /\ DOMAIN x = {1}
               /\ \A i \in DOMAIN x : i = 1 /\ x # << >>
    BY <1>2
  <1> QED  BY <1>1, <1>2 DEF Option

\* An optional value that is present (Some of the source).
LEMMA OptionSome ==
    ASSUME NEW S, NEW y \in S
    PROVE  /\ <<y>> \in Option(S)
           /\ <<y>> # << >> /\ <<y>>[1] = y /\ DOMAIN <<y>> = {1}
  BY DEF Option

\* An optional value that is absent (None of the source).
LEMMA OptionNone ==
    ASSUME NEW S
    PROVE  << >> \in Option(S) /\ DOMAIN << >> = {}
  BY DEF Option

\* A sequence cut at a position the cursor or a candidate can name.
LEMMA PrefixFacts ==
    ASSUME NEW r \in Texts, NEW n \in Nat, n <= Len(r)
    PROVE  /\ Prefix(r, n) \in Texts
           /\ Len(Prefix(r, n)) = n
           /\ \A i \in 1..n : Prefix(r, n)[i] = r[i]
  <1>1. \A i \in 1..n : r[i] \in Nat
    BY ElementOfSeq, LenProperties DEF Texts
  <1> QED  BY <1>1, LenProperties, SubSeqProperties DEF Prefix, Texts

\* What is left of a sequence after a cut: the remainder of a candidate.
LEMMA SuffixFacts ==
    ASSUME NEW S, NEW r \in Seq(S), NEW n \in Nat, n <= Len(r)
    PROVE  /\ Suffix(r, n) \in Seq(S)
           /\ Len(Suffix(r, n)) = Len(r) - n
           /\ \A i \in 1..Len(r) - n : Suffix(r, n)[i] = r[n + i]
  <1>1. \A i \in n + 1..Len(r) : r[i] \in S
    BY ElementOfSeq, LenProperties
  <1>2. Len(r) \in Nat
    BY LenProperties
  <1>3. /\ SubSeq(r, n + 1, Len(r)) \in Seq(S)
        /\ Len(SubSeq(r, n + 1, Len(r))) =
              IF n + 1 <= Len(r) THEN Len(r) - (n + 1) + 1 ELSE 0
        /\ \A i \in 1..Len(r) - (n + 1) + 1 : SubSeq(r, n + 1, Len(r))[i] = r[n + 1 + i - 1]
    <2>1. n + 1 \in Int /\ Len(r) \in Int
      BY <1>2
    <2> QED  BY <1>1, <2>1, SubSeqProperties
  <1>4. \A i \in 1..Len(r) - n : SubSeq(r, n + 1, Len(r))[i] = r[n + i]
    BY <1>2, <1>3
  <1> QED  BY <1>2, <1>3, <1>4 DEF Suffix

\* Cutting and joining again gives the reading back.
LEMMA PrefixSuffix ==
    ASSUME NEW r \in Texts, NEW n \in Nat, n <= Len(r)
    PROVE  Prefix(r, n) \o Suffix(r, n) = r
  <1>1. Len(r) \in Nat
    BY LenProperties DEF Texts
  <1>2. n + 1 - 1 = n
    OBVIOUS
  <1>3. /\ Prefix(r, n) \in Texts /\ Len(Prefix(r, n)) = n
        /\ \A i \in 1..n : Prefix(r, n)[i] = r[i]
    BY PrefixFacts
  <1>4. /\ Suffix(r, n) \in Texts /\ Len(Suffix(r, n)) = Len(r) - n
        /\ \A i \in 1..Len(r) - n : Suffix(r, n)[i] = r[n + i]
    BY SuffixFacts DEF Texts
  <1>5. /\ Prefix(r, n) \o Suffix(r, n) \in Texts
        /\ Len(Prefix(r, n) \o Suffix(r, n)) = Len(r)
        /\ \A i \in 1..Len(r) : (Prefix(r, n) \o Suffix(r, n))[i] =
                IF i <= n THEN Prefix(r, n)[i] ELSE Suffix(r, n)[i - n]
    <2>1. \A p, q \in Seq(Nat) :
                /\ p \o q \in Seq(Nat)
                /\ Len(p \o q) = Len(p) + Len(q)
                /\ \A i \in 1..Len(p) + Len(q) :
                        (p \o q)[i] = IF i <= Len(p) THEN p[i] ELSE q[i - Len(p)]
      BY ConcatProperties
    <2>2. n + (Len(r) - n) = Len(r)
      BY <1>1
    <2> DEFINE p == Prefix(r, n)
               q == Suffix(r, n)
    <2>3. p \in Seq(Nat) /\ Len(p) = n /\ q \in Seq(Nat) /\ Len(q) = Len(r) - n
      BY <1>3, <1>4 DEF Texts
    <2> HIDE DEF p, q
    <2>4. /\ p \o q \in Seq(Nat)
          /\ Len(p \o q) = Len(p) + Len(q)
          /\ \A i \in 1..Len(p) + Len(q) :
                 (p \o q)[i] = IF i <= Len(p) THEN p[i] ELSE q[i - Len(p)]
      BY <2>1, <2>3, Zenon
    <2>5. /\ p \o q \in Seq(Nat)
          /\ Len(p \o q) = Len(r)
          /\ \A i \in 1..Len(r) : (p \o q)[i] = IF i <= n THEN p[i] ELSE q[i - n]
      BY <2>2, <2>3, <2>4
    <2> QED  BY <2>5 DEF Texts, p, q
  <1>6. \A i \in 1..Len(r) : (Prefix(r, n) \o Suffix(r, n))[i] = r[i]
    <2> TAKE i \in 1..Len(r)
    <2>1. CASE i <= n
      BY <2>1, <1>1, <1>3, <1>5
    <2>2. CASE i > n
      <3>1. i - n \in 1..Len(r) - n /\ n + (i - n) = i /\ ~ i <= n
        BY <2>2, <1>1
      <3> QED  BY <3>1, <1>4, <1>5
    <2>3. i <= n \/ i > n
      BY <1>1
    <2> QED  BY <2>1, <2>2, <2>3
  <1> QED  BY <1>1, <1>5, <1>6, SeqEqual DEF Texts

\* A cursor at the end has the whole reading before it.
LEMMA PrefixWhole ==
    ASSUME NEW r \in Texts
    PROVE  Prefix(r, Len(r)) = r
  BY SubSeqFull DEF Prefix, Texts

\* The whole reading leaves nothing, the empty prefix leaves it all.
LEMMA SuffixEnds ==
    ASSUME NEW r \in Texts
    PROVE  Suffix(r, Len(r)) = << >> /\ Suffix(r, 0) = r
  <1>1. Len(r) \in Nat
    BY LenProperties DEF Texts
  <1>2. Suffix(r, Len(r)) \in Texts /\ Len(Suffix(r, Len(r))) = 0
    BY <1>1, SuffixFacts DEF Texts
  <1>3. SubSeq(r, 1, Len(r)) = r
    BY SubSeqFull DEF Texts
  <1> QED  BY <1>2, <1>3, EmptySeq DEF Suffix, Texts

\* A candidate made for a narrowed target is a prefix of the reading too.
LEMMA PrefixOfPrefix ==
    ASSUME NEW r \in Texts, NEW n \in Nat, n <= Len(r), NEW m \in Nat, m <= n
    PROVE  Prefix(Prefix(r, n), m) = Prefix(r, m)
  <1>1. Len(r) \in Nat /\ m <= Len(r)
    BY LenProperties DEF Texts
  <1>2. /\ Prefix(r, n) \in Texts /\ Len(Prefix(r, n)) = n
        /\ \A i \in 1..n : Prefix(r, n)[i] = r[i]
    BY PrefixFacts
  <1>3. /\ Prefix(r, m) \in Texts /\ Len(Prefix(r, m)) = m
        /\ \A i \in 1..m : Prefix(r, m)[i] = r[i]
    BY <1>1, PrefixFacts
  <1>4. /\ Prefix(Prefix(r, n), m) \in Texts /\ Len(Prefix(Prefix(r, n), m)) = m
        /\ \A i \in 1..m : Prefix(Prefix(r, n), m)[i] = Prefix(r, n)[i]
    BY <1>2, PrefixFacts
  <1>5. \A i \in 1..m : Prefix(Prefix(r, n), m)[i] = Prefix(r, m)[i]
    BY <1>2, <1>3, <1>4
  <1> QED  BY <1>3, <1>4, <1>5, SeqEqual DEF Texts

\* Joining keeps texts texts.
LEMMA JoinFacts ==
    ASSUME NEW r \in Texts, NEW t \in Texts
    PROVE  /\ r \o t \in Texts
           /\ Len(r \o t) = Len(r) + Len(t)
           /\ r # << >> \/ t # << >> => r \o t # << >>
           /\ r \o << >> = r /\ << >> \o r = r
  <1>1. r \o t \in Texts /\ Len(r \o t) = Len(r) + Len(t)
    BY ConcatProperties DEF Texts
  <1>2. Len(r) \in Nat /\ Len(t) \in Nat
    BY LenProperties DEF Texts
  <1>3. r # << >> \/ t # << >> => r \o t # << >>
    BY <1>1, <1>2, EmptySeq DEF Texts
  <1> QED  BY <1>1, <1>3, ConcatEmptySeq DEF Texts

\* A text is empty exactly when its length is 0.
LEMMA TextLen ==
    ASSUME NEW S, NEW r \in Seq(S)
    PROVE  Len(r) \in Nat /\ (r = << >> <=> Len(r) = 0) /\ DOMAIN r = 1..Len(r)
  BY LenProperties, EmptySeq

----------------------------------------------------------------------------
(***************************************************************************)
(* What candidate generation leaves.                                       *)
(***************************************************************************)

\* A set of naturals that is not empty has a least element, and a bounded one
\* a greatest.
LEMMA LeastNatural ==
    ASSUME NEW T \in SUBSET Nat, T # {}
    PROVE  \E n \in T : \A m \in T : n <= m
  <1>1. PICK n \in T : \A m \in T : ~(<<m, n>> \in OpToRel(<, Nat))
    BY NatLessThanWellFounded, WFMin
  <1>2. \A m \in T : ~ m < n
    BY <1>1 DEF OpToRel
  <1>3. \A m \in T : m \in Nat
    OBVIOUS
  <1> QED  BY <1>2, <1>3

\* Bounded numbers have a greatest one: the longest candidate of a list.
LEMMA GreatestNatural ==
    ASSUME NEW T \in SUBSET Nat, T # {}, NEW bound \in Nat, \A m \in T : m <= bound
    PROVE  \E n \in T : \A m \in T : m <= n
  <1> DEFINE gaps == {bound - m : m \in T}
  <1>1. gaps \in SUBSET Nat /\ gaps # {}
    <2>1. \A m \in T : bound - m \in Nat
      OBVIOUS
    <2>2. \E m \in T : bound - m \in gaps
      OBVIOUS
    <2> QED  BY <2>1, <2>2
  <1>2. PICK g \in gaps : \A h \in gaps : g <= h
    <2> HIDE DEF gaps
    <2> QED  BY <1>1, LeastNatural
  <1>3. PICK n \in T : g = bound - n
    BY <1>2
  <1>4. \A m \in T : m \in Nat /\ bound - n <= bound - m
    BY <1>2, <1>3
  <1> QED  BY <1>3, <1>4

\* The common prefix that suffix_edit_prediction deletes back to.
LEMMA CommonPrefixFacts ==
    ASSUME NEW r \in Texts, NEW t \in Texts
    PROVE  LET k == Len(LongestCommonPrefix({r, t}))
           IN  k \in Nat /\ k <= Len(r) /\ k <= Len(t) /\ Prefix(r, k) = Prefix(t, k)
  <1> DEFINE both == CommonPrefixes({r, t})
  <1>1. Len(r) \in Nat /\ Len(t) \in Nat
    BY TextLen DEF Texts
  <1>2. ASSUME NEW p \in both
        PROVE  /\ p \in Texts /\ Len(p) \in Nat /\ Len(p) <= Len(r) /\ Len(p) <= Len(t)
               /\ p = Prefix(r, Len(p)) /\ p = Prefix(t, Len(p))
    <2>1. PICK q \in {r, t} : \E l \in 0..Len(q) : p = SubSeq(q, 1, l)
      BY DEF CommonPrefixes, Prefixes
    <2>2. PICK l \in 0..Len(q) : p = Prefix(q, l)
      BY <2>1 DEF Prefix
    <2>3. q \in Texts /\ l \in Nat /\ l <= Len(q)
      BY <1>1, <2>2
    <2>4. p \in Texts
      BY <2>2, <2>3, PrefixFacts
    <2>5. IsPrefix(p, r) /\ IsPrefix(p, t)
      BY DEF CommonPrefixes
    <2>6. SubSeq(p, 1, Len(p)) = p
      BY <2>4, SubSeqFull DEF Texts
    <2>7. Len(p) \in Nat
      BY <2>4, TextLen DEF Texts
    <2> QED  BY <2>4, <2>5, <2>6, <2>7 DEF IsPrefix, Prefix
  <1>3. << >> \in both
    <2>1. Prefix(r, 0) = << >> /\ Prefix(t, 0) = << >>
      <3>1. ASSUME NEW q \in Texts
            PROVE  Prefix(q, 0) = << >>
        <4>1. 0 <= Len(q)
          BY TextLen DEF Texts
        <4>2. Prefix(q, 0) \in Texts /\ Len(Prefix(q, 0)) = 0
          BY <4>1, PrefixFacts
        <4> QED  BY <4>2, EmptySeq DEF Texts
      <3> QED  BY <3>1
    <2>2. Len(<< >>) = 0 /\ SubSeq(<< >>, 1, 0) = << >>
      <3>1. << >> \in Texts
        BY DEF Texts
      <3> QED  BY <3>1, SubSeqFull DEF Texts
    <2>3. IsPrefix(<< >>, r) /\ IsPrefix(<< >>, t)
      BY <1>1, <2>1, <2>2 DEF IsPrefix, Prefix
    <2>4. << >> \in Prefixes(r)
      BY <1>1, <2>1 DEF Prefixes, Prefix
    <2> QED  BY <2>3, <2>4 DEF CommonPrefixes
  <1>4. \E longest \in both : \A other \in both : Len(other) <= Len(longest)
    <2> DEFINE lengths == {Len(p) : p \in both}
    <2> HIDE DEF both
    <2>1. lengths \in SUBSET Nat /\ lengths # {} /\ \A m \in lengths : m <= Len(r)
      BY <1>2, <1>3
    <2>2. PICK n \in lengths : \A m \in lengths : m <= n
      <3> HIDE DEF lengths
      <3> QED  BY <1>1, <2>1, GreatestNatural
    <2>3. PICK longest \in both : n = Len(longest)
      BY <2>2
    <2> QED  BY <2>2, <2>3
  <1>5. LongestCommonPrefix({r, t}) \in both
    <2>1. LongestCommonPrefix({r, t}) =
            CHOOSE longest \in both : \A other \in both : Len(other) <= Len(longest)
      BY DEF LongestCommonPrefix
    <2> HIDE DEF both
    <2> QED  BY <1>4, <2>1
  <1> HIDE DEF both
  <1>6. /\ Prefix(r, Len(LongestCommonPrefix({r, t}))) = LongestCommonPrefix({r, t})
        /\ Prefix(t, Len(LongestCommonPrefix({r, t}))) = LongestCommonPrefix({r, t})
    BY <1>2, <1>5
  <1> QED  BY <1>2, <1>5, <1>6

\* suffix_edit_prediction: deleting and appending leads to the target.
LEMMA SuffixEditFacts ==
    ASSUME NEW r \in Texts, NEW t \in Texts
    PROVE  /\ SuffixEdit(r, t) \in Option(Edits)
           /\ \A i \in DOMAIN SuffixEdit(r, t) :
                LET e == SuffixEdit(r, t)[i]
                IN  /\ e.candidate = << >>
                    /\ e.delete \in 0..Len(r)
                    /\ Prefix(r, Len(r) - e.delete) \o e.append = t
  <1> DEFINE k == Len(LongestCommonPrefix({r, t}))
             edit == [candidate |-> << >>, delete |-> Len(r) - k, append |-> Suffix(t, k)]
  <1>1. k \in Nat /\ k <= Len(r) /\ k <= Len(t) /\ Prefix(r, k) = Prefix(t, k)
    BY CommonPrefixFacts
  <1>2. SuffixEdit(r, t) = << >> \/ SuffixEdit(r, t) = <<edit>>
    BY DEF SuffixEdit
  <1> HIDE DEF k
  <1>3. Len(r) \in Nat /\ Suffix(t, k) \in Texts
    BY <1>1, TextLen, SuffixFacts DEF Texts
  <1>4. edit \in Edits
    BY <1>1, <1>3, OptionNone DEF Edits
  <1>5. /\ edit.candidate = << >>
        /\ edit.delete \in 0..Len(r)
        /\ Len(r) - edit.delete = k
        /\ edit.append = Suffix(t, k)
    BY <1>1, <1>3
  <1>6. Prefix(r, Len(r) - edit.delete) \o edit.append = t
    BY <1>1, <1>5, PrefixSuffix
  <1> HIDE DEF edit
  <1>7. CASE SuffixEdit(r, t) = << >>
    BY <1>7, OptionNone
  <1>8. CASE SuffixEdit(r, t) = <<edit>>
    <2>1. \A i \in DOMAIN <<edit>> : <<edit>>[i] = edit
      OBVIOUS
    <2>2. <<edit>> \in Option(Edits)
      BY <1>4, OptionSome
    <2> QED  BY <1>5, <1>6, <1>8, <2>1, <2>2
  <1> QED  BY <1>2, <1>7, <1>8

\* The position of a candidate is a position.
LEMMA PositionOfFacts ==
    ASSUME NEW c, NEW cs \in Seq(Candidates)
    PROVE  PositionOf(c, cs) \in Option(Nat)
  <1> DEFINE places == {i \in 1..Len(cs) : cs[i] = c}
             first == SelectInSeq(cs, LAMBDA x : x = c)
  <1>1. first = IF places # {} THEN Min(places) ELSE 0
    BY DEF SelectInSeq
  <1>2. first \in Nat
    <2>1. CASE places = {}
      BY <1>1, <2>1
    <2>2. CASE places # {}
      <3>1. places \in SUBSET Nat
        BY TextLen
      <3> HIDE DEF places
      <3>2. \E n \in places : \A m \in places : n <= m
        BY <2>2, <3>1, LeastNatural
      <3>3. Min(places) \in places
        BY <3>2 DEF Min
      <3> QED  BY <1>1, <2>2, <3>1, <3>3
    <2> QED  BY <2>1, <2>2
  <1>3. PositionOf(c, cs) = IF first = 0 THEN << >> ELSE <<first - 1>>
    BY DEF PositionOf
  <1> HIDE DEF first
  <1>4. first # 0 => first - 1 \in Nat
    BY <1>2
  <1> QED  BY <1>3, <1>4, OptionSome, OptionNone

\* A candidate for a prefix of the reading.
LEMMA CandidateForFacts ==
    ASSUME NEW r \in Texts, NEW n \in Nat, n <= Len(r)
    PROVE  /\ CandidateFor(r, n) \in Candidates
           /\ CandidateFor(r, n).count = n
           /\ CandidateFor(r, n).text = Prefix(r, n)
           /\ MadeFor(CandidateFor(r, n), r)
  BY PrefixFacts DEF CandidateFor, Candidates, MadeFor

\* A list of candidates, each for a prefix of one reading.
ListFor(cs, r) == cs \in Seq(Candidates) /\ \A i \in 1..Len(cs) : MadeFor(cs[i], r)

\* Two lists made for a reading, one appended to the other (results and clauses).
LEMMA ListForJoin ==
    ASSUME NEW r, NEW cs, NEW ds, ListFor(cs, r), ListFor(ds, r)
    PROVE  ListFor(cs \o ds, r) /\ Len(cs \o ds) = Len(cs) + Len(ds)
  <1>1. cs \in Seq(Candidates) /\ ds \in Seq(Candidates)
    BY DEF ListFor
  <1>2. /\ cs \o ds \in Seq(Candidates)
        /\ Len(cs \o ds) = Len(cs) + Len(ds)
        /\ \A i \in 1..Len(cs) + Len(ds) :
              (cs \o ds)[i] = IF i <= Len(cs) THEN cs[i] ELSE ds[i - Len(cs)]
    BY <1>1, ConcatProperties
  <1>3. Len(cs) \in Nat /\ Len(ds) \in Nat
    BY <1>1, TextLen
  <1>4. ASSUME NEW i \in 1..Len(cs) + Len(ds)
        PROVE  MadeFor((cs \o ds)[i], r)
    <2>1. CASE i <= Len(cs)
      <3>1. i \in 1..Len(cs) /\ (cs \o ds)[i] = cs[i]
        BY <1>2, <1>3, <2>1
      <3> QED  BY <3>1 DEF ListFor
    <2>2. CASE i > Len(cs)
      <3>1. i - Len(cs) \in 1..Len(ds) /\ (cs \o ds)[i] = ds[i - Len(cs)]
        BY <1>2, <1>3, <2>2
      <3> QED  BY <3>1 DEF ListFor
    <2>3. i <= Len(cs) \/ i > Len(cs)
      BY <1>3
    <2> QED  BY <2>1, <2>2, <2>3
  <1> QED  BY <1>2, <1>4 DEF ListFor

\* A list of one candidate made for a reading.
LEMMA ListForOne ==
    ASSUME NEW r, NEW c \in Candidates, MadeFor(c, r)
    PROVE  ListFor(<<c>>, r) /\ Len(<<c>>) = 1
  BY DEF ListFor

\* No candidates are a list for any reading.
LEMMA ListForNone ==
    ASSUME NEW r
    PROVE  ListFor(<< >>, r)
  BY DEF ListFor

\* What the converter answers for a target: the best candidate covers it.
LEMMA ConversionFacts ==
    ASSUME NEW t \in Texts, NEW result \in Conversions(t)
    PROVE  /\ ListFor(result.main, t) /\ ListFor(result.clauses, t)
           /\ result.main # << >>
           /\ result.main[1] = CandidateFor(t, Len(t))
  <1> DEFINE best == CandidateFor(t, Len(t))
             others == {CandidateFor(t, n) : n \in 1..Len(t)}
  <1>1. Len(t) \in Nat
    BY TextLen DEF Texts
  <1>2. best \in Candidates /\ MadeFor(best, t)
    BY <1>1, CandidateForFacts
  <1>3. \A c \in others : c \in Candidates /\ MadeFor(c, t)
    BY <1>1, CandidateForFacts
  <1>4. \/ \E c \in Option(others) : result = [main |-> <<best>>, clauses |-> c]
        \/ \E c \in others : result = [main |-> Append(<<best>>, c), clauses |-> << >>]
    BY DEF Conversions
  <1> HIDE DEF best, others
  <1>5. ASSUME NEW c \in Option(others), result = [main |-> <<best>>, clauses |-> c]
        PROVE  /\ ListFor(result.main, t) /\ ListFor(result.clauses, t)
               /\ result.main # << >> /\ result.main[1] = best
    <2>1. ListFor(c, t)
      <3>1. CASE c = << >>
        BY <3>1, ListForNone
      <3>2. CASE c # << >>
        BY <1>3, <3>2, OptionFacts, ListForOne
      <3> QED  BY <3>1, <3>2
    <2> QED  BY <1>2, <1>5, <2>1, ListForOne
  <1>6. ASSUME NEW c \in others, result = [main |-> Append(<<best>>, c), clauses |-> << >>]
        PROVE  /\ ListFor(result.main, t) /\ ListFor(result.clauses, t)
               /\ result.main # << >> /\ result.main[1] = best
    <2>1. Append(<<best>>, c) = <<best>> \o <<c>>
      BY <1>2, <1>3, AppendIsConcat
    <2>2. ListFor(<<best>> \o <<c>>, t)
      BY <1>2, <1>3, ListForOne, ListForJoin
    <2>3. Append(<<best>>, c) # << >> /\ Append(<<best>>, c)[1] = best
      BY <1>2, <1>3, AppendProperties
    <2> QED  BY <1>6, <2>1, <2>2, <2>3, ListForNone
  <1> QED  BY <1>4, <1>5, <1>6 DEF best

\* ConversionSession::desktop_candidates shows candidates of the same target.
LEMMA DesktopFacts ==
    ASSUME NEW t \in Texts, NEW result \in Conversions(t)
    PROVE  ListFor(DesktopCandidates(t, result), t) /\ DesktopCandidates(t, result) # << >>
  <1>1. /\ ListFor(result.main, t) /\ ListFor(result.clauses, t)
        /\ result.main # << >>
    BY ConversionFacts
  <1>2. /\ ListFor(result.clauses \o result.main, t)
        /\ Len(result.clauses \o result.main) = Len(result.clauses) + Len(result.main)
    BY <1>1, ListForJoin
  <1>3. result.clauses \o result.main # << >>
    <2>1. /\ result.main \in Seq(Candidates) /\ result.clauses \in Seq(Candidates)
          /\ result.clauses \o result.main \in Seq(Candidates)
      BY <1>1, <1>2 DEF ListFor
    <2>2. Len(result.main) \in Nat /\ Len(result.clauses) \in Nat /\ Len(result.main) # 0
      BY <1>1, <2>1, TextLen
    <2> QED  BY <1>2, <2>1, <2>2, TextLen
  <1> QED  BY <1>1, <1>2, <1>3 DEF DesktopCandidates

\* input_prediction: an edit leads to the pending correction.
LEMMA PredictionFacts ==
    ASSUME NEW correction \in Option(Texts \ {<< >>}), NEW r \in Texts,
           NEW p \in Predictions(correction, r)
    PROVE  /\ p \in Option(Edits)
           /\ \A i \in DOMAIN p : p[i].candidate = << >> =>
                 /\ correction # << >>
                 /\ SuffixEdit(r, correction[1]) # << >>
                 /\ p[i].delete \in 0..Len(r)
                 /\ Prefix(r, Len(r) - p[i].delete) \o p[i].append = correction[1]
  <1>1. CASE correction # << >> /\ SuffixEdit(r, correction[1]) # << >>
    <2>1. p = SuffixEdit(r, correction[1])
      BY <1>1 DEF Predictions
    <2>2. correction[1] \in Texts
      BY <1>1, OptionFacts
    <2> QED  BY <1>1, <2>1, <2>2, SuffixEditFacts
  <1>2. CASE ~(correction # << >> /\ SuffixEdit(r, correction[1]) # << >>)
    <2>1. \/ p = << >>
          \/ \E c \in Letters :
                p = <<[candidate |-> <<r \o <<c>>>>, delete |-> 0, append |-> <<c>>]>>
      BY <1>2 DEF Predictions
    <2>2. ASSUME NEW c \in Letters,
                 p = <<[candidate |-> <<r \o <<c>>>>, delete |-> 0, append |-> <<c>>]>>
          PROVE  p \in Option(Edits) /\ \A i \in DOMAIN p : p[i].candidate # << >>
      <3> DEFINE e == [candidate |-> <<r \o <<c>>>>, delete |-> 0, append |-> <<c>>]
      <3>1. <<c>> \in Texts
        BY EngineAssumption DEF Texts
      <3>2. r \o <<c>> \in Texts
        BY <3>1, JoinFacts
      <3>3. e \in Edits
        <4>1. <<r \o <<c>>>> \in Option(Texts)
          BY <3>2, OptionSome
        <4> QED  BY <3>1, <4>1 DEF Edits
      <3>4. e.candidate # << >>
        OBVIOUS
      <3>5. p = <<e>>
        BY <2>2
      <3> HIDE DEF e
      <3>6. p \in Option(Edits)
        BY <3>3, <3>5, OptionSome
      <3>7. \A i \in DOMAIN p : p[i] = e
        BY <3>5
      <3> QED  BY <3>4, <3>6, <3>7
    <2>3. CASE p = << >>
      BY <2>3, OptionNone
    <2> QED  BY <2>1, <2>2, <2>3
  <1> QED  BY <1>1, <1>2

\* The remainders kept beside a list.
LEMMA RemaindersFacts ==
    ASSUME NEW r \in Texts, NEW cs, ListFor(cs, r)
    PROVE  /\ Remainders(r, cs) \in Seq(Texts)
           /\ Len(Remainders(r, cs)) = Len(cs)
           /\ \A i \in 1..Len(cs) : Remainders(r, cs)[i] = Suffix(r, cs[i].count)
  <1>1. cs \in Seq(Candidates)
    BY DEF ListFor
  <1>2. DOMAIN cs = 1..Len(cs) /\ Len(cs) \in Nat
    BY <1>1, TextLen
  <1>3. Remainders(r, cs) = [i \in 1..Len(cs) |-> Suffix(r, cs[i].count)]
    BY <1>2 DEF Remainders, RemainingAfter
  <1>4. \A i \in 1..Len(cs) : Suffix(r, cs[i].count) \in Texts
    <2> TAKE i \in 1..Len(cs)
    <2>1. cs[i] \in Candidates
      BY <1>1, <1>2, ElementOfSeq
    <2>2. cs[i].count \in Nat /\ cs[i].count <= Len(r)
      BY <2>1 DEF ListFor, MadeFor, Candidates
    <2> QED  BY <2>2, SuffixFacts DEF Texts
  <1> QED  BY <1>2, <1>3, <1>4, IsASeq

\* A candidate for a prefix of the reading is a candidate for the reading.
LEMMA ListForWhole ==
    ASSUME NEW r \in Texts, NEW n \in Nat, n <= Len(r), NEW cs, ListFor(cs, Prefix(r, n))
    PROVE  ListFor(cs, r)
  <1>1. cs \in Seq(Candidates)
    BY DEF ListFor
  <1>2. Len(Prefix(r, n)) = n /\ Len(r) \in Nat /\ Len(cs) \in Nat
    BY <1>1, PrefixFacts, TextLen DEF Texts
  <1>3. ASSUME NEW i \in 1..Len(cs)
        PROVE  MadeFor(cs[i], r)
    <2>1. cs[i] \in Candidates
      BY <1>1, <1>2, ElementOfSeq
    <2>2. cs[i].count \in Nat
      BY <2>1 DEF Candidates
    <2>3. cs[i].count <= n /\ cs[i].text = Prefix(Prefix(r, n), cs[i].count)
      BY <1>2 DEF ListFor, MadeFor
    <2>4. cs[i].text = Prefix(r, cs[i].count)
      BY <2>2, <2>3, PrefixOfPrefix
    <2> QED  BY <1>2, <2>2, <2>3, <2>4 DEF MadeFor
  <1> QED  BY <1>1, <1>3 DEF ListFor

\* What candidates are generated for, and which sessions may ask for them.
TargetOf(t) == IF t.segment /\ ~AtEnd(t) THEN Prefix(t.reading, t.cursor) ELSE t.reading

Ready(t) == t \in Sessions /\ CursorFits(t) /\ TyposFit(t) /\ t.reading # << >>

\* The target of a conversion, narrowed or not: what is made for it is made for
\* the reading (conversion_target).
LEMMA TargetFacts ==
    ASSUME NEW t, Ready(t)
    PROVE  /\ TargetOf(t) \in Texts
           /\ \A cs : ListFor(cs, TargetOf(t)) => ListFor(cs, t.reading)
           /\ ~t.segment => TargetOf(t) = t.reading
  <1>1. t.reading \in Texts /\ t.cursor \in Nat /\ t.cursor <= Len(t.reading)
    BY DEF Ready, Sessions, CursorFits
  <1>2. CASE TargetOf(t) = t.reading
    BY <1>1, <1>2
  <1>3. CASE TargetOf(t) = Prefix(t.reading, t.cursor) /\ t.segment
    BY <1>1, <1>3, PrefixFacts, ListForWhole
  <1> QED  BY <1>2, <1>3 DEF TargetOf

\* What a successful request leaves of the session it was made for.
SameComposition(s, t) ==
    /\ s.mode = t.mode /\ s.language = t.language
    /\ s.reading = t.reading /\ s.cursor = t.cursor
    /\ s.segment = t.segment /\ s.backspaced = t.backspaced
    /\ s.typos = t.typos /\ s.unicode = t.unicode

\* request_candidates_with_context: the session is as before but for what it
\* presents, which is made for the reading, is not empty, and holds an edit only
\* for the correction that is still pending.
LEMMA RequestedFacts ==
    ASSUME NEW t, Ready(t), NEW s \in Requested(t)
    PROVE  /\ Presented(s)
           /\ SameComposition(s, t)
           /\ Len(s.display) > 0
           /\ t.mode # "Composing" => s.selected = t.selected
           /\ s.correction = IF t.backspaced THEN t.correction ELSE << >>
           /\ \A i \in DOMAIN s.prediction : s.prediction[i].candidate = << >> =>
                 SuffixEdit(s.reading, s.correction[1]) # << >>
  <1> DEFINE kept == IF t.backspaced THEN t.correction ELSE << >>
             target == TargetOf(t)
             u == [t EXCEPT !.correction = kept]
  <1>1. PICK result \in Conversions(target), prediction \in Predictions(kept, target) :
            s = WithResult(u, target, result, prediction)
    BY DEF Requested, TargetOf
  <1>2. t \in Sessions
    BY DEF Ready
  <1>3. kept \in Option(Texts \ {<< >>})
    BY <1>2, OptionNone DEF Sessions
  <1>4. /\ target \in Texts
        /\ \A cs : ListFor(cs, target) => ListFor(cs, t.reading)
        /\ ~t.segment => target = t.reading
    BY TargetFacts
  <1> DEFINE best == result.main[1]
             shown == IF t.segment THEN result.main ELSE DesktopCandidates(target, result)
             lives == /\ live /\ t.mode = "Composing" /\ t.language = "Japanese"
                      /\ ~t.segment /\ AtEnd(t) /\ ~t.backspaced /\ Len(t.reading) > 1
             place == PositionOf(best, shown)
             preview == IF RemainingAfter(target, best) = << >> THEN place ELSE << >>
             selected == IF lives /\ place # << >> THEN place[1] ELSE t.selected
             liveOne == IF lives THEN <<best>> ELSE << >>
             rest == Remainders(t.reading, shown)
  <1>5. s = [t EXCEPT !.correction = kept, !.display = shown, !.remainders = rest,
                      !.preview = preview, !.additional = 0, !.prediction = prediction,
                      !.selected = selected, !.liveCandidate = liveOne]
    <2>1. /\ u.segment = t.segment /\ u.mode = t.mode /\ u.language = t.language
          /\ u.backspaced = t.backspaced /\ u.reading = t.reading /\ u.cursor = t.cursor
          /\ u.selected = t.selected
      BY <1>2 DEF Sessions
    <2>2. AtEnd(u) <=> AtEnd(t)
      BY <2>1 DEF AtEnd
    <2>3. s = [u EXCEPT !.display = shown, !.remainders = rest,
                      !.preview = preview, !.additional = 0, !.prediction = prediction,
                      !.selected = selected, !.liveCandidate = liveOne]
      <3> HIDE DEF u, target, kept
      <3> QED  BY <1>1, <2>1, <2>2 DEF WithResult
    <2> HIDE DEF target, shown, rest, preview, selected, liveOne, kept
    <2> QED  BY <1>2, <2>3 DEF Sessions
  <1>6. /\ ListFor(shown, t.reading) /\ shown # << >>
        /\ best = CandidateFor(target, Len(target))
    BY <1>4, ConversionFacts, DesktopFacts
  <1>7. shown \in Seq(Candidates) /\ Len(shown) \in Nat /\ Len(shown) > 0 /\ DOMAIN shown = 1..Len(shown)
    <2> HIDE DEF shown
    <2>1. shown \in Seq(Candidates)
      BY <1>6 DEF ListFor
    <2> QED  BY <1>6, <2>1, TextLen
  <1>8. rest \in Seq(Texts)
    <2> HIDE DEF shown
    <2>1. t.reading \in Texts
      BY <1>2 DEF Sessions
    <2> QED  BY <1>6, <2>1, RemaindersFacts
  <1>9. place \in Option(Nat)
    <2> HIDE DEF shown, best
    <2> QED  BY <1>7, PositionOfFacts
  <1>10. preview \in Option(Nat) /\ selected \in Nat
    <2> HIDE DEF place
    <2>1. t.selected \in Nat
      BY <1>2 DEF Sessions
    <2>2. place # << >> => place[1] \in Nat
      BY <1>9, OptionFacts
    <2> HIDE DEF lives, best, target
    <2> QED  BY <1>9, <2>1, <2>2, OptionNone
  <1>11. /\ prediction \in Option(Edits)
         /\ \A i \in DOMAIN prediction : prediction[i].candidate = << >> =>
                 /\ kept # << >>
                 /\ SuffixEdit(target, kept[1]) # << >>
                 /\ prediction[i].delete \in 0..Len(target)
                 /\ Prefix(target, Len(target) - prediction[i].delete) \o prediction[i].append = kept[1]
    <2> HIDE DEF kept, target
    <2> QED  BY <1>3, <1>4, PredictionFacts
  <1>12. /\ liveOne \in Option(Candidates)
         /\ \A i \in DOMAIN liveOne : liveOne[i].text = t.reading
    <2>1. best \in Candidates /\ best.text = target
      <3> HIDE DEF best, target
      <3>1. Len(target) \in Nat
        BY <1>4, TextLen DEF Texts
      <3> QED  BY <1>4, <1>6, <3>1, CandidateForFacts, PrefixWhole
    <2>2. CASE lives
      <3>1. liveOne = <<best>> /\ target = t.reading
        BY <1>4, <2>2
      <3> HIDE DEF liveOne, best, target
      <3> QED  BY <2>1, <3>1, OptionSome
    <2>3. CASE ~lives
      <3>1. liveOne = << >>
        BY <2>3
      <3> HIDE DEF liveOne
      <3> QED  BY <3>1, OptionNone
    <2> HIDE DEF lives
    <2> QED  BY <2>2, <2>3
  <1>13. t.mode # "Composing" => selected = t.selected
    OBVIOUS
  <1>14. kept # << >> => t.backspaced /\ target = t.reading
    BY <1>4 DEF Ready, CursorFits
  <1>15. kept = IF t.backspaced THEN t.correction ELSE << >>
    OBVIOUS
  <1> HIDE DEF kept, target, shown, rest, preview, selected, liveOne
  <1>16. /\ s \in Sessions
         /\ SameComposition(s, t)
         /\ s.display = shown /\ s.remainders = rest /\ s.additional = 0
         /\ s.selected = selected /\ s.prediction = prediction /\ s.correction = kept
         /\ s.liveCandidate = liveOne
    BY <1>2, <1>3, <1>5, <1>7, <1>8, <1>10, <1>11, <1>12 DEF Sessions, SameComposition
  <1>17. Presented(s)
    <2>1. CursorFits(s) /\ TyposFit(s)
      BY <1>16 DEF Ready, CursorFits, TyposFit, SameComposition, AtEnd
    <2>2. ListFits(s)
      BY <1>6, <1>7, <1>12, <1>16 DEF ListFits, ListFor, rest, SameComposition, Ready
    <2>3. NotationsFit(s)
      BY <1>16 DEF NotationsFit
    <2>4. PredictionFits(s)
      BY <1>11, <1>14, <1>16 DEF PredictionFits, Leads, SameComposition
    <2> QED  BY <1>16, <2>1, <2>2, <2>3, <2>4 DEF Presented
  <1>18. \A i \in DOMAIN s.prediction : s.prediction[i].candidate = << >> =>
                 SuffixEdit(s.reading, s.correction[1]) # << >>
    BY <1>11, <1>14, <1>16 DEF SameComposition
  <1> QED  BY <1>7, <1>13, <1>15, <1>16, <1>17, <1>18

----------------------------------------------------------------------------
(***************************************************************************)
(* The operations on a session.                                            *)
(***************************************************************************)

\* A session that presents nothing fits when its cursor and corrections do.
LEMMA NothingPresented ==
    ASSUME NEW s \in Sessions, CursorFits(s), TyposFit(s), ModeFits(s), s.mode # "Selecting",
           s.display = << >>, s.remainders = << >>, s.additional = 0,
           s.prediction = << >>, s.liveCandidate = << >>
    PROVE  Good(s)
  <1>1. Remainders(s.reading, << >>) = << >> /\ DOMAIN << >> = {}
    BY DEF Remainders
  <1>2. ListFits(s)
    BY <1>1 DEF ListFits
  <1>3. NotationsFit(s) /\ PredictionFits(s) /\ SelectionFits(s)
    BY <1>1 DEF NotationsFit, PredictionFits, SelectionFits
  <1> QED  BY <1>2, <1>3 DEF Good, Presented

\* A session that has just been started or reset, in whatever language, is good,
\* and so is one that starts to take a code point.
LEMMA ResetFacts ==
    ASSUME NEW s \in Sessions
    PROVE  /\ Good(Reset(s)) /\ Reset(s).reading = << >>
           /\ Good([Reset(s) EXCEPT !.mode = "Unicode"])
           /\ [Reset(s) EXCEPT !.mode = "Unicode"].reading = << >>
           /\ Good(NewSession) /\ NewSession.reading = << >>
  <1> DEFINE Blank(n) ==
        /\ n \in Sessions /\ n.mode \in {"None", "Unicode"}
        /\ n.reading = << >> /\ n.cursor = 0 /\ n.display = << >>
        /\ n.remainders = << >> /\ n.additional = 0 /\ ~n.segment /\ ~n.backspaced
        /\ n.prediction = << >> /\ n.liveCandidate = << >> /\ n.typos = << >>
  <1>1. ASSUME NEW n, Blank(n)
        PROVE  Good(n) /\ n.reading = << >>
    <2>1. Len(<< >>) = 0 /\ DOMAIN << >> = {}
      OBVIOUS
    <2>2. CursorFits(n) /\ TyposFit(n) /\ ModeFits(n)
      BY <1>1, <2>1 DEF CursorFits, TyposFit, AtEnd, ModeFits, Composes
    <2> QED  BY <1>1, <2>2, NothingPresented
  <1>2. /\ << >> \in Texts /\ << >> \in Seq(Candidates) /\ << >> \in Seq(Texts)
        /\ \A S : << >> \in Option(S)
    BY OptionNone DEF Texts
  <1>3. s.language \in {"Japanese", "English"}
    BY DEF Sessions
  <1>4. Blank(NewSession)
    BY <1>2 DEF NewSession, Sessions, Modes
  <1>5. Blank(Reset(s))
    BY <1>2, <1>3 DEF Reset, NewSession, Sessions, Modes
  <1>6. Blank([Reset(s) EXCEPT !.mode = "Unicode"])
    BY <1>2, <1>3 DEF Reset, NewSession, Sessions, Modes
  <1> HIDE DEF Blank
  <1> QED  BY <1>1, <1>4, <1>5, <1>6

\* What handle_key starts from.
LEMMA KeyedFacts ==
    ASSUME Good(session)
    PROVE  /\ Good(Keyed)
           /\ Keyed \in Sessions /\ Keyed.typos = << >>
           /\ Keyed.mode = session.mode /\ Keyed.language = session.language
           /\ Keyed.reading = session.reading /\ Keyed.cursor = session.cursor
           /\ Keyed.display = session.display /\ Keyed.remainders = session.remainders
           /\ Keyed.selected = session.selected /\ Keyed.additional = session.additional
           /\ Keyed.segment = session.segment /\ Keyed.backspaced = session.backspaced
           /\ Keyed.prediction = session.prediction /\ Keyed.correction = session.correction
           /\ Keyed.liveCandidate = session.liveCandidate /\ Keyed.unicode = session.unicode
  <1>1. session \in Sessions
    BY DEF Good, Presented
  <1>2. << >> \in Option(Texts) /\ DOMAIN << >> = {}
    BY OptionNone
  <1>3. /\ Keyed \in Sessions /\ Keyed.typos = << >>
        /\ Keyed.mode = session.mode /\ Keyed.language = session.language
        /\ Keyed.reading = session.reading /\ Keyed.cursor = session.cursor
        /\ Keyed.display = session.display /\ Keyed.remainders = session.remainders
        /\ Keyed.selected = session.selected /\ Keyed.additional = session.additional
        /\ Keyed.segment = session.segment /\ Keyed.backspaced = session.backspaced
        /\ Keyed.prediction = session.prediction /\ Keyed.correction = session.correction
        /\ Keyed.liveCandidate = session.liveCandidate /\ Keyed.unicode = session.unicode
    BY <1>1, <1>2 DEF Keyed, Sessions
  <1>4. Good(Keyed)
    <2>1. CursorFits(Keyed) /\ NotationsFit(Keyed) /\ TyposFit(Keyed)
      BY <1>2, <1>3 DEF Good, Presented, CursorFits, NotationsFit, TyposFit, AtEnd
    <2>2. ListFits(Keyed) /\ PredictionFits(Keyed)
      BY ZenonT(30), <1>3 DEF Good, Presented, ListFits, PredictionFits, Leads
    <2>3. ModeFits(Keyed) /\ SelectionFits(Keyed)
      BY <1>3 DEF Good, ModeFits, SelectionFits, Composes
    <2> QED  BY <1>3, <2>1, <2>2, <2>3 DEF Good, Presented
  <1> QED  BY <1>3, <1>4

\* clear_presentation: nothing presented, the composition untouched.
LEMMA ClearFacts ==
    ASSUME NEW t \in Sessions
    PROVE  LET s == ClearPresentation(t)
           IN  /\ s \in Sessions /\ SameComposition(s, t)
               /\ s.selected = 0 /\ s.display = << >> /\ s.remainders = << >>
               /\ s.additional = 0 /\ s.prediction = << >> /\ s.liveCandidate = << >>
               /\ s.correction = t.correction
  <1>1. << >> \in Seq(Candidates) /\ << >> \in Seq(Texts)
    OBVIOUS
  <1>2. \A S : << >> \in Option(S)
    BY OptionNone
  <1> QED  BY <1>1, <1>2 DEF ClearPresentation, Sessions, SameComposition

\* Two sessions that differ at most in the reading and the cursor.
SameButText(s, t) ==
    /\ s.mode = t.mode /\ s.language = t.language
    /\ s.display = t.display /\ s.remainders = t.remainders
    /\ s.selected = t.selected /\ s.preview = t.preview /\ s.additional = t.additional
    /\ s.segment = t.segment /\ s.backspaced = t.backspaced
    /\ s.prediction = t.prediction /\ s.correction = t.correction
    /\ s.liveCandidate = t.liveCandidate /\ s.typos = t.typos /\ s.unicode = t.unicode

\* ComposingText::insert: the text goes in at the cursor, which ends behind it.
LEMMA InsertFacts ==
    ASSUME NEW t \in Sessions, t.cursor <= Len(t.reading), NEW text \in Texts
    PROVE  LET s == Insert(t, text)
           IN  /\ s \in Sessions /\ SameButText(s, t)
               /\ s.reading = Prefix(t.reading, t.cursor) \o text \o Suffix(t.reading, t.cursor)
               /\ Len(s.reading) = Len(t.reading) + Len(text)
               /\ s.cursor = t.cursor + Len(text)
  <1> DEFINE before == Prefix(t.reading, t.cursor)
             after == Suffix(t.reading, t.cursor)
  <1>1. t.reading \in Texts /\ t.cursor \in Nat
    BY DEF Sessions
  <1>2. before \in Texts /\ Len(before) = t.cursor
    BY <1>1, PrefixFacts
  <1>3. after \in Texts /\ Len(after) = Len(t.reading) - t.cursor
    BY <1>1, SuffixFacts DEF Texts
  <1>4. Len(text) \in Nat /\ Len(t.reading) \in Nat
    BY <1>1, TextLen DEF Texts
  <1> HIDE DEF before, after
  <1>5. before \o text \in Texts /\ Len(before \o text) = t.cursor + Len(text)
    BY <1>2, JoinFacts
  <1>6. /\ before \o text \o after \in Texts
        /\ Len(before \o text \o after) = t.cursor + Len(text) + (Len(t.reading) - t.cursor)
    BY <1>3, <1>5, JoinFacts
  <1>7. /\ t.cursor + Len(text) + (Len(t.reading) - t.cursor) = Len(t.reading) + Len(text)
        /\ t.cursor + Len(text) \in Nat
    BY <1>1, <1>4
  <1>8. Insert(t, text) = [t EXCEPT !.reading = before \o text \o after,
                                    !.cursor = t.cursor + Len(text)]
    BY DEF Insert, before, after
  <1>9. /\ Insert(t, text) \in Sessions /\ SameButText(Insert(t, text), t)
        /\ Insert(t, text).reading = before \o text \o after
        /\ Insert(t, text).cursor = t.cursor + Len(text)
    BY <1>6, <1>7, <1>8 DEF Sessions, SameButText
  <1> QED  BY <1>6, <1>7, <1>9 DEF before, after

\* ComposingText::delete_backward: nothing behind the cursor changes.
LEMMA DeleteFacts ==
    ASSUME NEW t \in Sessions, t.cursor <= Len(t.reading), NEW n \in Nat, n <= t.cursor
    PROVE  LET s == DeleteBackward(t, n)
           IN  /\ s \in Sessions /\ SameButText(s, t)
               /\ s.reading = Prefix(t.reading, t.cursor - n) \o Suffix(t.reading, t.cursor)
               /\ Len(s.reading) = Len(t.reading) - n
               /\ s.cursor = t.cursor - n
  <1> DEFINE left == t.cursor - n
             before == Prefix(t.reading, left)
             after == Suffix(t.reading, t.cursor)
  <1>1. t.reading \in Texts /\ t.cursor \in Nat
    BY DEF Sessions
  <1>2. Len(t.reading) \in Nat
    BY <1>1, TextLen DEF Texts
  <1>3. /\ left \in Nat /\ left <= Len(t.reading)
        /\ left = IF n < t.cursor THEN t.cursor - n ELSE 0
    BY <1>1, <1>2
  <1>4. DeleteBackward(t, n) = [t EXCEPT !.reading = before \o after, !.cursor = left]
    <2>1. DeleteBackward(t, n) =
            [t EXCEPT !.reading = Prefix(t.reading, IF n < t.cursor THEN t.cursor - n ELSE 0) \o after,
                      !.cursor = IF n < t.cursor THEN t.cursor - n ELSE 0]
      BY DEF DeleteBackward
    <2> QED  BY <1>3, <2>1
  <1> HIDE DEF left
  <1>5. before \in Texts /\ Len(before) = left
    BY <1>1, <1>3, PrefixFacts
  <1>6. after \in Texts /\ Len(after) = Len(t.reading) - t.cursor
    BY <1>1, SuffixFacts DEF Texts
  <1> HIDE DEF before, after
  <1>7. before \o after \in Texts /\ Len(before \o after) = left + (Len(t.reading) - t.cursor)
    BY <1>5, <1>6, JoinFacts
  <1>8. left + (Len(t.reading) - t.cursor) = Len(t.reading) - n
    BY <1>1, <1>2 DEF left
  <1>9. /\ DeleteBackward(t, n) \in Sessions /\ SameButText(DeleteBackward(t, n), t)
        /\ DeleteBackward(t, n).reading = before \o after
        /\ DeleteBackward(t, n).cursor = left
    BY <1>3, <1>4, <1>7 DEF Sessions, SameButText
  <1> QED  BY <1>7, <1>8, <1>9 DEF before, after, left

\* ComposingText::complete_prefix: what is left keeps a cursor behind its start.
LEMMA CompletePrefixFacts ==
    ASSUME NEW t \in Sessions, t.cursor <= Len(t.reading), NEW n \in Nat, n <= Len(t.reading)
    PROVE  LET s == CompletePrefix(t, n)
           IN  /\ s \in Sessions /\ SameButText(s, t)
               /\ s.reading = Suffix(t.reading, n)
               /\ s.cursor <= Len(s.reading)
               /\ s.reading # << >> => s.cursor > 0
  <1> DEFINE rest == Suffix(t.reading, n)
             moved == IF t.cursor > n THEN t.cursor - n ELSE 0
             place == IF moved = 0 THEN Len(rest) ELSE moved
  <1>1. t.reading \in Texts /\ t.cursor \in Nat
    BY DEF Sessions
  <1>2. Len(t.reading) \in Nat
    BY <1>1, TextLen DEF Texts
  <1>3. rest \in Texts /\ Len(rest) = Len(t.reading) - n
    BY <1>1, SuffixFacts DEF Texts
  <1>4. CompletePrefix(t, n) = [t EXCEPT !.reading = rest, !.cursor = place]
    BY DEF CompletePrefix
  <1> HIDE DEF rest
  <1>5. place \in Nat /\ place <= Len(rest) /\ (Len(rest) # 0 => place > 0)
    BY <1>1, <1>2, <1>3
  <1>6. rest # << >> => Len(rest) # 0
    BY <1>3, TextLen DEF Texts
  <1> HIDE DEF place
  <1>7. /\ CompletePrefix(t, n) \in Sessions /\ SameButText(CompletePrefix(t, n), t)
        /\ CompletePrefix(t, n).reading = rest
        /\ CompletePrefix(t, n).cursor = place
    BY ZenonT(30), <1>3, <1>4, <1>5 DEF Sessions, SameButText
  <1> QED  BY <1>5, <1>6, <1>7 DEF rest

----------------------------------------------------------------------------
(***************************************************************************)
(* Replies: a step leaves a good session and loses nothing that was typed. *)
(***************************************************************************)
Spells(commit, rest, typed) ==
    \E n \in 0..Len(session.reading) :
       commit \o rest = Prefix(session.reading, n) \o typed \o Suffix(session.reading, n)

Excused(request) ==
    \/ request \in Deletes
    \/ session.mode = "Previewing" /\ MarkedText(session) # session.reading

Lossless ==
    \/ reply'.error
    \/ Excused(reply'.request)
    \/ Spells(reply'.commit, session'.reading, reply'.typed)

Fine == Good(session') /\ live' = live /\ Lossless

\* make_state for a good session.
LEMMA AnswerFine ==
    ASSUME NEW request, NEW s, NEW consumed, NEW typed, NEW commit, NEW reset,
           Answer(request, s, consumed, typed, commit, reset),
           Good(s), Excused(request) \/ Spells(commit, s.reading, typed)
    PROVE  Fine
  <1>1. /\ session' = s /\ live' = live
        /\ reply'.request = request /\ reply'.commit = commit /\ reply'.typed = typed
    BY DEF Answer
  <1> QED  BY <1>1 DEF Fine, Lossless

\* An error of a handler resets the session.
LEMMA RefuseFine ==
    ASSUME EngineInv, NEW request, Refuse(request)
    PROVE  Fine
  <1>1. session' = Reset(session) /\ live' = live /\ reply'.error
    BY DEF Refuse
  <1>2. session \in Sessions
    BY DEF EngineInv, Good, Presented
  <1> QED  BY <1>1, <1>2, ResetFacts DEF Fine, Lossless

\* Nothing typed, nothing committed, the same reading.
LEMMA SpellsSame ==
    ASSUME EngineInv
    PROVE  Spells(<< >>, session.reading, << >>)
  <1>1. session.reading \in Texts
    BY DEF EngineInv, Good, Presented, Sessions
  <1>2. Len(session.reading) \in Nat
    BY <1>1, TextLen DEF Texts
  <1>3. << >> \in Texts /\ << >> \o session.reading = session.reading
    BY <1>1, JoinFacts DEF Texts
  <1>4. Prefix(session.reading, 0) \in Texts
    BY <1>1, <1>2, PrefixFacts
  <1>5. Prefix(session.reading, 0) \o << >> = Prefix(session.reading, 0)
    BY <1>4, JoinFacts
  <1>6. Prefix(session.reading, 0) \o Suffix(session.reading, 0) = session.reading
    BY SMTT(30), <1>1, <1>2, PrefixSuffix
  <1> QED  BY <1>2, <1>3, <1>5, <1>6 DEF Spells

\* Everything committed, or a part of it committed and the rest kept.
LEMMA SpellsCommitted ==
    ASSUME EngineInv, NEW commit, NEW rest, commit \o rest = session.reading
    PROVE  Spells(commit, rest, << >>)
  <1>1. session.reading \in Texts
    BY DEF EngineInv, Good, Presented, Sessions
  <1>2. << >> \o session.reading = session.reading
    BY <1>1, JoinFacts
  <1> QED  BY <1>2, SpellsSame DEF Spells

\* Everything committed and one more character typed.
LEMMA SpellsTyped ==
    ASSUME EngineInv, NEW typed \in Texts
    PROVE  Spells(session.reading, typed, typed) /\ Spells(typed, session.reading, typed)
  <1>1. session.reading \in Texts
    BY DEF EngineInv, Good, Presented, Sessions
  <1>2. Len(session.reading) \in Nat
    BY <1>1, TextLen DEF Texts
  <1>3. /\ Prefix(session.reading, Len(session.reading)) = session.reading
        /\ Suffix(session.reading, Len(session.reading)) = << >>
        /\ Suffix(session.reading, 0) = session.reading
    BY <1>1, PrefixWhole, SuffixEnds
  <1>4. session.reading \o typed \in Texts
    BY <1>1, JoinFacts
  <1>5. session.reading \o typed \o << >> = session.reading \o typed
    BY <1>4, JoinFacts
  <1>6. Prefix(session.reading, 0) \in Texts /\ Len(Prefix(session.reading, 0)) = 0
    BY <1>1, <1>2, PrefixFacts
  <1>7. Prefix(session.reading, 0) = << >>
    BY <1>6, TextLen DEF Texts
  <1>8. << >> \o typed = typed
    BY JoinFacts
  <1>9. Spells(session.reading, typed, typed)
    <2>1. Len(session.reading) \in 0..Len(session.reading)
      BY <1>2
    <2>2. session.reading \o typed =
            Prefix(session.reading, Len(session.reading)) \o typed
              \o Suffix(session.reading, Len(session.reading))
      BY <1>3, <1>5, Zenon
    <2> QED  BY <2>1, <2>2, Zenon DEF Spells
  <1>10. Spells(typed, session.reading, typed)
    <2>1. 0 \in 0..Len(session.reading)
      BY <1>2
    <2>2. typed \o session.reading =
            Prefix(session.reading, 0) \o typed \o Suffix(session.reading, 0)
      BY <1>3, <1>7, <1>8, Zenon
    <2> QED  BY <2>1, <2>2, Zenon DEF Spells
  <1> QED  BY <1>9, <1>10

\* A key that is taken, or passed on, and leaves the reading alone.
LEMMA ConsumedFine ==
    ASSUME EngineInv, NEW request, NEW s, Consumed(request, s) \/ Ignored(request, s),
           Good(s), s.reading = session.reading
    PROVE  Fine
  <1>1. Spells(<< >>, s.reading, << >>)
    BY SpellsSame
  <1> QED  BY <1>1, AnswerFine DEF Consumed, Ignored

\* A handler that ends with candidate generation.
LEMMA RegenerateFine ==
    ASSUME EngineInv, NEW request, NEW results, NEW typed, NEW commit,
           Regenerate(request, results, typed, commit),
           \A s \in results : Good(s),
           \A s \in results : Excused(request) \/ Spells(commit, s.reading, typed)
    PROVE  Fine
  <1>1. CASE Refuse(request)
    BY <1>1, RefuseFine
  <1>2. ASSUME NEW s \in results, Answer(request, s, TRUE, typed, commit, FALSE)
        PROVE  Fine
    BY <1>2, AnswerFine
  <1> QED  BY <1>1, <1>2 DEF Regenerate

\* In every mode but a preview what is shown, and a commit sends, is the reading.
LEMMA MarkedIsReading ==
    ASSUME EngineInv, session.mode # "Previewing"
    PROVE  MarkedText(session) = session.reading
  <1>1. /\ session \in Sessions /\ ListFits(session) /\ SelectionFits(session)
    BY DEF EngineInv, Good, Presented
  <1>2. CASE session.mode = "Selecting"
    <2> DEFINE i == session.selected + 1
               c == session.display[i]
    <2>1. session.selected \in Nat /\ session.selected < Len(session.display)
      BY <1>1, <1>2 DEF SelectionFits, Sessions
    <2>2. session.display \in Seq(Candidates) /\ session.reading \in Texts
      BY <1>1 DEF Sessions
    <2>3. i \in DOMAIN session.display /\ i \in 1..Len(session.display)
      BY <2>1, <2>2, TextLen
    <2>4. c \in Candidates
      BY <2>2, <2>3, ElementOfSeq
    <2>5. c.count \in Nat /\ c.count <= Len(session.reading) /\ c.text = Prefix(session.reading, c.count)
      BY <1>1, <2>3, <2>4 DEF ListFits, MadeFor, Candidates
    <2>6. session.remainders[i] = Suffix(session.reading, c.count)
      BY <1>1, <2>3 DEF ListFits, Remainders, RemainingAfter
    <2>7. MarkedText(session) = c.text \o session.remainders[i]
      <3> HIDE DEF c, i
      <3> QED  BY <1>2, <2>1 DEF MarkedText, Selected, c, i
    <2> QED  BY <2>2, <2>5, <2>6, <2>7, PrefixSuffix
  <1>3. CASE session.mode # "Selecting" /\ session.liveCandidate # << >>
    <2>1. session.liveCandidate \in Option(Candidates)
      BY <1>1 DEF Sessions
    <2>2. session.liveCandidate[1].text = session.reading
      BY <1>1, <1>3, <2>1, OptionFacts DEF ListFits
    <2> QED  BY <1>3, <2>2 DEF MarkedText
  <1>4. CASE session.mode # "Selecting" /\ session.liveCandidate = << >>
    BY <1>4 DEF MarkedText
  <1> QED  BY <1>2, <1>3, <1>4

\* Candidate generation for a session that composes leaves it good, unless a
\* row is selected that the new list may not have.
LEMMA RequestedGood ==
    ASSUME NEW t, Ready(t), Composes(t), t.mode = "Selecting" => t.selected = 0,
           NEW s \in Requested(t)
    PROVE  Good(s) /\ s.reading = t.reading
  <1>1. /\ Presented(s) /\ SameComposition(s, t) /\ Len(s.display) > 0
        /\ t.mode # "Composing" => s.selected = t.selected
    BY RequestedFacts
  <1>2. ModeFits(s)
    BY <1>1 DEF ModeFits, Composes, SameComposition, Ready
  <1>3. SelectionFits(s)
    BY <1>1 DEF SelectionFits, SameComposition
  <1> QED  BY <1>1, <1>2, <1>3 DEF Good, SameComposition

\* commit_candidate: the candidate goes out, what it leaves over is converted.
LEMMA CommitCandidateFine ==
    ASSUME EngineInv, NEW request, NEW s \in Sessions, CursorFits(s), s.typos = << >>,
           s.reading = session.reading,
           NEW c \in Candidates, MadeFor(c, session.reading),
           NEW mode \in {"Composing", "Previewing", "Selecting"},
           CommitCandidate(request, s, c, mode)
    PROVE  Fine
  <1> DEFINE done == [ClearPresentation(CompletePrefix(s, c.count))
                        EXCEPT !.backspaced = FALSE, !.correction = << >>]
             next == [done EXCEPT !.segment = FALSE, !.mode = mode]
             last == [done EXCEPT !.mode = "None"]
  <1>1. /\ s.reading \in Texts /\ c.count \in Nat /\ c.count <= Len(s.reading)
        /\ c.text = Prefix(s.reading, c.count)
    BY DEF Sessions, Candidates, MadeFor
  <1>2. LET p == CompletePrefix(s, c.count)
        IN  /\ p \in Sessions /\ SameButText(p, s)
            /\ p.reading = Suffix(s.reading, c.count)
            /\ p.cursor <= Len(p.reading)
            /\ p.reading # << >> => p.cursor > 0
    BY <1>1, CompletePrefixFacts DEF CursorFits
  <1>3. LET q == ClearPresentation(CompletePrefix(s, c.count))
        IN  /\ q \in Sessions /\ q.reading = Suffix(s.reading, c.count) /\ q.typos = << >>
            /\ q.cursor <= Len(q.reading)
            /\ q.reading # << >> => q.cursor > 0
            /\ q.selected = 0 /\ q.display = << >> /\ q.remainders = << >>
            /\ q.additional = 0 /\ q.prediction = << >> /\ q.liveCandidate = << >>
    BY <1>2, ClearFacts DEF SameComposition, SameButText
  <1>4. /\ done \in Sessions /\ done.reading = Suffix(s.reading, c.count) /\ done.typos = << >>
        /\ done.cursor <= Len(done.reading)
        /\ done.reading # << >> => done.cursor > 0
        /\ ~done.backspaced
        /\ done.selected = 0 /\ done.display = << >> /\ done.remainders = << >>
        /\ done.additional = 0 /\ done.prediction = << >> /\ done.liveCandidate = << >>
    <2>1. << >> \in Option(Texts \ {<< >>})
      BY OptionNone
    <2> QED  BY <1>3, <2>1 DEF Sessions
  <1>5. \/ done.reading # << >> /\ Regenerate(request, Requested(next), << >>, c.text)
        \/ done.reading = << >> /\ Answer(request, last, TRUE, << >>, c.text, TRUE)
        \/ Refuse(request)
    BY DEF CommitCandidate
  <1> HIDE DEF done
  <1>6. Spells(c.text, done.reading, << >>)
    <2>1. c.text \o done.reading = session.reading
      BY <1>1, <1>4, PrefixSuffix
    <2> QED  BY <2>1, SpellsCommitted
  <1>7. DOMAIN << >> = {}
    OBVIOUS
  <1>8. CASE done.reading # << >> /\ Regenerate(request, Requested(next), << >>, c.text)
    <2>1. /\ next \in Sessions /\ next.reading = done.reading /\ next.cursor = done.cursor
          /\ next.mode = mode /\ ~next.segment /\ ~next.backspaced
          /\ next.typos = << >> /\ next.selected = 0
      BY <1>4 DEF Sessions, Modes
    <2> HIDE DEF next
    <2>2. Ready(next) /\ Composes(next)
      BY <1>4, <1>7, <1>8, <2>1 DEF Ready, CursorFits, TyposFit, Composes
    <2>3. \A r \in Requested(next) : Good(r) /\ r.reading = done.reading
      BY <2>1, <2>2, RequestedGood
    <2> QED  BY <1>6, <1>8, <2>3, RegenerateFine
  <1>9. CASE done.reading = << >> /\ Answer(request, last, TRUE, << >>, c.text, TRUE)
    <2>1. /\ last \in Sessions /\ last.reading = << >> /\ last.mode = "None"
          /\ last.typos = << >> /\ last.cursor = done.cursor /\ ~last.backspaced
          /\ last.display = << >> /\ last.remainders = << >>
          /\ last.additional = 0 /\ last.prediction = << >> /\ last.liveCandidate = << >>
      BY <1>4, <1>9 DEF Sessions, Modes
    <2> HIDE DEF last
    <2>2. CursorFits(last) /\ TyposFit(last) /\ ModeFits(last)
      BY <1>4, <1>7, <1>9, <2>1 DEF CursorFits, TyposFit, ModeFits, Composes
    <2>3. Good(last)
      BY <2>1, <2>2, NothingPresented
    <2> QED  BY <1>6, <1>9, <2>1, <2>3, AnswerFine
  <1> QED  BY <1>5, <1>8, <1>9, RefuseFine

\* select_candidate_with_remainder_mode, whatever the index.
LEMMA SelectFine ==
    ASSUME EngineInv, NEW request, NEW s \in Sessions, CursorFits(s), s.typos = << >>,
           s.reading = session.reading, s.display = session.display,
           NEW index \in Nat, NEW mode \in {"Composing", "Previewing", "Selecting"},
           Select(request, s, index, mode)
    PROVE  Fine
  <1>1. CASE index < Len(s.display)
    <2> DEFINE c == session.display[index + 1]
    <2>1. session.display \in Seq(Candidates)
      BY DEF EngineInv, Good, Presented, Sessions
    <2>2. index + 1 \in DOMAIN session.display /\ index + 1 \in 1..Len(session.display)
      BY <1>1, <2>1, TextLen
    <2>3. c \in Candidates
      BY <2>1, <2>2, ElementOfSeq
    <2>4. MadeFor(c, session.reading)
      BY <2>2 DEF EngineInv, Good, Presented, ListFits
    <2>5. CommitCandidate(request, s, c, mode)
      BY <1>1 DEF Select
    <2> HIDE DEF c
    <2> QED  BY <2>3, <2>4, <2>5, CommitCandidateFine
  <1>2. CASE ~(index < Len(s.display))
    BY <1>2, RefuseFine DEF Select
  <1> QED  BY <1>1, <1>2

----------------------------------------------------------------------------
(***************************************************************************)
(* The requests, one by one.                                               *)
(***************************************************************************)

\* Two sessions that present the same for the same text; a live candidate or
\* typo corrections may have gone.
Shows(s, t) ==
    /\ s.reading = t.reading /\ s.cursor = t.cursor
    /\ s.segment = t.segment /\ s.backspaced = t.backspaced
    /\ s.display = t.display /\ s.remainders = t.remainders /\ s.additional = t.additional
    /\ s.prediction = t.prediction /\ s.correction = t.correction
    /\ s.liveCandidate \in {t.liveCandidate, << >>}
    /\ s.typos \in {t.typos, << >>}

\* A session that shows what another one shows keeps its invariant: only the
\* mode, the language and the selected row may differ.
LEMMA StillGood ==
    ASSUME NEW t, Good(t), NEW s \in Sessions, Shows(s, t),
           Composes(s) <=> Composes(t), SelectionFits(s)
    PROVE  Good(s)
  <1>1. DOMAIN << >> = {}
    OBVIOUS
  <1>2. CursorFits(s) /\ NotationsFit(s) /\ TyposFit(s)
    BY <1>1 DEF Good, Presented, CursorFits, NotationsFit, TyposFit, AtEnd, Shows
  <1>3. ListFits(s) /\ PredictionFits(s)
    BY <1>1 DEF Good, Presented, ListFits, PredictionFits, Leads, Shows
  <1>4. ModeFits(s)
    BY DEF Good, ModeFits, Shows
  <1> QED  BY <1>2, <1>3, <1>4 DEF Good, Presented

\* Letters typed outside a composition go straight to the application.
LEMMA DirectInputFine ==
    ASSUME EngineInv, NEW c \in Letters, DirectInput(c)
    PROVE  Fine
  <1>1. <<c>> \in Texts
    BY EngineAssumption DEF Texts
  <1>2. Spells(<<c>>, Keyed.reading, <<c>>) /\ Good(Keyed)
    BY <1>1, SpellsTyped, KeyedFacts DEF EngineInv
  <1> QED  BY <1>2, AnswerFine DEF DirectInput

\* A typed character goes in at the cursor, or starts a new composition once
\* what a preview or a selection shows has been committed.
LEMMA InputFine ==
    ASSUME EngineInv, NEW c \in Letters, Input(c)
    PROVE  Fine
  <1> DEFINE commit == IF session.mode \in {"Previewing", "Selecting"}
                       THEN MarkedText(session) ELSE << >>
             cleared == IF commit # << >> THEN Reset(session) ELSE ClearPresentation(Keyed)
             plain == [cleared EXCEPT !.segment = FALSE, !.backspaced = FALSE]
             t == [Insert(plain, <<c>>) EXCEPT !.mode = "Composing"]
  <1>1. /\ session.mode \in {"None", "Composing", "Previewing", "Selecting"}
        /\ Regenerate("Input", Requested(t), <<c>>, commit)
    BY DEF Input
  <1>2. <<c>> \in Texts /\ Len(<<c>>) = 1
    BY EngineAssumption DEF Texts
  <1>3. session \in Sessions /\ session.reading \in Texts /\ Good(session)
    BY DEF EngineInv, Good, Presented, Sessions
  <1>4. /\ cleared \in Sessions /\ cleared.cursor <= Len(cleared.reading)
        /\ cleared.typos = << >>
        /\ commit = << >> => cleared.reading = session.reading /\ cleared.cursor = session.cursor
        /\ commit # << >> => cleared.reading = << >> /\ cleared.cursor = 0
    <2>1. CASE commit # << >>
      <3>1. Reset(session) \in Sessions /\ Reset(session).reading = << >>
            /\ CursorFits(Reset(session))
        BY <1>3, ResetFacts DEF Good, Presented
      <3>2. Reset(session).typos = << >> /\ Reset(session).cursor = 0
        BY DEF Reset, NewSession
      <3>3. cleared = Reset(session)
        BY <2>1
      <3> HIDE DEF cleared, commit
      <3> QED  BY <2>1, <3>1, <3>2, <3>3 DEF CursorFits
    <2>2. CASE commit = << >>
      <3>1. cleared = ClearPresentation(Keyed)
        BY <2>2
      <3>2. /\ cleared \in Sessions /\ SameComposition(cleared, Keyed)
        BY <1>3, <3>1, KeyedFacts, ClearFacts
      <3> HIDE DEF cleared, commit
      <3>3. Keyed.cursor <= Len(Keyed.reading)
        BY <1>3, KeyedFacts DEF Good, Presented, CursorFits
      <3> QED  BY <1>3, <2>2, <3>2, <3>3, KeyedFacts DEF SameComposition
    <2> QED  BY <2>1, <2>2
  <1> HIDE DEF cleared
  <1>5. /\ plain \in Sessions /\ plain.reading = cleared.reading /\ plain.cursor = cleared.cursor
        /\ plain.typos = << >> /\ ~plain.segment /\ ~plain.backspaced
    BY <1>4 DEF Sessions
  <1> HIDE DEF plain
  <1>6. LET i == Insert(plain, <<c>>)
        IN  /\ i \in Sessions /\ SameButText(i, plain)
            /\ i.reading = Prefix(plain.reading, plain.cursor) \o <<c>> \o Suffix(plain.reading, plain.cursor)
            /\ Len(i.reading) = Len(plain.reading) + Len(<<c>>)
            /\ i.cursor = plain.cursor + Len(<<c>>)
    BY <1>2, <1>4, <1>5, InsertFacts
  <1>7. /\ t \in Sessions /\ t.mode = "Composing" /\ t.typos = << >> /\ ~t.segment /\ ~t.backspaced
        /\ t.reading = Prefix(cleared.reading, cleared.cursor) \o <<c>>
                         \o Suffix(cleared.reading, cleared.cursor)
        /\ Len(t.reading) = Len(cleared.reading) + 1
        /\ t.cursor = cleared.cursor + 1
    BY <1>2, <1>5, <1>6 DEF Sessions, Modes, SameButText
  <1> HIDE DEF t
  <1>8. Ready(t) /\ Composes(t)
    <2>1. Len(cleared.reading) \in Nat /\ cleared.cursor \in Nat
      BY <1>4, TextLen DEF Sessions, Texts
    <2>2. t.reading # << >>
      BY <1>7, <2>1, TextLen DEF Sessions, Texts
    <2>3. t.cursor <= Len(t.reading)
      BY <1>4, <1>7, <2>1
    <2>4. DOMAIN << >> = {}
      OBVIOUS
    <2> QED  BY <1>7, <2>2, <2>3, <2>4 DEF Ready, CursorFits, TyposFit, Composes
  <1>9. \A s \in Requested(t) : Good(s) /\ s.reading = t.reading
    BY <1>7, <1>8, RequestedGood
  <1>10. Excused("Input") \/ Spells(commit, t.reading, <<c>>)
    <2>1. CASE commit = << >>
      <3>1. << >> \o t.reading = t.reading
        BY <1>7, JoinFacts DEF Sessions
      <3>2. session.cursor \in 0..Len(session.reading)
        BY <1>3 DEF Good, Presented, CursorFits, Sessions
      <3>3. t.reading = Prefix(session.reading, session.cursor) \o <<c>>
                          \o Suffix(session.reading, session.cursor)
        BY <1>4, <1>7, <2>1
      <3> HIDE DEF commit
      <3> QED  BY <2>1, <3>1, <3>2, <3>3 DEF Spells
    <2>2. CASE commit # << >>
      <3>1. MarkedText(session) # session.reading => Excused("Input")
        BY MarkedIsReading DEF Excused
      <3>2. commit = MarkedText(session)
        BY <2>2
      <3>3. t.reading = <<c>>
        <4> HIDE DEF commit
        <4>1. << >> \in Texts /\ Len(<< >>) = 0
          BY DEF Texts
        <4>2. Prefix(<< >>, 0) = << >> /\ Suffix(<< >>, 0) = << >>
          BY <4>1, PrefixWhole, SuffixEnds
        <4>3. << >> \o <<c>> = <<c>> /\ <<c>> \o << >> = <<c>>
          BY <1>2, JoinFacts
        <4>4. t.reading = << >> \o <<c>> \o << >>
          BY <1>4, <1>7, <2>2, <4>2
        <4> QED  BY <4>3, <4>4
      <3> HIDE DEF commit
      <3> QED  BY <1>2, <3>1, <3>2, <3>3, SpellsTyped
    <2> QED  BY <2>1, <2>2
  <1> HIDE DEF commit
  <1> QED  BY <1>1, <1>9, <1>10, RegenerateFine

\* Keyed, with another language or number of hexadecimal digits, or the same mode
\* group, is as good as the session.
LEMMA KeyedWithGood ==
    ASSUME EngineInv, NEW s \in Sessions, Shows(s, session),
           s.mode = session.mode, s.selected = session.selected
    PROVE  Good(s)
  BY StillGood DEF EngineInv, Composes, SelectionFits, Good, Shows

\* What a handler that selects finds in Keyed.
LEMMA KeyedSelects ==
    ASSUME EngineInv
    PROVE  /\ Keyed \in Sessions /\ CursorFits(Keyed) /\ Keyed.typos = << >>
           /\ Keyed.reading = session.reading /\ Keyed.display = session.display
           /\ session.selected \in Nat
  BY KeyedFacts DEF EngineInv, Good, Presented, Sessions

\* A digit picks a row of the page that the selection is on.
LEMMA DigitFine ==
    ASSUME EngineInv, NEW n \in Letters, Digit(n)
    PROVE  Fine
  <1> DEFINE page == session.selected \div PageSize
  <1>1. PageSize \in Nat /\ PageSize > 0 /\ session.selected \in Nat
    BY EngineAssumption, KeyedSelects
  <1>2. page \in Nat
    BY <1>1
  <1>3. n \in 1..9 /\ Select("Digit", Keyed, page * PageSize + n - 1, "Previewing")
    BY DEF Digit
  <1> HIDE DEF page
  <1>4. page * PageSize \in Nat
    BY <1>1, <1>2
  <1> DEFINE row == page * PageSize
  <1>5. row + n - 1 \in Nat
    <2> HIDE DEF row
    <2> QED  BY <1>3, <1>4 DEF row
  <1> QED  BY <1>3, <1>5, KeyedSelects, SelectFine

\* Nothing is composed while a code point is being entered.
LEMMA UnicodeKeyFine ==
    ASSUME EngineInv, UnicodeKey
    PROVE  Fine
  <1>1. session \in Sessions /\ session.mode = "Unicode" /\ session.reading = << >>
    BY DEF EngineInv, Good, Presented, ModeFits, Composes, UnicodeKey
  <1>2. Good(Keyed) /\ Keyed.reading = session.reading /\ Keyed \in Sessions
    BY KeyedFacts DEF EngineInv
  <1>3. Good(Reset(session)) /\ Reset(session).reading = << >>
    BY <1>1, ResetFacts
  <1>4. ASSUME NEW n \in Nat
        PROVE  LET s == [Keyed EXCEPT !.unicode = n] IN Good(s) /\ s.reading = session.reading
    <2> DEFINE s == [Keyed EXCEPT !.unicode = n]
    <2>1. s \in Sessions /\ Shows(s, session) /\ s.mode = session.mode
          /\ s.selected = session.selected /\ s.reading = session.reading
      BY <1>2, KeyedFacts DEF Sessions, Shows, EngineInv
    <2> HIDE DEF s
    <2>2. Good(s)
      BY <2>1, KeyedWithGood
    <2> QED  BY <2>1, <2>2 DEF s
  <1>5. session.unicode \in Nat /\ Keyed.unicode = session.unicode
    BY <1>1, KeyedFacts DEF EngineInv, Sessions
  <1>6. CASE session.unicode < MaxHex /\ Consumed("Unicode", [Keyed EXCEPT !.unicode = @ + 1])
    <2>1. Consumed("Unicode", [Keyed EXCEPT !.unicode = session.unicode + 1])
      BY <1>5, <1>6
    <2>2. session.unicode + 1 \in Nat
      BY <1>5
    <2> QED  BY <1>4, <2>1, <2>2, ConsumedFine
  <1>7. CASE session.unicode > 0 /\ Consumed("Unicode", [Keyed EXCEPT !.unicode = @ - 1])
    <2>1. Consumed("Unicode", [Keyed EXCEPT !.unicode = session.unicode - 1])
      BY <1>5, <1>7
    <2>2. session.unicode - 1 \in Nat
      BY <1>5, <1>7
    <2> QED  BY <1>4, <2>1, <2>2, ConsumedFine
  <1>8. CASE Cancelled("Unicode", session)
    <2>1. Spells(<< >>, Reset(session).reading, << >>)
      BY <1>1, <1>3, SpellsSame
    <2> QED  BY <1>3, <1>8, <2>1, AnswerFine DEF Cancelled
  <1>9. ASSUME NEW c \in Letters, Answer("Unicode", Reset(session), TRUE, <<c>>, <<c>>, TRUE)
        PROVE  Fine
    <2>1. <<c>> \in Texts
      BY EngineAssumption DEF Texts
    <2>2. Spells(<<c>>, Reset(session).reading, <<c>>)
      BY <1>1, <1>3, <2>1, SpellsTyped
    <2> QED  BY <1>3, <1>9, <2>2, AnswerFine
  <1>10. CASE Consumed("Unicode", Keyed)
    BY <1>2, <1>10, ConsumedFine
  <1> QED  BY <1>6, <1>7, <1>8, <1>9, <1>10 DEF UnicodeKey

\* Enter and StartUnicodeInput: the preedit goes out whole.
LEMMA CommitMarkedFine ==
    ASSUME EngineInv, NEW request, NEW s, NEW reset, CommitMarked(request, s, reset),
           Good(s), s.reading = << >>
    PROVE  Fine
  <1>1. session.reading \in Texts
    BY DEF EngineInv, Good, Presented, Sessions
  <1>2. session.reading \o << >> = session.reading
    BY <1>1, JoinFacts
  <1>3. Excused(request) \/ Spells(MarkedText(session), s.reading, << >>)
    BY <1>2, MarkedIsReading, SpellsCommitted DEF Excused
  <1> QED  BY <1>3, AnswerFine, RefuseFine DEF CommitMarked

\* Entering a code point commits what is composed and begins with no reading.
LEMMA StartUnicodeInputFine ==
    ASSUME EngineInv, StartUnicodeInput
    PROVE  Fine
  <1> DEFINE entered == [Reset(session) EXCEPT !.mode = "Unicode"]
             opened == [Keyed EXCEPT !.mode = "Unicode", !.unicode = 0]
  <1>1. session \in Sessions /\ session.reading \in Texts
    BY DEF EngineInv, Good, Presented, Sessions
  <1>2. Good(entered) /\ entered.reading = << >>
    BY <1>1, ResetFacts
  <1>3. CASE session.mode = "None" /\ Consumed("StartUnicodeInput", opened)
    <2>1. opened \in Sessions /\ Shows(opened, session) /\ opened.mode = "Unicode"
          /\ opened.reading = session.reading
      BY KeyedFacts DEF Sessions, Shows, EngineInv, Modes
    <2> HIDE DEF opened
    <2>2. Good(opened)
      BY <1>3, <2>1, StillGood DEF EngineInv, Composes, SelectionFits
    <2> QED  BY <1>3, <2>1, <2>2, ConsumedFine
  <1>4. CASE CommitMarked("StartUnicodeInput", entered, FALSE)
    BY <1>2, <1>4, CommitMarkedFine
  <1>5. CASE /\ session.mode = "Selecting" /\ session.selected < Len(session.display)
             /\ Answer("StartUnicodeInput", entered, TRUE, << >>,
                       Selected(session).text \o RemainingAfter(session.reading, Selected(session)),
                       FALSE)
    <2> DEFINE i == session.selected + 1
    <2>1. /\ session.display \in Seq(Candidates) /\ session.selected \in Nat
          /\ \A j \in DOMAIN session.display : MadeFor(session.display[j], session.reading)
      BY DEF EngineInv, Good, Presented, Sessions, ListFits
    <2>2. i \in DOMAIN session.display /\ i \in 1..Len(session.display)
      BY <1>5, <2>1, TextLen
    <2>3. Selected(session) \in Candidates
      BY <2>1, <2>2, ElementOfSeq DEF Selected
    <2>4. MadeFor(Selected(session), session.reading)
      BY <2>1, <2>2 DEF Selected
    <2>5. Selected(session).text \o RemainingAfter(session.reading, Selected(session)) = session.reading
      BY <1>1, <2>3, <2>4, PrefixSuffix DEF MadeFor, Candidates, RemainingAfter
    <2>6. session.reading \o << >> = session.reading
      BY <1>1, JoinFacts
    <2>7. Spells(session.reading, entered.reading, << >>)
      BY <1>2, <2>6, SpellsCommitted
    <2> QED  BY <1>2, <1>5, <2>5, <2>7, AnswerFine
  <1> QED  BY <1>3, <1>4, <1>5, RefuseFine DEF StartUnicodeInput

\* The language may change in the middle of a composition.
LEMMA LanguageFacts ==
    ASSUME EngineInv, NEW language \in {"Japanese", "English"}
    PROVE  LET s == [Keyed EXCEPT !.language = language]
           IN  /\ Good(s) /\ s \in Sessions /\ CursorFits(s) /\ s.typos = << >>
               /\ s.reading = session.reading /\ s.display = session.display
  <1> DEFINE s == [Keyed EXCEPT !.language = language]
  <1>1. s \in Sessions /\ Shows(s, session) /\ s.mode = session.mode /\ s.typos = << >>
        /\ s.selected = session.selected /\ s.reading = session.reading
        /\ s.display = session.display
    BY KeyedFacts DEF Sessions, Shows, EngineInv
  <1> HIDE DEF s
  <1>2. Good(s)
    BY <1>1, KeyedWithGood
  <1> QED  BY <1>1, <1>2 DEF s, Good, Presented

\* The language keys: Eisu commits a selected candidate first, Kana only switches.
LEMMA EisuKanaFine ==
    ASSUME EngineInv, Eisu \/ Kana
    PROVE  Fine
  <1>1. CASE Eisu /\ session.mode = "Selecting"
    BY <1>1, LanguageFacts, KeyedSelects, SelectFine DEF Eisu
  <1>2. CASE Eisu /\ session.mode # "Selecting"
    BY <1>2, LanguageFacts, ConsumedFine DEF Eisu
  <1>3. CASE Kana
    BY <1>3, LanguageFacts, ConsumedFine DEF Kana
  <1> QED  BY <1>1, <1>2, <1>3

\* Escape steps back one mode, or drops the composition.
LEMMA EscapeFine ==
    ASSUME EngineInv, Escape
    PROVE  Fine
  <1>1. session \in Sessions /\ Keyed \in Sessions /\ session.selected \in Nat
        /\ Keyed.selected = session.selected
    BY KeyedFacts DEF EngineInv, Good, Presented, Sessions
  <1>2. CASE session.mode = "None" /\ Ignored("Escape", Keyed)
    BY <1>2, KeyedFacts, ConsumedFine DEF EngineInv
  <1>3. CASE Cancelled("Escape", session)
    <2>1. Excused("Escape")
      BY DEF Excused, Deletes
    <2> QED  BY <1>1, <1>3, <2>1, ResetFacts, AnswerFine DEF Cancelled
  <1>4. ASSUME NEW mode \in {"Composing", "Previewing"}, Composes(session),
               Consumed("Escape", [Keyed EXCEPT !.mode = mode])
        PROVE  Fine
    <2> DEFINE s == [Keyed EXCEPT !.mode = mode]
    <2>1. s \in Sessions /\ Shows(s, session) /\ s.mode = mode /\ s.reading = session.reading
      BY KeyedFacts DEF Sessions, Shows, EngineInv, Modes
    <2>2. Consumed("Escape", s)
      BY <1>4
    <2> HIDE DEF s
    <2>3. Good(s)
      BY <1>4, <2>1, StillGood DEF EngineInv, Composes, SelectionFits
    <2> QED  BY <2>1, <2>2, <2>3, ConsumedFine
  <1>5. CASE session.mode = "Previewing" /\ Consumed("Escape", [Keyed EXCEPT !.mode = "Composing"])
    BY <1>4, <1>5 DEF Composes
  <1>6. CASE /\ session.mode = "Selecting"
             /\ Consumed("Escape", [Keyed EXCEPT !.mode = IF live THEN "Composing" ELSE "Previewing"])
    <2>1. Composes(session)
      BY <1>6 DEF Composes
    <2>2. CASE live
      BY <1>4, <1>6, <2>1, <2>2
    <2>3. CASE ~live
      BY <1>4, <1>6, <2>1, <2>3
    <2> QED  BY <2>2, <2>3
  <1> QED  BY <1>2, <1>3, <1>5, <1>6 DEF Escape

\* Enter commits the marked text, or the selected candidate.
LEMMA EnterFine ==
    ASSUME EngineInv, Enter
    PROVE  Fine
  <1>1. session \in Sessions
    BY DEF EngineInv, Good, Presented
  <1>2. CASE CommitMarked("Enter", Reset(session), TRUE)
    BY <1>1, <1>2, ResetFacts, CommitMarkedFine
  <1>3. CASE Select("Enter", Keyed, session.selected, "Previewing")
    BY <1>3, KeyedSelects, SelectFine
  <1> QED  BY <1>2, <1>3 DEF Enter

\* Backspace offers a correction of the reading it leaves.
LEMMA CorrectedGood ==
    ASSUME NEW t, Ready(t), t.mode = "Composing", t.backspaced,
           NEW target \in Option(Texts \ {<< >>}),
           t.correction # << >> => target = t.correction,
           NEW s \in Requested(t)
    PROVE  Good(Corrected([s EXCEPT !.liveCandidate = << >>], target))
  <1> DEFINE u == [s EXCEPT !.liveCandidate = << >>]
             w == Corrected(u, target)
  <1>1. /\ Presented(s) /\ SameComposition(s, t) /\ Len(s.display) > 0
        /\ s.correction = t.correction
        /\ \A i \in DOMAIN s.prediction : s.prediction[i].candidate = << >> =>
                 SuffixEdit(s.reading, s.correction[1]) # << >>
    BY RequestedFacts
  <1>2. Good(s) /\ s.mode = "Composing" /\ s.backspaced
    BY <1>1, RequestedGood DEF Composes, SameComposition
  <1>3. u \in Sessions /\ Shows(u, s) /\ u.mode = s.mode /\ u.liveCandidate = << >>
    BY <1>2, OptionNone DEF Good, Presented, Sessions, Shows
  <1> HIDE DEF u
  <1>4. Good(u)
    BY <1>2, <1>3, StillGood DEF Composes, SelectionFits
  <1>5. /\ u.reading = s.reading /\ u.prediction = s.prediction /\ u.correction = t.correction
        /\ u.reading \in Texts /\ u.prediction \in Option(Edits) /\ u.backspaced
    BY <1>1, <1>2, <1>3 DEF Shows, Sessions
  <1>6. ASSUME NEW v \in Sessions,
               v.mode = "Composing", v.reading = u.reading, v.cursor = u.cursor,
               v.segment = u.segment, v.backspaced = u.backspaced, v.display = u.display,
               v.remainders = u.remainders, v.additional = u.additional,
               v.liveCandidate = u.liveCandidate, v.typos = u.typos, PredictionFits(v)
        PROVE  Good(v)
    <2>1. CursorFits(v) /\ TyposFit(v) /\ NotationsFit(v) /\ ListFits(v)
      BY <1>4, <1>6 DEF Good, Presented, CursorFits, TyposFit, NotationsFit, ListFits, AtEnd
    <2>2. ModeFits(v) /\ SelectionFits(v)
      BY <1>2, <1>3, <1>4, <1>6 DEF Good, ModeFits, SelectionFits, Composes
    <2> QED  BY <1>6, <2>1, <2>2 DEF Good, Presented
  <1> DEFINE edit == IF target = << >> THEN << >> ELSE SuffixEdit(u.reading, target[1])
             corrected == [u EXCEPT !.correction = target]
             dropped == [corrected EXCEPT !.correction = << >>]
             offered == [corrected EXCEPT !.prediction = edit]
  <1>7. w = CASE target = << >> -> corrected
              [] edit = << >> -> dropped
              [] OTHER -> offered
    BY DEF Corrected
  <1>8. << >> \in Option(Texts \ {<< >>})
    BY OptionNone
  <1>9. ASSUME target = << >>
        PROVE  Good(w)
    <2>1. w = corrected
      BY <1>7, <1>9
    <2>2. u.correction = << >>
      BY <1>5, <1>9
    <2>3. /\ corrected \in Sessions /\ corrected.mode = u.mode
          /\ corrected.reading = u.reading /\ corrected.cursor = u.cursor
          /\ corrected.segment = u.segment /\ corrected.backspaced = u.backspaced
          /\ corrected.display = u.display /\ corrected.remainders = u.remainders
          /\ corrected.additional = u.additional /\ corrected.liveCandidate = u.liveCandidate
          /\ corrected.typos = u.typos /\ corrected.prediction = u.prediction
          /\ corrected.correction = u.correction
      BY <1>3, <1>9, <2>2 DEF Sessions
    <2> HIDE DEF corrected
    <2>4. PredictionFits(corrected)
      BY ZenonT(30), <1>4, <2>3 DEF Good, Presented, PredictionFits, Leads
    <2> QED  BY <1>2, <1>3, <1>6, <2>1, <2>3, <2>4
  <1>10. ASSUME target # << >>, edit = << >>
         PROVE  Good(w)
    <2>1. w = dropped
      BY <1>7, <1>10
    <2>2. /\ dropped \in Sessions /\ dropped.mode = u.mode
          /\ dropped.reading = u.reading /\ dropped.cursor = u.cursor
          /\ dropped.segment = u.segment /\ dropped.backspaced = u.backspaced
          /\ dropped.display = u.display /\ dropped.remainders = u.remainders
          /\ dropped.additional = u.additional /\ dropped.liveCandidate = u.liveCandidate
          /\ dropped.typos = u.typos /\ dropped.prediction = u.prediction
      BY <1>3, <1>8 DEF Sessions
    <2> HIDE DEF dropped
    <2>3. ASSUME NEW i \in DOMAIN u.prediction
          PROVE  u.prediction[i].candidate # << >>
      <3>1. SuffixEdit(u.reading, target[1]) = << >>
        BY <1>10
      <3>2. u.prediction[i].candidate = << >> => t.correction # << >>
        BY <1>4, <1>5 DEF Good, Presented, PredictionFits, Leads
      <3> QED  BY <1>1, <1>5, <3>1, <3>2
    <2>4. PredictionFits(dropped)
      BY <2>2, <2>3 DEF PredictionFits, Leads
    <2> QED  BY <1>2, <1>3, <1>6, <2>1, <2>2, <2>4
  <1>11. ASSUME target # << >>, edit # << >>
         PROVE  Good(w)
    <2>1. w = offered
      BY <1>7, <1>11
    <2>2. target[1] \in Texts /\ edit = SuffixEdit(u.reading, target[1])
      BY <1>11, OptionFacts
    <2>3. /\ edit \in Option(Edits)
          /\ \A i \in DOMAIN edit :
                /\ edit[i].delete \in 0..Len(u.reading)
                /\ Prefix(u.reading, Len(u.reading) - edit[i].delete) \o edit[i].append = target[1]
      <3> HIDE DEF edit
      <3>2. PICK q \in Texts : q = target[1]
        BY <2>2
      <3>3. PICK r \in Texts : r = u.reading
        BY <1>5
      <3>4. edit = SuffixEdit(r, q)
        BY <2>2, <3>2, <3>3
      <3>5. /\ edit \in Option(Edits)
            /\ \A i \in DOMAIN edit :
                  /\ edit[i].delete \in 0..Len(r)
                  /\ Prefix(r, Len(r) - edit[i].delete) \o edit[i].append = q
        BY <3>4, SuffixEditFacts
      <3> QED  BY <3>2, <3>3, <3>5
    <2> HIDE DEF edit
    <2>4. /\ offered \in Sessions /\ offered.mode = u.mode
          /\ offered.reading = u.reading /\ offered.cursor = u.cursor
          /\ offered.segment = u.segment /\ offered.backspaced = u.backspaced
          /\ offered.display = u.display /\ offered.remainders = u.remainders
          /\ offered.additional = u.additional /\ offered.liveCandidate = u.liveCandidate
          /\ offered.typos = u.typos /\ offered.prediction = edit
          /\ offered.correction = target
      BY <1>3, <2>3 DEF Sessions
    <2> HIDE DEF offered
    <2>5. PredictionFits(offered)
      BY <1>5, <1>11, <2>3, <2>4 DEF PredictionFits, Leads
    <2> QED  BY <1>2, <1>3, <1>6, <2>1, <2>4, <2>5
  <1> QED  BY <1>9, <1>10, <1>11 DEF u

\* The same as RequestedGood, when the handler then moves on within the composition.
LEMMA RequestedThen ==
    ASSUME NEW t, Ready(t), NEW s \in Requested(t), NEW w \in Sessions, Shows(w, s),
           Composes(w), w.mode = "Selecting" => w.selected = 0
    PROVE  Good(w) /\ w.reading = t.reading
  <1>1. Presented(s) /\ SameComposition(s, t) /\ Len(s.display) > 0
    BY RequestedFacts
  <1>2. DOMAIN << >> = {}
    OBVIOUS
  <1>3. CursorFits(w) /\ NotationsFit(w) /\ TyposFit(w)
    BY <1>1, <1>2 DEF Presented, CursorFits, NotationsFit, TyposFit, AtEnd, Shows
  <1>4. ListFits(w) /\ PredictionFits(w)
    BY ZenonT(30), <1>1, <1>2 DEF Presented, ListFits, PredictionFits, Leads, Shows
  <1>5. w.reading = t.reading /\ w.reading # << >>
    BY <1>1 DEF SameComposition, Shows, Ready
  <1>6. ModeFits(w) /\ SelectionFits(w)
    BY <1>1, <1>5 DEF ModeFits, SelectionFits, Shows
  <1> QED  BY <1>3, <1>4, <1>5, <1>6 DEF Good, Presented

\* A handler that asks for candidates of the reading as it is.
LEMMA RegenerateSame ==
    ASSUME EngineInv, NEW request, NEW results, Regenerate(request, results, << >>, << >>),
           \A s \in results : Good(s) /\ s.reading = session.reading
    PROVE  Fine
  <1>1. \A s \in results : Spells(<< >>, s.reading, << >>)
    BY SpellsSame
  <1> QED  BY <1>1, RegenerateFine

\* A session with the reading and the cursor of the present one can be converted.
LEMMA KeyedReady ==
    ASSUME EngineInv, session.reading # << >>, NEW t \in Sessions,
           t.reading = session.reading, t.cursor = session.cursor, t.segment = session.segment,
           t.backspaced => session.backspaced, t.typos = << >>
    PROVE  Ready(t)
  BY DEF EngineInv, Good, Presented, CursorFits, AtEnd, Ready, TyposFit

\* Backspace always takes the last character, and its correction leads from the
\* shorter reading.
LEMMA BackspaceFine ==
    ASSUME EngineInv, Backspace
    PROVE  Fine
  <1> DEFINE atEnd == [Keyed EXCEPT !.cursor = Len(session.reading)]
             deleted == DeleteBackward(atEnd, 1)
             shorter == [deleted EXCEPT !.segment = FALSE, !.backspaced = TRUE]
             again == [ClearPresentation(shorter) EXCEPT !.mode = "Composing"]
  <1>1. session \in Sessions /\ session.reading # << >> /\ session.reading \in Texts
    BY DEF EngineInv, Good, Presented, Sessions, Backspace
  <1>2. Len(session.reading) \in Nat /\ 1 <= Len(session.reading)
    BY <1>1, TextLen DEF Texts
  <1>3. Excused("Backspace")
    BY DEF Excused, Deletes
  <1>4. /\ atEnd \in Sessions /\ atEnd.reading = session.reading
        /\ atEnd.cursor = Len(session.reading) /\ atEnd.typos = << >>
    BY <1>2, KeyedFacts DEF EngineInv, Sessions
  <1> HIDE DEF atEnd
  <1>5. /\ deleted \in Sessions /\ SameButText(deleted, atEnd)
        /\ Len(deleted.reading) = Len(session.reading) - 1
        /\ deleted.cursor = Len(session.reading) - 1
    <2>1. atEnd.cursor <= Len(atEnd.reading) /\ 1 <= atEnd.cursor
      BY <1>2, <1>4
    <2>2. /\ deleted \in Sessions /\ SameButText(deleted, atEnd)
          /\ Len(deleted.reading) = Len(atEnd.reading) - 1
          /\ deleted.cursor = atEnd.cursor - 1
      BY <1>4, <2>1, DeleteFacts
    <2> QED  BY <1>4, <2>2
  <1> HIDE DEF deleted
  <1>6. /\ shorter \in Sessions /\ shorter.typos = << >> /\ ~shorter.segment /\ shorter.backspaced
        /\ shorter.reading = deleted.reading /\ shorter.cursor = Len(shorter.reading)
    BY <1>4, <1>5 DEF Sessions, SameButText
  <1>7. CASE Cancelled("Backspace", session)
    BY <1>1, <1>3, <1>7, ResetFacts, AnswerFine DEF Cancelled
  <1>8. ASSUME shorter.reading # << >>,
               NEW target \in IF again.correction # << >> THEN {again.correction}
                              ELSE Option(Corrections),
               Regenerate("Backspace",
                   {Corrected([s EXCEPT !.liveCandidate = << >>], target) : s \in Requested(again)},
                   << >>, << >>)
        PROVE  Fine
    <2> HIDE DEF shorter
    <2>1. /\ ClearPresentation(shorter) \in Sessions
          /\ SameComposition(ClearPresentation(shorter), shorter)
      BY <1>6, ClearFacts
    <2>2. /\ again \in Sessions /\ again.mode = "Composing" /\ again.typos = << >>
          /\ again.reading = shorter.reading /\ again.cursor = shorter.cursor
          /\ ~again.segment /\ again.backspaced
      BY <1>6, <2>1 DEF Sessions, Modes, SameComposition
    <2> HIDE DEF again
    <2>3. Ready(again)
      <3>1. Len(shorter.reading) \in Nat /\ DOMAIN << >> = {}
        BY <1>6, TextLen DEF Sessions, Texts
      <3> QED  BY <1>6, <1>8, <2>2, <3>1 DEF Ready, CursorFits, TyposFit, AtEnd
    <2>4. target \in Option(Texts \ {<< >>}) /\ (again.correction # << >> => target = again.correction)
      <3>1. again.correction \in Option(Texts \ {<< >>})
        BY <2>2 DEF Sessions
      <3>2. Corrections \subseteq Texts \ {<< >>}
        <4>1. Letters \subseteq Nat /\ Corrections \subseteq Seq(Letters) \ {<< >>}
          BY EngineAssumption
        <4>2. Seq(Letters) \subseteq Seq(Nat)
          BY <4>1, SeqMonotonic
        <4> QED  BY <4>1, <4>2 DEF Texts
      <3>3. Option(Corrections) \subseteq Option(Texts \ {<< >>})
        BY <3>2 DEF Option
      <3> QED  BY <3>1, <3>3
    <2>5. \A s \in Requested(again) : Good(Corrected([s EXCEPT !.liveCandidate = << >>], target))
      BY <2>2, <2>3, <2>4, CorrectedGood
    <2> DEFINE results == {Corrected([s EXCEPT !.liveCandidate = << >>], target) : s \in Requested(again)}
    <2>6. Regenerate("Backspace", results, << >>, << >>) /\ \A r \in results : Good(r)
      BY <1>8, <2>5
    <2> HIDE DEF results
    <2> QED  BY <1>3, <2>6, RegenerateFine
  <1> QED  BY <1>7, <1>8 DEF Backspace, atEnd, deleted

\* A blank outside input, a blank in the reading, or a step towards the window.
LEMMA SpaceFine ==
    ASSUME EngineInv, Space
    PROVE  Fine
  <1>1. session \in Sessions /\ Good(session) /\ Good(Keyed) /\ Keyed \in Sessions
        /\ Keyed.reading = session.reading /\ Keyed.cursor = session.cursor
        /\ Keyed.segment = session.segment /\ Keyed.backspaced = session.backspaced
        /\ Keyed.typos = << >> /\ Keyed.mode = session.mode
    BY KeyedFacts DEF EngineInv, Good, Presented
  <1>2. <<SpaceBar>> \in Texts /\ Len(<<SpaceBar>>) = 1
    BY EngineAssumption DEF Texts
  <1>3. Composes(session) => session.reading # << >>
    BY <1>1 DEF Good, ModeFits
  <1>4. CASE Answer("Space", Keyed, TRUE, <<SpaceBar>>, <<SpaceBar>>, FALSE)
    <2>1. Spells(<<SpaceBar>>, Keyed.reading, <<SpaceBar>>)
      BY <1>1, <1>2, SpellsTyped
    <2> QED  BY <1>1, <1>4, <2>1, AnswerFine
  <1> DEFINE i == Insert(Keyed, <<SpaceBar>>)
             plain == [i EXCEPT !.segment = FALSE, !.backspaced = FALSE, !.correction = << >>]
             blank == ClearPresentation(plain)
  <1>5. CASE session.mode = "Composing" /\ Answer("Space", blank, TRUE, <<SpaceBar>>, << >>, FALSE)
    <2>1. session.cursor \in Nat /\ session.cursor <= Len(session.reading) /\ session.reading \in Texts
          /\ Len(session.reading) \in Nat
      BY <1>1, TextLen DEF Good, Presented, CursorFits, Sessions, Texts
    <2>2. /\ i \in Sessions /\ SameButText(i, Keyed)
          /\ i.reading = Prefix(Keyed.reading, Keyed.cursor) \o <<SpaceBar>> \o Suffix(Keyed.reading, Keyed.cursor)
          /\ Len(i.reading) = Len(Keyed.reading) + Len(<<SpaceBar>>)
          /\ i.cursor = Keyed.cursor + Len(<<SpaceBar>>)
      BY <1>1, <1>2, <2>1, InsertFacts
    <2> HIDE DEF i
    <2>3. /\ plain \in Sessions /\ plain.reading = i.reading /\ plain.cursor = i.cursor
          /\ plain.typos = << >> /\ ~plain.segment /\ ~plain.backspaced /\ plain.mode = "Composing"
      <3>1. << >> \in Option(Texts \ {<< >>})
        BY OptionNone
      <3> QED  BY <1>1, <1>5, <2>2, <3>1 DEF Sessions, SameButText
    <2> HIDE DEF plain
    <2>4. /\ blank \in Sessions /\ SameComposition(blank, plain)
          /\ blank.display = << >> /\ blank.remainders = << >> /\ blank.additional = 0
          /\ blank.prediction = << >> /\ blank.liveCandidate = << >>
      BY <2>3, ClearFacts
    <2> HIDE DEF blank
    <2>5. /\ blank.reading = Prefix(session.reading, session.cursor) \o <<SpaceBar>>
                               \o Suffix(session.reading, session.cursor)
          /\ Len(blank.reading) = Len(session.reading) + 1
          /\ blank.cursor = session.cursor + 1
          /\ blank.typos = << >> /\ ~blank.segment /\ ~blank.backspaced /\ blank.mode = "Composing"
          /\ blank.reading \in Texts
      BY ZenonT(30), <1>1, <1>2, <2>2, <2>3, <2>4 DEF SameComposition, Sessions
    <2>6. blank.reading # << >>
      BY <2>1, <2>5, TextLen DEF Texts
    <2>7. CursorFits(blank) /\ TyposFit(blank) /\ ModeFits(blank)
      <3>1. DOMAIN << >> = {}
        OBVIOUS
      <3> QED  BY <2>1, <2>5, <2>6, <3>1 DEF CursorFits, TyposFit, ModeFits, Composes
    <2>8. Good(blank)
      BY <2>4, <2>5, <2>7, NothingPresented
    <2>9. Spells(<< >>, blank.reading, <<SpaceBar>>)
      <3>1. << >> \o blank.reading = blank.reading
        BY <2>5, JoinFacts
      <3>2. session.cursor \in 0..Len(session.reading)
        BY <2>1
      <3> QED  BY <2>5, <3>1, <3>2 DEF Spells
    <2> QED  BY <1>5, <2>8, <2>9, AnswerFine
  <1>6. ASSUME NEW mode \in {"Previewing", "Selecting"}, session.mode = "Composing"
        PROVE  LET t == [Keyed EXCEPT !.backspaced = FALSE, !.mode = mode]
               IN  Ready(t) /\ t \in Sessions /\ t.mode = mode /\ t.reading = session.reading
    <2> DEFINE t == [Keyed EXCEPT !.backspaced = FALSE, !.mode = mode]
    <2>1. /\ t \in Sessions /\ t.mode = mode /\ t.reading = session.reading
          /\ t.cursor = session.cursor /\ t.segment = session.segment
          /\ ~t.backspaced /\ t.typos = << >>
      BY <1>1 DEF Sessions, Modes
    <2> HIDE DEF t
    <2>2. session.reading # << >>
      BY <1>3, <1>6 DEF Composes
    <2>3. Ready(t)
      BY <2>1, <2>2, KeyedReady
    <2> QED  BY <2>1, <2>3 DEF t
  <1>7. CASE /\ session.mode = "Composing"
             /\ Regenerate("Space",
                  {[s EXCEPT !.selected = 0] :
                     s \in Requested([Keyed EXCEPT !.backspaced = FALSE, !.mode = "Selecting"])},
                  << >>, << >>)
    <2> DEFINE t == [Keyed EXCEPT !.backspaced = FALSE, !.mode = "Selecting"]
               results == {[s EXCEPT !.selected = 0] : s \in Requested(t)}
    <2>1. Ready(t) /\ t.mode = "Selecting" /\ t.reading = session.reading
      BY <1>6, <1>7
    <2>2. Regenerate("Space", results, << >>, << >>)
      BY <1>7
    <2> HIDE DEF t
    <2>3. ASSUME NEW r \in results
          PROVE  Good(r) /\ r.reading = session.reading
      <3>1. PICK s \in Requested(t) : r = [s EXCEPT !.selected = 0]
        BY <2>3
      <3>2. s \in Sessions /\ s.mode = "Selecting"
        BY <2>1, RequestedFacts DEF Presented, SameComposition
      <3>3. r \in Sessions /\ Shows(r, s) /\ r.mode = "Selecting" /\ r.selected = 0
        BY <3>1, <3>2 DEF Sessions, Shows
      <3> QED  BY <2>1, <3>3, RequestedThen DEF Composes
    <2> HIDE DEF results
    <2> QED  BY <2>2, <2>3, RegenerateSame
  <1>8. CASE /\ session.mode = "Composing"
             /\ Regenerate("Space",
                  {[s EXCEPT !.selected = IF s.preview = << >> THEN 0 ELSE s.preview[1]] :
                     s \in Requested([Keyed EXCEPT !.backspaced = FALSE, !.mode = "Previewing"])},
                  << >>, << >>)
    <2> DEFINE t == [Keyed EXCEPT !.backspaced = FALSE, !.mode = "Previewing"]
               First(s) == IF s.preview = << >> THEN 0 ELSE s.preview[1]
               results == {[s EXCEPT !.selected = First(s)] : s \in Requested(t)}
    <2>1. Ready(t) /\ t.mode = "Previewing" /\ t.reading = session.reading
      BY <1>6, <1>8
    <2>2. Regenerate("Space", results, << >>, << >>)
      BY <1>8
    <2> HIDE DEF t
    <2>3. ASSUME NEW s \in Requested(t)
          PROVE  First(s) \in Nat
      <3>1. s.preview \in Option(Nat)
        BY <2>1, RequestedFacts DEF Presented, Sessions
      <3>2. s.preview # << >> => s.preview[1] \in Nat
        BY <3>1, OptionFacts
      <3> QED  BY <3>2
    <2> HIDE DEF First
    <2>4. ASSUME NEW r \in results
          PROVE  Good(r) /\ r.reading = session.reading
      <3>1. PICK s \in Requested(t) : r = [s EXCEPT !.selected = First(s)]
        BY <2>4
      <3>2. s \in Sessions /\ s.mode = "Previewing" /\ First(s) \in Nat
        BY <2>1, <2>3, RequestedFacts DEF Presented, SameComposition
      <3>3. r \in Sessions /\ Shows(r, s) /\ r.mode = "Previewing"
        BY <3>1, <3>2 DEF Sessions, Shows
      <3> QED  BY <2>1, <3>3, RequestedThen DEF Composes
    <2> HIDE DEF results
    <2> QED  BY <2>2, <2>4, RegenerateSame
  <1>9. CASE /\ session.mode = "Previewing"
              /\ Regenerate("Space",
                   {[s EXCEPT !.mode = "Selecting", !.selected = 0] : s \in Requested(Keyed)},
                   << >>, << >>)
    <2> DEFINE results == {[s EXCEPT !.mode = "Selecting", !.selected = 0] : s \in Requested(Keyed)}
    <2>1. Ready(Keyed)
      BY <1>1, <1>3, <1>9, KeyedReady DEF Composes
    <2>2. ASSUME NEW w \in results
          PROVE  Good(w) /\ w.reading = session.reading
      <3>1. PICK s \in Requested(Keyed) : w = [s EXCEPT !.mode = "Selecting", !.selected = 0]
        BY <2>2
      <3>2. s \in Sessions
        BY <2>1, RequestedFacts DEF Presented
      <3>3. w \in Sessions /\ Shows(w, s) /\ w.mode = "Selecting" /\ w.selected = 0
        BY <3>1, <3>2 DEF Sessions, Shows, Modes
      <3> QED  BY <1>1, <2>1, <3>3, RequestedThen DEF Composes
    <2>3. Regenerate("Space", results, << >>, << >>)
      BY <1>9
    <2> HIDE DEF results
    <2> QED  BY <2>2, <2>3, RegenerateSame
  <1> QED  BY <1>4, <1>5, <1>7, <1>8, <1>9 DEF Space

\* Moving along the candidate window stays inside it.
LEMMA AdvanceFine ==
    ASSUME EngineInv, Advance \/ ShiftSpace
    PROVE  Fine
  <1>1. /\ session.mode = "Selecting" /\ session.selected \in Nat
        /\ session.display \in Seq(Candidates) /\ session.selected < Len(session.display)
        /\ Keyed.selected = session.selected /\ Keyed.display = session.display
    BY KeyedFacts DEF EngineInv, Good, Presented, Sessions, SelectionFits, Advance, ShiftSpace
  <1>2. Len(session.display) \in Nat /\ session.display # << >>
    BY <1>1, TextLen
  <1>3. ASSUME NEW n \in Nat, n < Len(session.display), NEW s, s = [Keyed EXCEPT !.selected = n]
        PROVE  Good(s) /\ s.reading = session.reading
    <2>1. s \in Sessions /\ Shows(s, session) /\ s.mode = "Selecting" /\ s.selected = n
          /\ s.reading = session.reading
      BY <1>1, <1>3, KeyedFacts DEF EngineInv, Sessions, Shows
    <2>2. Good(s)
      BY <1>1, <1>3, <2>1, StillGood DEF EngineInv, Composes, SelectionFits, Shows
    <2> QED  BY <2>1, <2>2
  <1>4. CASE Advance
    <2> DEFINE n == IF session.selected + 1 < Len(session.display) THEN session.selected + 1
                    ELSE Len(session.display) - 1
               s == [Keyed EXCEPT !.selected = n]
    <2>1. Consumed("Advance", s)
      BY <1>1, <1>2, <1>4 DEF Advance
    <2>2. n \in Nat /\ n < Len(session.display)
      BY <1>1, <1>2
    <2> HIDE DEF n
    <2>3. Good(s) /\ s.reading = session.reading
      BY <1>3, <2>2
    <2> HIDE DEF s
    <2> QED  BY <2>1, <2>3, ConsumedFine
  <1>5. CASE ShiftSpace
    <2> DEFINE n == IF session.selected = 0 THEN 0 ELSE session.selected - 1
               s == [Keyed EXCEPT !.selected = n]
    <2>1. Consumed("ShiftSpace", s)
      BY <1>1, <1>2, <1>5 DEF ShiftSpace, Retreat
    <2>2. n \in Nat /\ n < Len(session.display)
      BY <1>1, <1>2
    <2> HIDE DEF n
    <2>3. Good(s) /\ s.reading = session.reading
      BY <1>3, <2>2
    <2> HIDE DEF s
    <2> QED  BY <2>1, <2>3, ConsumedFine
  <1> QED  BY <1>4, <1>5

\* Down opens the window.
LEMMA DownFine ==
    ASSUME EngineInv, Down
    PROVE  Fine
  <1> DEFINE t == [Keyed EXCEPT !.backspaced = FALSE]
             results == {[s EXCEPT !.mode = "Selecting", !.selected = 0] : s \in Requested(t)}
  <1>1. Regenerate("Down", results, << >>, << >>) /\ session.reading # << >>
    BY DEF Down, EngineInv, Good, ModeFits, Composes
  <1>2. /\ t \in Sessions /\ t.reading = session.reading
        /\ t.cursor = session.cursor /\ t.segment = session.segment
        /\ ~t.backspaced /\ t.typos = << >>
    BY KeyedFacts DEF EngineInv, Sessions
  <1> HIDE DEF t
  <1>3. Ready(t)
    BY <1>1, <1>2, KeyedReady
  <1>4. ASSUME NEW w \in results
        PROVE  Good(w) /\ w.reading = session.reading
    <2>1. PICK s \in Requested(t) : w = [s EXCEPT !.mode = "Selecting", !.selected = 0]
      BY <1>4
    <2>2. s \in Sessions
      BY <1>3, RequestedFacts DEF Presented
    <2>3. w \in Sessions /\ Shows(w, s) /\ w.mode = "Selecting" /\ w.selected = 0
      BY <2>1, <2>2 DEF Sessions, Shows, Modes
    <2> QED  BY ZenonT(30), <1>2, <1>3, <2>3, RequestedThen DEF Composes
  <1> HIDE DEF results
  <1> QED  BY <1>1, <1>4, RegenerateSame

\* reveal_additional_candidate slices the list where the notations end, and puts
\* one more in front.
LEMMA RevealGood ==
    ASSUME NEW t, Good(t), t.mode = "Selecting", t.additional < Forms
    PROVE  Good(Reveal(t)) /\ Reveal(t).reading = t.reading
  <1> DEFINE base == Suffix(t.display, t.additional)
             form == base[1]
             count == t.additional + 1
             copies == [i \in 1..count |-> form]
             shown == copies \o base
             rest == Remainders(t.reading, shown)
  <1>1. /\ t \in Sessions /\ t.display \in Seq(Candidates) /\ t.additional \in Nat
        /\ t.reading \in Texts /\ t.selected \in Nat /\ t.selected < Len(t.display)
        /\ \A i \in DOMAIN t.display : MadeFor(t.display[i], t.reading)
        /\ t.additional > 0 => t.additional < Len(t.display)
    BY DEF Good, Presented, Sessions, SelectionFits, ListFits, NotationsFit
  <1>2. Len(t.display) \in Nat /\ DOMAIN t.display = 1..Len(t.display)
    BY <1>1, TextLen
  <1>3. t.additional < Len(t.display) /\ t.additional <= Len(t.display)
    BY <1>1, <1>2
  <1>4. /\ base \in Seq(Candidates) /\ Len(base) = Len(t.display) - t.additional
        /\ \A i \in 1..Len(t.display) - t.additional : base[i] = t.display[t.additional + i]
    BY <1>1, <1>3, SuffixFacts
  <1>5. ListFor(base, t.reading)
    <2>1. \A i \in 1..Len(t.display) - t.additional : t.additional + i \in 1..Len(t.display)
      BY <1>1, <1>2
    <2> HIDE DEF base
    <2> QED  BY <1>1, <1>2, <1>4, <2>1 DEF ListFor
  <1> HIDE DEF base
  <1>6. Len(base) \in Nat /\ Len(base) > 0 /\ base # << >>
    BY <1>1, <1>2, <1>3, <1>4, TextLen
  <1>7. form \in Candidates /\ MadeFor(form, t.reading)
    <2>1. 1 \in 1..Len(base)
      BY <1>6
    <2> QED  BY <1>4, <1>5, <2>1, ElementOfSeq DEF ListFor
  <1>8. Reveal(t) = [t EXCEPT !.display = shown, !.remainders = rest,
                              !.additional = count, !.selected = 0]
    <2>1. count = IF t.additional + 1 < Forms THEN t.additional + 1 ELSE Forms
      BY <1>1, EngineAssumption
    <2>2. form = IF base = << >> THEN CandidateFor(t.reading, Len(t.reading)) ELSE base[1]
      BY <1>6
    <2> HIDE DEF count
    <2> QED  BY <2>1, <2>2 DEF Reveal, base
  <1> HIDE DEF form
  <1>9. /\ copies \in Seq(Candidates) /\ Len(copies) = count /\ count \in Nat
        /\ \A i \in 1..count : copies[i] = form
    BY <1>1, <1>7
  <1>10. ListFor(copies, t.reading)
    <2> HIDE DEF copies, count
    <2> QED  BY <1>7, <1>9 DEF ListFor
  <1>11. /\ ListFor(shown, t.reading)
         /\ Len(shown) = count + Len(base)
    <2> HIDE DEF copies, count
    <2> QED  BY <1>5, <1>9, <1>10, ListForJoin
  <1>12. /\ shown \in Seq(Candidates) /\ DOMAIN shown = 1..Len(shown) /\ Len(shown) \in Nat
         /\ \A i \in DOMAIN shown : MadeFor(shown[i], t.reading)
    <2> HIDE DEF shown
    <2> QED  BY <1>11, TextLen DEF ListFor
  <1>13. rest \in Seq(Texts)
    <2> HIDE DEF shown
    <2> QED  BY <1>1, <1>11, RemaindersFacts
  <1>14. \A i \in 1..count + 1 : shown[i] = form
    <2>1. \A i \in 1..Len(copies) + Len(base) :
             shown[i] = IF i <= Len(copies) THEN copies[i] ELSE base[i - Len(copies)]
      <3> HIDE DEF copies
      <3> QED  BY <1>4, <1>9, ConcatProperties
    <2> HIDE DEF copies, shown, count
    <2> TAKE i \in 1..count + 1
    <2>2. CASE i <= count
      BY <1>6, <1>9, <2>1, <2>2
    <2>3. CASE i = count + 1
      <3>1. i - Len(copies) = 1 /\ ~ i <= Len(copies) /\ i \in 1..Len(copies) + Len(base)
        BY <1>6, <1>9, <2>3
      <3> QED  BY <2>1, <3>1 DEF form
    <2>4. i <= count \/ i = count + 1
      BY <1>9
    <2> QED  BY <2>2, <2>3, <2>4
  <1> DEFINE s == Reveal(t)
  <1> HIDE DEF shown, rest, count
  <1>15. /\ s \in Sessions /\ s.display = shown /\ s.remainders = rest
         /\ s.additional = count /\ s.selected = 0 /\ s.mode = "Selecting"
         /\ s.reading = t.reading /\ s.cursor = t.cursor /\ s.segment = t.segment
         /\ s.backspaced = t.backspaced /\ s.prediction = t.prediction
         /\ s.correction = t.correction /\ s.liveCandidate = t.liveCandidate
         /\ s.typos = t.typos
    <2>1. t \in Sessions /\ shown \in Seq(Candidates) /\ rest \in Seq(Texts) /\ count \in Nat
      BY <1>1, <1>9, <1>12, <1>13
    <2>2. s = [t EXCEPT !.display = shown, !.remainders = rest, !.additional = count, !.selected = 0]
      BY <1>8
    <2> HIDE DEF s
    <2> QED  BY <2>1, <2>2 DEF Sessions
  <1> HIDE DEF s
  <1>16. CursorFits(s) /\ TyposFit(s) /\ PredictionFits(s)
    BY <1>15 DEF Good, Presented, CursorFits, AtEnd, TyposFit, PredictionFits, Leads
  <1>17. ModeFits(s) /\ SelectionFits(s)
    <2>1. 0 < Len(shown)
      BY <1>6, <1>9, <1>11
    <2>2. ModeFits(s)
      BY <1>15 DEF Good, ModeFits, Composes
    <2> QED  BY <1>15, <2>1, <2>2 DEF SelectionFits
  <1>18. ListFits(s)
    <2>1. s.reading # << >>
      BY <1>15 DEF Good, ModeFits, Composes
    <2> QED  BY <1>12, <1>15, <2>1 DEF Good, Presented, ListFits, rest
  <1>19. NotationsFit(s)
    <2>1. count < Len(shown)
      BY <1>6, <1>9, <1>11
    <2>2. \A i \in 1..count : shown[i] = shown[count + 1]
      BY <1>9, <1>14
    <2> QED  BY <1>15, <2>1, <2>2 DEF NotationsFit
  <1> QED  BY <1>15, <1>16, <1>17, <1>18, <1>19 DEF Good, Presented, s

\* Up reveals another notation on the first row, and moves up below it.
LEMMA UpFine ==
    ASSUME EngineInv, Up
    PROVE  Fine
  <1>1. /\ Good(Keyed) /\ Keyed.mode = session.mode /\ Keyed.reading = session.reading
        /\ Keyed.additional = session.additional /\ Keyed.selected = session.selected
    BY KeyedFacts DEF EngineInv
  <1>2. CASE session.mode = "Selecting" /\ session.additional < Forms /\ Consumed("Up", Reveal(Keyed))
    BY <1>1, <1>2, RevealGood, ConsumedFine
  <1>3. CASE session.mode = "Selecting" /\ Consumed("Up", Retreat(Keyed))
    <2> DEFINE n == IF session.selected = 0 THEN 0 ELSE session.selected - 1
               s == [Keyed EXCEPT !.selected = n]
    <2>1. Consumed("Up", s)
      BY <1>1, <1>3 DEF Retreat
    <2>2. /\ session.selected \in Nat /\ session.selected < Len(session.display)
          /\ Len(session.display) \in Nat
      BY <1>3, TextLen DEF EngineInv, Good, Presented, Sessions, SelectionFits
    <2>3. n \in Nat /\ n < Len(session.display)
      BY <2>2
    <2> HIDE DEF n
    <2>4. s \in Sessions /\ Shows(s, session) /\ s.mode = "Selecting" /\ s.selected = n
          /\ s.reading = session.reading
      BY <1>3, <2>3, KeyedFacts DEF EngineInv, Sessions, Shows
    <2> HIDE DEF s
    <2>5. Good(s)
      BY <1>3, <2>3, <2>4, StillGood DEF EngineInv, Composes, SelectionFits, Shows
    <2> QED  BY <2>1, <2>4, <2>5, ConsumedFine
  <1>4. CASE Consumed("Up", Keyed) \/ Ignored("Up", Keyed)
    BY <1>1, <1>4, ConsumedFine
  <1> QED  BY <1>2, <1>3, <1>4 DEF Up

\* A resized segment ends inside the reading and is not empty.
LEMMA ResizeFine ==
    ASSUME EngineInv, NEW right \in BOOLEAN, Resize(right)
    PROVE  Fine
  <1> DEFINE total == Len(session.reading)
             from == IF session.mode = "Selecting" /\ session.selected < Len(session.remainders)
                     THEN Selected(session).count ELSE session.cursor
             to == IF right THEN (IF from >= total THEN 1 ELSE from + 1)
                            ELSE (IF from <= 1 THEN 1 ELSE from - 1)
             cleared == ClearPresentation(Keyed)
             t == [cleared EXCEPT !.cursor = to, !.segment = TRUE,
                                  !.backspaced = FALSE, !.mode = "Selecting"]
             results == {[s EXCEPT !.liveCandidate = << >>] : s \in Requested(t)}
  <1>1. Composes(session) /\ Regenerate("Resize", results, << >>, << >>)
    BY DEF Resize
  <1>2. /\ session.reading \in Texts /\ session.reading # << >> /\ session.cursor \in Nat
        /\ session.cursor <= Len(session.reading)
    BY <1>1 DEF EngineInv, Good, Presented, Sessions, ModeFits, CursorFits
  <1>3. total \in Nat /\ total > 0
    BY <1>2, TextLen DEF Texts
  <1>4. from \in Nat /\ from <= total
    <2>1. CASE session.mode = "Selecting" /\ session.selected < Len(session.remainders)
      <3> DEFINE i == session.selected + 1
      <3>1. /\ session.display \in Seq(Candidates) /\ session.selected \in Nat
            /\ session.selected < Len(session.display)
            /\ \A j \in DOMAIN session.display : MadeFor(session.display[j], session.reading)
        BY <2>1 DEF EngineInv, Good, Presented, Sessions, ListFits, SelectionFits
      <3>2. i \in DOMAIN session.display /\ i \in 1..Len(session.display)
        BY <3>1, TextLen
      <3>3. Selected(session) \in Candidates
        BY <3>1, <3>2, ElementOfSeq DEF Selected
      <3>4. MadeFor(Selected(session), session.reading)
        BY <3>1, <3>2 DEF Selected
      <3>5. Selected(session).count \in Nat /\ Selected(session).count <= Len(session.reading)
        BY <3>3, <3>4 DEF MadeFor, Candidates
      <3> QED  BY <2>1, <3>5
    <2>2. CASE ~(session.mode = "Selecting" /\ session.selected < Len(session.remainders))
      BY <1>2, <2>2
    <2> QED  BY <2>1, <2>2
  <1> HIDE DEF from
  <1>5. to \in Nat /\ to > 0 /\ to <= Len(session.reading)
    BY <1>3, <1>4
  <1> HIDE DEF to
  <1>6. /\ cleared \in Sessions /\ SameComposition(cleared, Keyed) /\ cleared.selected = 0
    BY KeyedFacts, ClearFacts DEF EngineInv
  <1>7. cleared.reading = session.reading /\ cleared.typos = << >>
    BY <1>6, KeyedFacts DEF EngineInv, SameComposition
  <1> HIDE DEF cleared
  <1>8. /\ t \in Sessions /\ t.cursor = to /\ t.segment /\ ~t.backspaced /\ t.mode = "Selecting"
        /\ t.reading = session.reading /\ t.typos = << >> /\ t.selected = 0
    BY <1>5, <1>6, <1>7 DEF Sessions, Modes
  <1> HIDE DEF t
  <1>9. Ready(t)
    <2>1. DOMAIN << >> = {}
      OBVIOUS
    <2> QED  BY <1>2, <1>5, <1>8, <2>1 DEF Ready, CursorFits, TyposFit
  <1>10. ASSUME NEW w \in results
         PROVE  Good(w) /\ w.reading = session.reading
    <2>1. PICK s \in Requested(t) : w = [s EXCEPT !.liveCandidate = << >>]
      BY <1>10
    <2>2. s \in Sessions /\ s.mode = "Selecting" /\ s.selected = 0
      BY <1>8, <1>9, RequestedFacts DEF Presented, SameComposition
    <2>3. w \in Sessions /\ Shows(w, s) /\ w.mode = "Selecting" /\ w.selected = 0
      BY <2>1, <2>2, OptionNone DEF Sessions, Shows
    <2> QED  BY <1>8, <1>9, <2>3, RequestedThen DEF Composes
  <1> HIDE DEF results
  <1> QED  BY <1>1, <1>10, RegenerateSame

\* Right in the candidate window commits the selected row and goes on with the rest.
LEMMA RightFine ==
    ASSUME EngineInv, Right
    PROVE  Fine
  BY KeyedSelects, SelectFine DEF Right

\* A notation of the selected candidate, or of the whole reading, is committed.
LEMMA TransformFine ==
    ASSUME EngineInv, Transform
    PROVE  Fine
  <1> DEFINE c == IF session.mode = "Selecting" /\ session.selected < Len(session.display)
                  THEN Selected(session) ELSE CandidateFor(session.reading, Len(session.reading))
  <1>1. CommitCandidate("Transform", Keyed, c, "Selecting")
    BY DEF Transform
  <1>2. /\ session.display \in Seq(Candidates) /\ session.selected \in Nat
        /\ session.reading \in Texts
        /\ \A j \in DOMAIN session.display : MadeFor(session.display[j], session.reading)
    BY DEF EngineInv, Good, Presented, Sessions, ListFits
  <1>3. c \in Candidates /\ MadeFor(c, session.reading)
    <2>1. CASE session.mode = "Selecting" /\ session.selected < Len(session.display)
      <3> DEFINE i == session.selected + 1
      <3>1. i \in DOMAIN session.display /\ i \in 1..Len(session.display)
        BY <1>2, <2>1, TextLen
      <3>2. Selected(session) \in Candidates /\ MadeFor(Selected(session), session.reading)
        BY <1>2, <3>1, ElementOfSeq DEF Selected
      <3> QED  BY <2>1, <3>2
    <2>2. CASE ~(session.mode = "Selecting" /\ session.selected < Len(session.display))
      <3>1. Len(session.reading) \in Nat
        BY <1>2, TextLen DEF Texts
      <3>2. /\ CandidateFor(session.reading, Len(session.reading)) \in Candidates
            /\ MadeFor(CandidateFor(session.reading, Len(session.reading)), session.reading)
        BY <1>2, <3>1, CandidateForFacts
      <3> QED  BY <2>2, <3>2
    <2> QED  BY <2>1, <2>2
  <1> HIDE DEF c
  <1> QED  BY <1>1, <1>3, KeyedSelects, CommitCandidateFine

\* A key the session does not handle leaves everything in place.
LEMMA OtherKeyFine ==
    ASSUME EngineInv, OtherKey
    PROVE  Fine
  BY KeyedFacts, ConsumedFine DEF OtherKey, EngineInv

\* Tab takes a completion, or an edit, which really leads to the correction.
LEMMA TabFine ==
    ASSUME EngineInv, Tab
    PROVE  Fine
  <1> DEFINE p == session.prediction[1]
             keyed == [Keyed EXCEPT !.backspaced = FALSE]
  <1>1. Composes(session) /\ session.reading # << >> /\ session \in Sessions
        /\ session.reading \in Texts /\ session.cursor \in Nat
        /\ session.cursor <= Len(session.reading)
    BY DEF Tab, EngineInv, Good, Presented, Sessions, ModeFits, CursorFits
  <1>2. Excused("Tab")
    BY DEF Excused, Deletes
  <1>3. CASE Consumed("Tab", Keyed)
    BY <1>3, KeyedFacts, ConsumedFine DEF EngineInv
  <1>4. /\ keyed \in Sessions /\ keyed.mode = session.mode /\ keyed.reading = session.reading
        /\ keyed.cursor = session.cursor /\ keyed.segment = session.segment
        /\ ~keyed.backspaced /\ keyed.typos = << >>
        /\ keyed.display = session.display /\ keyed.remainders = session.remainders
        /\ keyed.additional = session.additional /\ keyed.liveCandidate = session.liveCandidate
        /\ keyed.prediction = session.prediction /\ keyed.correction = session.correction
    BY KeyedFacts DEF EngineInv, Sessions
  <1> HIDE DEF keyed
  <1>5. ASSUME session.mode = "Composing", session.prediction # << >>
        PROVE  /\ session.prediction \in Option(Edits) /\ p \in Edits /\ Leads(p, session)
               /\ DOMAIN session.prediction = {1}
    BY <1>1, <1>5, OptionFacts DEF EngineInv, Good, Presented, Sessions, PredictionFits
  <1>6. Len(session.reading) \in Nat
    BY <1>1, TextLen DEF Texts
  <1>7. ASSUME session.mode = "Composing", session.prediction # << >>, p.candidate # << >>,
               IsStrictPrefix(session.reading, p.candidate[1]),
               Regenerate("Tab",
                  Requested(Insert(keyed, Suffix(p.candidate[1], Len(session.reading)))),
                  << >>, << >>)
        PROVE  Fine
    <2> DEFINE more == Suffix(p.candidate[1], Len(session.reading))
               t == Insert(keyed, more)
    <2>1. p.candidate[1] \in Texts
      BY <1>5, <1>7, OptionFacts DEF Edits
    <2>2. more \in Texts
      BY <1>6, <1>7, <2>1, SuffixFacts DEF Texts, IsStrictPrefix, IsPrefix
    <2>3. Regenerate("Tab", Requested(t), << >>, << >>)
      BY <1>7
    <2> HIDE DEF more
    <2>4. /\ t \in Sessions /\ SameButText(t, keyed)
          /\ Len(t.reading) = Len(keyed.reading) + Len(more)
          /\ t.cursor = keyed.cursor + Len(more)
      BY <1>1, <1>4, <2>2, InsertFacts
    <2> HIDE DEF t
    <2>5. Len(more) \in Nat
      BY <2>2, TextLen DEF Texts
    <2>6. t.reading # << >> /\ t.cursor <= Len(t.reading)
      <3>1. Len(session.reading) > 0 /\ t.reading \in Texts
        BY <1>1, <1>6, <2>4, TextLen DEF Texts, Sessions
      <3>2. Len(t.reading) # 0
        BY <1>4, <1>6, <2>4, <2>5, <3>1
      <3> QED  BY <1>1, <1>4, <1>6, <2>4, <2>5, <3>1, <3>2, TextLen DEF Texts
    <2>7. Ready(t) /\ Composes(t) /\ t.mode = "Composing"
      <3>1. session.segment => session.cursor > 0
        BY <1>1 DEF EngineInv, Good, Presented, CursorFits
      <3>2. t.segment => t.cursor > 0
        BY <1>1, <1>4, <2>4, <2>5, <3>1 DEF SameButText
      <3>3. t.mode = "Composing" /\ t.typos = << >> /\ ~t.backspaced /\ DOMAIN << >> = {}
        BY <1>4, <1>7, <2>4 DEF SameButText
      <3> QED  BY <2>4, <2>6, <3>2, <3>3 DEF Ready, CursorFits, TyposFit, Composes
    <2>8. \A s \in Requested(t) : Good(s)
      BY <2>7, RequestedGood
    <2> QED  BY <1>2, <2>3, <2>8, RegenerateFine
  <1>8. ASSUME session.mode = "Composing", session.prediction # << >>, p.candidate # << >>,
               Consumed("Tab", keyed)
        PROVE  Fine
    <2>1. CursorFits(keyed) /\ TyposFit(keyed) /\ NotationsFit(keyed)
      BY <1>4 DEF EngineInv, Good, Presented, CursorFits, TyposFit, NotationsFit
    <2>2. ListFits(keyed)
      BY <1>4 DEF EngineInv, Good, Presented, ListFits
    <2>3. PredictionFits(keyed)
      <3>1. \A i \in DOMAIN session.prediction : session.prediction[i].candidate # << >>
        BY <1>5, <1>8
      <3> QED  BY <1>4, <3>1 DEF PredictionFits, Leads
    <2>4. ModeFits(keyed) /\ SelectionFits(keyed)
      BY <1>1, <1>4, <1>8 DEF ModeFits, SelectionFits, Composes
    <2>5. Good(keyed)
      BY <1>4, <2>1, <2>2, <2>3, <2>4 DEF Good, Presented
    <2> QED  BY <1>4, <1>8, <2>5, ConsumedFine
  <1>9. ASSUME session.mode = "Composing", session.prediction # << >>, p.candidate = << >>,
               Regenerate("Tab",
                  Requested([Insert(DeleteBackward(keyed, p.delete), p.append)
                      EXCEPT !.correction = << >>, !.backspaced = p.append = << >>]),
                  << >>, << >>)
        PROVE  Fine
    <2> DEFINE r == session.reading
               d == DeleteBackward(keyed, p.delete)
               i == Insert(d, p.append)
               t == [i EXCEPT !.correction = << >>, !.backspaced = (p.append = << >>)]
    <2>1. /\ session.backspaced /\ session.correction # << >>
          /\ p.delete \in 0..Len(r) /\ p.append \in Texts
          /\ Prefix(r, Len(r) - p.delete) \o p.append = session.correction[1]
      BY <1>5, <1>9 DEF Leads, Edits
    <2>2. session.correction[1] \in Texts /\ session.correction[1] # << >>
      BY <1>1, <2>1, OptionFacts DEF Sessions
    <2>3. session.cursor = Len(r) /\ ~session.segment
      BY <2>1 DEF EngineInv, Good, Presented, CursorFits, AtEnd
    <2>4. Regenerate("Tab", Requested(t), << >>, << >>)
      BY <1>9
    <2> HIDE DEF p
    <2>5. /\ d \in Sessions /\ SameButText(d, keyed)
          /\ d.reading = Prefix(r, Len(r) - p.delete) \o Suffix(r, Len(r))
          /\ Len(d.reading) = Len(r) - p.delete
          /\ d.cursor = Len(r) - p.delete
      <3>1. keyed.cursor <= Len(keyed.reading) /\ p.delete \in Nat /\ p.delete <= keyed.cursor
        BY <1>4, <1>6, <2>1, <2>3
      <3>2. /\ d \in Sessions /\ SameButText(d, keyed)
            /\ d.reading = Prefix(keyed.reading, keyed.cursor - p.delete) \o Suffix(keyed.reading, keyed.cursor)
            /\ Len(d.reading) = Len(keyed.reading) - p.delete
            /\ d.cursor = keyed.cursor - p.delete
        BY <1>4, <3>1, DeleteFacts
      <3> QED  BY <1>4, <2>3, <3>2
    <2> HIDE DEF d
    <2>6. d.reading = Prefix(r, Len(r) - p.delete) /\ d.cursor = Len(d.reading) /\ d.reading \in Texts
      <3>1. Suffix(r, Len(r)) = << >>
        BY <1>1, SuffixEnds
      <3>2. Prefix(r, Len(r) - p.delete) \in Texts
        BY <1>1, <1>6, <2>1, PrefixFacts
      <3>3. Prefix(r, Len(r) - p.delete) \o << >> = Prefix(r, Len(r) - p.delete)
        BY <3>2, JoinFacts
      <3> QED  BY <2>5, <3>1, <3>2, <3>3
    <2>7. /\ i \in Sessions /\ SameButText(i, d)
          /\ i.reading = Prefix(d.reading, d.cursor) \o p.append \o Suffix(d.reading, d.cursor)
          /\ Len(i.reading) = Len(d.reading) + Len(p.append)
          /\ i.cursor = d.cursor + Len(p.append)
      <3>1. d.cursor <= Len(d.reading)
        BY <2>6, TextLen DEF Texts
      <3> QED  BY <2>1, <2>5, <3>1, InsertFacts
    <2> HIDE DEF i
    <2>8. i.reading = session.correction[1] /\ i.cursor = Len(i.reading)
      <3>1. Prefix(d.reading, d.cursor) = d.reading /\ Suffix(d.reading, d.cursor) = << >>
        BY <2>6, PrefixWhole, SuffixEnds
      <3>2. i.reading = session.correction[1] \o << >>
        BY <2>1, <2>6, <2>7, <3>1
      <3> QED  BY <2>2, <2>6, <2>7, <3>2, JoinFacts
    <2>9. /\ t \in Sessions /\ t.mode = "Composing" /\ t.reading = i.reading
          /\ t.cursor = i.cursor /\ ~t.segment /\ t.typos = << >>
      <3>1. << >> \in Option(Texts \ {<< >>})
        BY OptionNone
      <3>2. i.mode = "Composing" /\ ~i.segment /\ i.typos = << >>
        BY <1>4, <1>9, <2>3, <2>5, <2>7 DEF SameButText
      <3>3. (p.append = << >>) \in BOOLEAN
        OBVIOUS
      <3> QED  BY <2>7, <3>1, <3>2, <3>3 DEF Sessions
    <2> HIDE DEF t
    <2>10. Ready(t) /\ Composes(t)
      <3>1. Len(t.reading) \in Nat /\ DOMAIN << >> = {}
        BY <2>9, TextLen DEF Sessions, Texts
      <3> QED  BY <2>2, <2>8, <2>9, <3>1 DEF Ready, CursorFits, AtEnd, TyposFit, Composes
    <2>11. \A s \in Requested(t) : Good(s)
      BY <2>9, <2>10, RequestedGood
    <2> QED  BY <1>2, <2>4, <2>11, RegenerateFine
  <1> QED  BY <1>3, <1>7, <1>8, <1>9 DEF Tab, keyed

\* A row chosen by its number is refused when it is not shown, and committed as
\* the selected one is otherwise.
LEMMA SelectCandidateFine ==
    ASSUME EngineInv, NEW i \in Indexes, SelectCandidate(i)
    PROVE  Fine
  <1>1. i \in Nat
    BY EngineAssumption DEF Indexes
  <1> QED  BY <1>1, KeyedSelects, SelectFine DEF SelectCandidate

\* Typo corrections are kept for the reading they were asked for.
LEMMA RequestTypoCorrectionsFine ==
    ASSUME EngineInv, RequestTypoCorrections
    PROVE  Fine
  <1>1. ASSUME NEW found \in {<< >>, <<session.reading>>},
               Consumed("RequestTypoCorrections", [session EXCEPT !.typos = found])
        PROVE  Fine
    <2> DEFINE s == [session EXCEPT !.typos = found]
    <2>1. session \in Sessions /\ session.reading \in Texts
      BY DEF EngineInv, Good, Presented, Sessions
    <2>2. found \in Option(Texts) /\ \A i \in DOMAIN found : found[i] = session.reading
      <3>1. CASE found = << >>
        BY <3>1, OptionNone
      <3>2. CASE found = <<session.reading>>
        BY <2>1, <3>2, OptionSome
      <3> QED  BY <3>1, <3>2
    <2>3. /\ s \in Sessions /\ s.typos = found /\ s.mode = session.mode
          /\ s.reading = session.reading /\ s.cursor = session.cursor
          /\ s.segment = session.segment /\ s.backspaced = session.backspaced
          /\ s.display = session.display /\ s.remainders = session.remainders
          /\ s.selected = session.selected /\ s.additional = session.additional
          /\ s.prediction = session.prediction /\ s.correction = session.correction
          /\ s.liveCandidate = session.liveCandidate
      BY <2>1, <2>2 DEF Sessions
    <2>4. Consumed("RequestTypoCorrections", s)
      BY <1>1
    <2> HIDE DEF s
    <2>5. TyposFit(s)
      BY <2>2, <2>3 DEF TyposFit
    <2>6. CursorFits(s) /\ NotationsFit(s) /\ ModeFits(s) /\ SelectionFits(s)
      BY <2>3 DEF EngineInv, Good, Presented, CursorFits, AtEnd, NotationsFit, ModeFits,
                  SelectionFits, Composes
    <2>7. ListFits(s) /\ PredictionFits(s)
      BY ZenonT(30), <2>3 DEF EngineInv, Good, Presented, ListFits, PredictionFits, Leads
    <2>8. Good(s)
      BY <2>3, <2>5, <2>6, <2>7 DEF Good, Presented
    <2> QED  BY <2>3, <2>4, <2>8, ConsumedFine
  <1> QED  BY <1>1, RefuseFine DEF RequestTypoCorrections

\* A chosen correction is committed in place of the reading, which it was made for.
LEMMA SelectTypoCorrectionFine ==
    ASSUME EngineInv, NEW i \in Indexes, SelectTypoCorrection(i)
    PROVE  Fine
  <1>1. session \in Sessions
    BY DEF EngineInv, Good, Presented
  <1>2. Excused("SelectTypoCorrection")
    BY DEF Excused, Deletes
  <1> QED  BY <1>1, <1>2, ResetFacts, AnswerFine, RefuseFine DEF SelectTypoCorrection

\* Forgetting, one candidate or everything, shows the new list from its start.
LEMMA ForgottenReady ==
    ASSUME EngineInv, session.reading # << >>
    PROVE  LET t == [Keyed EXCEPT !.selected = 0, !.liveCandidate = << >>]
           IN  \A s \in Requested(t) : Good(s) /\ s.reading = session.reading
  <1> DEFINE t == [Keyed EXCEPT !.selected = 0, !.liveCandidate = << >>]
  <1>1. /\ t \in Sessions /\ t.reading = session.reading /\ t.cursor = session.cursor
        /\ t.segment = session.segment /\ t.backspaced = session.backspaced
        /\ t.typos = << >> /\ t.selected = 0 /\ t.mode = session.mode
    <2>1. << >> \in Option(Candidates)
      BY OptionNone
    <2> QED  BY <2>1, KeyedFacts DEF EngineInv, Sessions
  <1> HIDE DEF t
  <1>2. Ready(t)
    BY <1>1, KeyedReady
  <1>3. Composes(t)
    BY <1>1 DEF EngineInv, Good, ModeFits, Composes
  <1>4. \A s \in Requested(t) : Good(s) /\ s.reading = session.reading
    BY <1>1, <1>2, <1>3, RequestedGood
  <1> QED  BY <1>4 DEF t

\* Forgetting a candidate converts the reading again.
LEMMA ForgetCandidateFine ==
    ASSUME EngineInv, NEW i \in Indexes, ForgetCandidate(i)
    PROVE  Fine
  <1> DEFINE t == [Keyed EXCEPT !.selected = 0, !.liveCandidate = << >>]
  <1>1. CASE i < Len(session.display)
    <2>1. i \in Nat
      BY EngineAssumption DEF Indexes
    <2>2. session.reading # << >>
      <3>1. Len(<< >>) = 0
        OBVIOUS
      <3> QED  BY <1>1, <2>1, <3>1 DEF EngineInv, Good, Presented, ListFits
    <2>3. Regenerate("ForgetCandidate", Requested(t), << >>, << >>)
      BY <1>1 DEF ForgetCandidate
    <2>4. \A s \in Requested(t) : Good(s) /\ s.reading = session.reading
      BY <2>2, ForgottenReady
    <2> HIDE DEF t
    <2> QED  BY <2>3, <2>4, RegenerateSame
  <1>2. CASE ~(i < Len(session.display))
    BY <1>2, RefuseFine DEF ForgetCandidate
  <1> QED  BY <1>1, <1>2

\* Resetting the memory converts the reading again, if there is one.
LEMMA ResetLearningFine ==
    ASSUME EngineInv, ResetLearning
    PROVE  Fine
  <1> DEFINE t == [Keyed EXCEPT !.selected = 0, !.liveCandidate = << >>]
  <1>1. CASE session.reading # << >> /\ Regenerate("ResetLearning", Requested(t), << >>, << >>)
    <2>1. \A s \in Requested(t) : Good(s) /\ s.reading = session.reading
      BY <1>1, ForgottenReady
    <2> HIDE DEF t
    <2> QED  BY <1>1, <2>1, RegenerateSame
  <1>2. CASE session.reading = << >> /\ Consumed("ResetLearning", t)
    <2>1. t \in Sessions /\ Shows(t, session) /\ t.mode = session.mode /\ t.reading = session.reading
      <3>1. << >> \in Option(Candidates)
        BY OptionNone
      <3> QED  BY <3>1, KeyedFacts DEF EngineInv, Sessions, Shows
    <2>2. session.mode # "Selecting"
      BY <1>2 DEF EngineInv, Good, ModeFits, Composes
    <2> HIDE DEF t
    <2>3. Good(t)
      BY <2>1, <2>2, StillGood DEF EngineInv, Composes, SelectionFits
    <2> QED  BY <1>2, <2>1, <2>3, ConsumedFine
  <1> QED  BY <1>1, <1>2 DEF ResetLearning

\* A page further or back lands on a row that exists.
LEMMA PageCandidatesFine ==
    ASSUME EngineInv, NEW next \in BOOLEAN, PageCandidates(next)
    PROVE  Fine
  <1> DEFINE n == IF session.display = << >> THEN session.selected
                  ELSE IF next
                       THEN IF session.selected + PageSize < Len(session.display)
                            THEN session.selected + PageSize ELSE Len(session.display) - 1
                       ELSE IF session.selected > PageSize THEN session.selected - PageSize ELSE 0
             s == [session EXCEPT !.liveCandidate = << >>, !.selected = n]
  <1>1. session \in Sessions /\ session.selected \in Nat /\ session.display \in Seq(Candidates)
    BY DEF EngineInv, Good, Presented, Sessions
  <1>2. /\ Len(session.display) \in Nat /\ (session.display = << >> <=> Len(session.display) = 0)
        /\ PageSize \in Nat
    BY <1>1, TextLen, EngineAssumption
  <1>3. session.mode = "Selecting" => session.selected < Len(session.display)
    BY DEF EngineInv, Good, SelectionFits
  <1>4. n \in Nat /\ (session.mode = "Selecting" => n < Len(session.display))
    <2>1. CASE session.display = << >>
      BY <1>1, <1>2, <1>3, <2>1
    <2>2. CASE session.display # << >> /\ ~next
      BY <1>1, <1>2, <1>3, <2>2
    <2>3. CASE session.display # << >> /\ next
      BY <1>1, <1>2, <1>3, <2>3
    <2> QED  BY <2>1, <2>2, <2>3
  <1>5. CASE Consumed("PageCandidates", s)
    <2> HIDE DEF n
    <2>1. s \in Sessions /\ Shows(s, session) /\ s.mode = session.mode /\ s.selected = n
          /\ s.reading = session.reading
      <3>1. << >> \in Option(Candidates)
        BY OptionNone
      <3> QED  BY <1>1, <1>4, <3>1 DEF Sessions, Shows
    <2> HIDE DEF s
    <2>2. Good(s)
      BY <1>4, <2>1, StillGood DEF EngineInv, Composes, SelectionFits, Shows
    <2> QED  BY <1>5, <2>1, <2>2, ConsumedFine
  <1>6. CASE /\ reply' = [request |-> "PageCandidates", error |-> TRUE, consumed |-> FALSE,
                          typed |-> << >>, commit |-> << >>, reset |-> FALSE]
             /\ UNCHANGED <<live, session>>
    BY <1>6 DEF Fine, Lossless, EngineInv
  <1> QED  BY <1>5, <1>6 DEF PageCandidates

\* Committing the composition inserts what was marked, which spells the reading.
LEMMA CommitCompositionFine ==
    ASSUME EngineInv, CommitComposition
    PROVE  Fine
  <1>1. session \in Sessions /\ session.reading \in Texts
    BY DEF EngineInv, Good, Presented, Sessions
  <1>2. session.reading \o << >> = session.reading
    BY <1>1, JoinFacts
  <1>3. Good(Reset(session)) /\ Reset(session).reading = << >>
    BY <1>1, ResetFacts
  <1>4. Excused("CommitComposition") \/ Spells(MarkedText(session), Reset(session).reading, << >>)
    BY <1>2, <1>3, MarkedIsReading, SpellsCommitted DEF Excused
  <1> QED  BY <1>3, <1>4, AnswerFine DEF CommitComposition

\* A session that is reset or started anew holds nothing.
LEMMA RestartFine ==
    ASSUME EngineInv, ResetSession \/ StartSession
    PROVE  Fine
  <1>1. session \in Sessions
    BY DEF EngineInv, Good, Presented
  <1>2. Good(Reset(session)) /\ Good(NewSession)
    BY <1>1, ResetFacts
  <1>3. Excused("ResetSession") /\ Excused("StartSession")
    BY DEF Excused, Deletes
  <1> QED  BY <1>2, <1>3, AnswerFine DEF ResetSession, StartSession

----------------------------------------------------------------------------
(***************************************************************************)
(* The theorems.                                                           *)
(***************************************************************************)

\* Every request, on any good session, leaves a good session and loses nothing.
LEMMA NextFine ==
    ASSUME EngineInv, Next
    PROVE  Fine
  <1>1. ASSUME NEW c \in Letters, DirectInput(c) \/ Input(c) \/ Digit(c)
        PROVE  Fine
    BY <1>1, DirectInputFine, InputFine, DigitFine
  <1>2. CASE UnicodeKey
    BY <1>2, UnicodeKeyFine
  <1>3. CASE StartUnicodeInput
    BY <1>3, StartUnicodeInputFine
  <1>4. CASE Eisu \/ Kana
    BY <1>4, EisuKanaFine
  <1>5. CASE Escape
    BY <1>5, EscapeFine
  <1>6. CASE Enter
    BY <1>6, EnterFine
  <1>7. CASE Backspace
    BY <1>7, BackspaceFine
  <1>8. CASE Space
    BY <1>8, SpaceFine
  <1>9. CASE Advance \/ ShiftSpace
    BY <1>9, AdvanceFine
  <1>10. CASE Down
    BY <1>10, DownFine
  <1>11. CASE Up
    BY <1>11, UpFine
  <1>12. ASSUME NEW right \in BOOLEAN, Resize(right)
         PROVE  Fine
    BY <1>12, ResizeFine
  <1>13. CASE Right
    BY <1>13, RightFine
  <1>14. CASE Tab
    BY <1>14, TabFine
  <1>15. CASE Transform
    BY <1>15, TransformFine
  <1>16. CASE OtherKey
    BY <1>16, OtherKeyFine
  <1>17. CASE Key
    BY <1>1, <1>2, <1>3, <1>4, <1>5, <1>6, <1>7, <1>8, <1>9, <1>10, <1>11, <1>12, <1>13,
       <1>14, <1>15, <1>16, <1>17 DEF Key
  <1>18. ASSUME NEW i \in Indexes,
                SelectCandidate(i) \/ SelectTypoCorrection(i) \/ ForgetCandidate(i)
         PROVE  Fine
    BY <1>18, SelectCandidateFine, SelectTypoCorrectionFine, ForgetCandidateFine
  <1>19. CASE RequestTypoCorrections
    BY <1>19, RequestTypoCorrectionsFine
  <1>20. CASE ResetLearning
    BY <1>20, ResetLearningFine
  <1>21. ASSUME NEW next \in BOOLEAN, PageCandidates(next)
         PROVE  Fine
    BY <1>21, PageCandidatesFine
  <1>22. CASE CommitComposition
    BY <1>22, CommitCompositionFine
  <1>23. CASE ResetSession \/ StartSession
    BY <1>23, RestartFine
  <1> QED  BY <1>17, <1>18, <1>19, <1>20, <1>21, <1>22, <1>23 DEF Next

\* The session record keeps the invariant through every request the daemon can
\* be sent, in any order, whether it succeeds or fails.
THEOREM EngineIsInductive == Spec => []EngineInv
  <1>1. Init => EngineInv
    <2> SUFFICES ASSUME Init
                 PROVE  EngineInv
      OBVIOUS
    <2>1. Good(NewSession)
      <3>1. NewSession \in Sessions
        <4>1. << >> \in Texts /\ << >> \in Seq(Candidates) /\ << >> \in Seq(Texts)
          BY DEF Texts
        <4>2. \A S : << >> \in Option(S)
          BY OptionNone
        <4> QED  BY <4>1, <4>2 DEF NewSession, Sessions, Modes
      <3> QED  BY <3>1, ResetFacts
    <2> QED  BY <2>1 DEF Init, EngineInv
  <1>2. EngineInv /\ [Next]_vars => EngineInv'
    <2> SUFFICES ASSUME EngineInv, [Next]_vars
                 PROVE  EngineInv'
      OBVIOUS
    <2>1. CASE Next
      BY <2>1, NextFine DEF Fine, EngineInv
    <2>2. CASE UNCHANGED vars
      BY <2>2 DEF vars, EngineInv
    <2> QED  BY <2>1, <2>2
  <1> QED  BY <1>1, <1>2, PTL DEF Spec

\* A session composes exactly while it has a reading, in every state of every
\* session: after commits of any part, cancelled corrections, resized segments
\* and failed requests.
THEOREM ComposesWhatIsRead == Spec => []ModeMatchesReading
  <1>1. EngineInv => ModeMatchesReading
    BY DEF EngineInv, Good, ModeFits, ModeMatchesReading
  <1> QED  BY <1>1, EngineIsInductive, PTL

\* The highlighted row and its remainder exist, and the notations revealed with
\* Up are in front of the list, whatever keys, pages, resizes and forgotten
\* candidates came before.
THEOREM RowsExist == Spec => []IndexesInRange
  <1>1. EngineInv => IndexesInRange
    <2> SUFFICES ASSUME EngineInv
                 PROVE  IndexesInRange
      OBVIOUS
    <2>1. /\ session.reading \in Texts /\ session.display \in Seq(Candidates)
          /\ session.additional \in Nat /\ ListFits(session) /\ NotationsFit(session)
          /\ SelectionFits(session)
      BY DEF EngineInv, Good, Presented, Sessions
    <2>2. ListFor(session.display, session.reading)
      BY <2>1, TextLen DEF ListFits, ListFor
    <2>3. Len(session.remainders) = Len(session.display)
      BY <2>1, <2>2, RemaindersFacts DEF ListFits
    <2> QED  BY <2>1, <2>3 DEF IndexesInRange, NotationsFit, SelectionFits
  <1> QED  BY <1>1, EngineIsInductive, PTL

\* Nothing that is presented was made for an earlier reading.
THEOREM PresentsTheReading == Spec => []PresentationFresh
  <1>1. EngineInv => PresentationFresh
    <2> SUFFICES ASSUME EngineInv
                 PROVE  PresentationFresh
      OBVIOUS
    <2>1. /\ session.reading \in Texts /\ session.display \in Seq(Candidates)
          /\ ListFits(session)
      BY DEF EngineInv, Good, Presented, Sessions
    <2>2. DOMAIN session.display = 1..Len(session.display)
      BY <2>1, TextLen
    <2>3. ListFor(session.display, session.reading)
      BY <2>1, <2>2 DEF ListFits, ListFor
    <2>4. DOMAIN session.remainders = DOMAIN session.display
      BY <2>1 DEF ListFits, Remainders
    <2>5. ASSUME NEW i \in DOMAIN session.display
          PROVE  session.display[i].text \o session.remainders[i] = session.reading
      <3> DEFINE c == session.display[i]
      <3>1. c \in Candidates
        BY <2>1, <2>2, ElementOfSeq
      <3>2. c.count \in Nat /\ c.count <= Len(session.reading)
            /\ c.text = Prefix(session.reading, c.count)
        BY <2>1, <3>1 DEF ListFits, MadeFor, Candidates
      <3>3. session.remainders[i] = Suffix(session.reading, c.count)
        BY <2>1, <2>2, <2>3, RemaindersFacts DEF ListFits
      <3> HIDE DEF c
      <3>4. c.text \o session.remainders[i] = session.reading
        BY <2>1, <3>2, <3>3, PrefixSuffix
      <3> QED  BY <3>4 DEF c
    <2> QED  BY <2>1, <2>4, <2>5 DEF PresentationFresh, ListFits
  <1> QED  BY <1>1, EngineIsInductive, PTL

\* A correction is only ever offered for the reading as it is, and leads from it
\* to the reading the language model proposed.
THEOREM CorrectsTheReading == Spec => []CorrectionsFresh
  <1>1. EngineInv => CorrectionsFresh
    BY DEF EngineInv, Good, Presented, TyposFit, PredictionFits, Leads, CursorFits,
           CorrectionsFresh
  <1> QED  BY <1>1, EngineIsInductive, PTL

\* What a request commits, followed by what is left to convert, is what was
\* typed: no handler drops or doubles a character, except in answering with an
\* error, in a request that deletes or replaces text (Deletes), and in a preview
\* that no longer covers the reading.
THEOREM KeepsWhatIsTyped == Spec => NothingTypedIsLost
  <1>1. EngineInv /\ [Next]_vars =>
          [ \/ reply'.error
            \/ reply'.request \in Deletes
            \/ session.mode = "Previewing" /\ MarkedText(session) # session.reading
            \/ \E n \in 0..Len(session.reading) :
                  reply'.commit \o session'.reading
                    = Prefix(session.reading, n) \o reply'.typed \o Suffix(session.reading, n)
          ]_vars
    BY NextFine DEF Fine, Lossless, Excused, Spells
  <1> QED  BY <1>1, EngineIsInductive, PTL DEF Spec, NothingTypedIsLost

=============================================================================
