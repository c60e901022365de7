--------------------------- MODULE LearningMemory ---------------------------
(***************************************************************************)
(* The two layers of the learning memory (crates/converter/src/learning.rs *)
(* and learning/index.rs): the temporary records of the running daemon,    *)
(* the persisted ones, their indexes by reading, decay by days, and learn, *)
(* forget, commit and reset.  One LearningMemory is shared by every        *)
(* session of every connection; its mutex makes each operation one step.   *)
(*                                                                         *)
(* A dictionary entry is the sequence of dictionary words it is made of:   *)
(* join_entries concatenates readings and surfaces.  The files are one     *)
(* atomic value, stored, as LearningFiles shows; a save that fails may     *)
(* still be the one the next open finishes.                                *)
(***************************************************************************)
EXTENDS Integers, Sequences, FiniteSets, SequencesExt, SeqHelpers

CONSTANTS
  Words,        \* dictionary words a candidate is made of
  Ruby,         \* their readings
  Surface,      \* their surfaces
  Content,      \* the words learns_individual_word accepts
  Valid,        \* the words valid_learning_entry accepts
  ClauseBreak,  \* is_clause: pairs of adjacent words between two clauses
  Candidates,   \* candidates (sequences of words) that sessions may learn
  MaxCount,     \* max_count of the configuration
  CountMax,     \* the largest u8 (255)
  Expiry,       \* days until an unused record is dropped (128)
  HalfLife,     \* days until a count is halved (32)
  MaxDay        \* the largest day of the clock (65535)

ASSUME WordAssumption ==
  /\ DOMAIN Ruby = Words /\ DOMAIN Surface = Words
  /\ Content \subseteq Words /\ Valid \subseteq Words
  /\ ClauseBreak \subseteq Words \X Words
  /\ Candidates \subseteq Seq(Words) \ {<<>>}
ASSUME BoundAssumption ==
  /\ MaxCount \in Nat /\ MaxDay \in Nat
  /\ CountMax \in Nat \ {0} /\ Expiry \in Nat \ {0} /\ HalfLife \in Nat \ {0}

Days == 0..MaxDay

RubyOf(e) == [i \in DOMAIN e |-> Ruby[e[i]]]
SurfaceOf(e) == [i \in DOMAIN e |-> Surface[e[i]]]

\* Everything a candidate can teach is one of its parts.
Entries == (UNION {{SubSeq(c, i, j) : i, j \in DOMAIN c} : c \in Candidates}) \ {<<>>}
Rubies == {RubyOf(e) : e \in Entries}
VARIABLES
  clock,           \* the day the wall clock shows; it may be set back
  today,           \* the day the layers were last refreshed
  persisted,       \* the persisted layer
  persistedIndex,  \* MemoryLouds: reading -> positions in persisted
  temporary,       \* the temporary layer
  temporaryIndex,  \* MemoryTrie: reading -> positions in temporary
  stored,          \* the records the files hold
  \* history
  taught,          \* how often each entry was memorized
  forgotten,       \* entries forgotten and not memorized since
  outcome          \* the last operation and how it ended

vars == <<clock, today, persisted, persistedIndex, temporary, temporaryIndex,
          stored, taught, forgotten, outcome>>

-----------------------------------------------------------------------------
(* Records and indexes.                                                    *)

\* The halvings decay's loop makes: until no more than HalfLife days are left.
Halvings(r, d) == IF d - r.updated > HalfLife
                    THEN (d - r.updated - 1) \div HalfLife ELSE 0

\* Mutation: dates of the future are left alone.
RedatedNever(r, d) == r

\* A record dated after today (the clock went back) starts over.
Redated(r, d) == IF d < r.used \/ d < r.updated
                   THEN [r EXCEPT !.used = d, !.updated = d, !.count = 1]
                   ELSE r
Halved(n, k) == LET half[j \in 0..k] == IF j = 0 THEN n ELSE half[j - 1] \div 2
                IN  half[k]
Aged(r, d) == LET k == Halvings(r, d)
              IN  [r EXCEPT !.count = Halved(@, k), !.updated = @ + k * HalfLife]

\* decay, on a sequence of records.
Decay(rs, d) ==
  LET redated == [i \in DOMAIN rs |-> Redated(rs[i], d)]
      live == Retained(redated, {r \in ToSet(redated) : d - r.used < Expiry})
      aged == [i \in DOMAIN live |-> Aged(live[i], d)]
  IN  Retained(aged, {r \in ToSet(aged) : r.count > 0})

\* MemoryTrie::new and MemoryLouds::new.
BuildIndex(rs) == [y \in Rubies |-> {i \in DOMAIN rs : RubyOf(rs[i].entry) = y}]

Min2(a, b) == IF a <= b THEN a ELSE b
Max2(a, b) == IF a >= b THEN a ELSE b

\* Mutation: decay moves records and the indexes stay as they were.
RefreshedStaleIndexes ==
  IF clock = today
    THEN [p |-> persisted, pi |-> persistedIndex, t |-> temporary, ti |-> temporaryIndex]
    ELSE [p |-> Decay(persisted, clock), pi |-> persistedIndex,
          t |-> Decay(temporary, clock), ti |-> temporaryIndex]

\* The layers an operation works on: refresh_day, run by lock() first of all.
Refreshed ==
  IF clock = today
    THEN [p |-> persisted, pi |-> persistedIndex, t |-> temporary, ti |-> temporaryIndex]
    ELSE LET p == Decay(persisted, clock)
             t == Decay(temporary, clock)
         IN  [p |-> p, pi |-> BuildIndex(p), t |-> t, ti |-> BuildIndex(t)]

\* One more use of a known entry: the count saturates.
UsedAgain(r) == [r EXCEPT !.count = Min2(@ + 1, CountMax), !.used = clock]

\* memorize: bump the temporary record of the entry, or append one.
Memorize(layer, e) ==
  LET known == {i \in layer.ti[RubyOf(e)] : i \in DOMAIN layer.t /\ layer.t[i].entry = e}
      at == CHOOSE i \in known : \A j \in known : i <= j
  IN  IF ~(ToSet(e) \subseteq Valid) THEN layer
      ELSE IF known # {}
        THEN [layer EXCEPT !.t[at] = UsedAgain(@)]
        ELSE [layer EXCEPT
               !.t = Append(@, [entry |-> e, used |-> clock, updated |-> clock, count |-> 1]),
               !.ti[RubyOf(e)] = @ \cup {Len(layer.t) + 1}]

\* merge_record.
Merge(rs, r) ==
  LET known == {i \in DOMAIN rs : rs[i].entry = r.entry}
      at == CHOOSE i \in known : \A j \in known : i <= j
  IN  IF known = {} THEN Append(rs, r)
      ELSE [rs EXCEPT ![at] = [entry |-> r.entry,
                               count |-> Min2(@.count + r.count, CountMax),
                               used |-> Max2(@.used, r.used),
                               updated |-> Max2(@.updated, r.updated)]]

\* Mutation: the truncation keeps the records used longest ago.
KeptOldest(rs, d) ==
  LET live == Decay(rs, d)
      byDay == [k \in 1..(d + 1) |-> Retained(live, {r \in ToSet(live) : r.used = k - 1})]
  IN  Take(FlattenSeq(byDay), MaxCount)

\* save_records: the records that reach the files, newest first, at most MaxCount.
\* The sort is stable: a record goes before those used on earlier days and
\* before the later ones of its day.
Kept(rs, d) ==
  LET live == Decay(rs, d)
      byDay == [k \in 1..(d + 1) |-> Retained(live, {r \in ToSet(live) : r.used = d + 1 - k})]
  IN  Take(FlattenSeq(byDay), MaxCount)

-----------------------------------------------------------------------------
(* What a candidate teaches, in the order it is memorized.                 *)

ClauseStart(c, i) == i = 1 \/ <<c[i - 1], c[i]>> \in ClauseBreak
ClauseStarts(c) == {i \in DOMAIN c : ClauseStart(c, i)}
\* The last word of the clause after the one that starts at i, 0 if none.
NextClauseEnd(c, i) ==
  LET later == {j \in ClauseStarts(c) : j > i}
      second == CHOOSE j \in later : \A k \in later : j <= k
      third == {j \in later : j > second}
  IN  IF later = {} THEN 0
      ELSE IF third = {} THEN Len(c)
      ELSE (CHOOSE j \in third : \A k \in third : j <= k) - 1

\* learned_clause_entries_after: each clause joined with the next one, when
\* the pair ends in the updated part.
ClausePairs(c, start) ==
  LET join(i) == IF ClauseStart(c, i) /\ NextClauseEnd(c, i) > start
                   THEN <<SubSeq(c, i, NextClauseEnd(c, i))>> ELSE <<>>
  IN  FlattenSeq([i \in 1..Len(c) |-> join(i)])

\* learn (start = 0) and learn_post_prediction, whose first start words were
\* learned already: content words, pairs of clauses, and the whole.
Lessons(c, start) ==
  LET words == Retained(SubSeq(c, start + 1, Len(c)), Content)
      whole == IF Len(c) > 1 THEN <<c>> ELSE <<>>
  IN  [i \in DOMAIN words |-> <<words[i]>>] \o ClausePairs(c, start) \o whole

-----------------------------------------------------------------------------
Init == /\ clock = 0 /\ today = 0
        /\ persisted = <<>> /\ persistedIndex = BuildIndex(<<>>)
        /\ temporary = <<>> /\ temporaryIndex = BuildIndex(<<>>)
        /\ stored = <<>>
        /\ taught = [e \in Entries |-> 0]
        /\ forgotten = {}
        /\ outcome = [op |-> "open", ok |-> TRUE, of |-> <<>>]

Persist(p) == persisted' = p /\ persistedIndex' = BuildIndex(p)
Keep(layer) == persisted' = layer.p /\ persistedIndex' = layer.pi
KeepTemporary(layer) == temporary' = layer.t /\ temporaryIndex' = layer.ti
NoTemporary == temporary' = <<>> /\ temporaryIndex' = BuildIndex(<<>>)
Report(op, ok, c) == outcome' = [op |-> op, ok |-> ok, of |-> c]

\* The wall clock moves on, or is set back.
Tick(d) == /\ d # clock
           /\ clock' = d
           /\ UNCHANGED <<today, persisted, persistedIndex, temporary, temporaryIndex,
                          stored, taught, forgotten, outcome>>

\* learn, and learn_post_prediction when start > 0.
Learn(c, start) ==
  LET lessons == Lessons(c, start)
      layer == Fold(Memorize, Refreshed, lessons)
      valid == {e \in ToSet(lessons) : ToSet(e) \subseteq Valid}
      times(e) == Cardinality({i \in DOMAIN lessons : lessons[i] = e})
  IN  /\ today' = clock
      /\ Keep(layer) /\ KeepTemporary(layer)
      /\ taught' = [e \in Entries |-> taught[e] + IF e \in valid THEN times(e) ELSE 0]
      /\ forgotten' = forgotten \ valid
      /\ Report("learn", TRUE, c)
      /\ UNCHANGED <<clock, stored>>

\* Mutation: only the persisted layer forgets.
UnforgottenAll(layer, c) == layer.t

\* forget: the candidate's words go from the temporary layer by reading and
\* surface, from the persisted one by surface alone; then the files are saved.
Unforgotten(layer, c) ==
  Retained(layer.t, {r \in ToSet(layer.t) : \A i \in DOMAIN c :
              <<RubyOf(r.entry), SurfaceOf(r.entry)>> # <<RubyOf(<<c[i]>>), SurfaceOf(<<c[i]>>)>>})
Remaining(layer, c) ==
  Retained(layer.p, {r \in ToSet(layer.p) :
                       \A i \in DOMAIN c : SurfaceOf(r.entry) # SurfaceOf(<<c[i]>>)})

Forget(c) ==
  LET layer == Refreshed
      t == Unforgotten(layer, c)
      p == Kept(Remaining(layer, c), clock)
  IN  /\ today' = clock
      /\ temporary' = t /\ temporaryIndex' = BuildIndex(t)
      /\ \/ /\ Persist(p) /\ stored' = p
            /\ forgotten' = forgotten \cup {<<c[i]>> : i \in DOMAIN c}
            /\ Report("forget", TRUE, c)
         \/ \* save_records failed, before or after its .pause
            /\ Keep(layer) /\ stored' \in {stored, p}
            /\ Report("forget", FALSE, c)
            /\ UNCHANGED forgotten
      /\ UNCHANGED <<clock, taught>>

\* Mutation: the merge is made in place, before the save that may fail.
CommitInPlace ==
  LET layer == Refreshed
      p == Kept(Fold(Merge, layer.p, layer.t), clock)
  IN  /\ today' = clock
      /\ \/ /\ layer.t = <<>>
            /\ Keep(layer) /\ KeepTemporary(layer)
            /\ Report("commit", TRUE, <<>>)
            /\ UNCHANGED stored
         \/ /\ layer.t # <<>>
            /\ Persist(p) /\ NoTemporary /\ stored' = p
            /\ Report("commit", TRUE, <<>>)
         \/ /\ layer.t # <<>>
            /\ Persist(p) /\ KeepTemporary(layer) /\ stored' \in {stored, p}
            /\ Report("commit", FALSE, <<>>)
      /\ UNCHANGED <<clock, taught, forgotten>>

\* commit, when a session ends: nothing to do without temporary records.
Commit ==
  LET layer == Refreshed
      p == Kept(Fold(Merge, layer.p, layer.t), clock)
  IN  /\ today' = clock
      /\ \/ /\ layer.t = <<>>
            /\ Keep(layer) /\ KeepTemporary(layer)
            /\ Report("commit", TRUE, <<>>)
            /\ UNCHANGED stored
         \/ /\ layer.t # <<>>
            /\ Persist(p) /\ NoTemporary /\ stored' = p
            /\ Report("commit", TRUE, <<>>)
         \/ /\ layer.t # <<>>
            /\ Keep(layer) /\ KeepTemporary(layer) /\ stored' \in {stored, p}
            /\ Report("commit", FALSE, <<>>)
      /\ UNCHANGED <<clock, taught, forgotten>>

\* reset: memory is cleared before the files are; a deletion that fails leaves
\* files from which the old records can come back.
Reset ==
  /\ today' = clock
  /\ Persist(<<>>) /\ NoTemporary
  /\ \/ stored' = <<>> /\ Report("reset", TRUE, <<>>)
     \/ UNCHANGED stored /\ Report("reset", FALSE, <<>>)
  /\ UNCHANGED <<clock, taught, forgotten>>

\* Any lookup or validation: it refreshes the day and changes nothing else.
Read == LET layer == Refreshed
        IN  /\ today' = clock
            /\ Keep(layer) /\ KeepTemporary(layer)
            /\ Report("read", TRUE, <<>>)
            /\ UNCHANGED <<clock, stored, taught, forgotten>>

\* The daemon ends, or is killed, and the next one opens the memory: what was
\* not committed is gone, and the records come back in the order of the trie.
Restart ==
  /\ \E order \in SetToSeqs(ToSet(stored)) : Persist(Decay(order, clock))
  /\ NoTemporary
  /\ today' = clock
  /\ Report("open", TRUE, <<>>)
  /\ UNCHANGED <<clock, stored, taught, forgotten>>

Next == \/ \E d \in Days : Tick(d)
        \/ \E c \in Candidates : \E start \in 0..(Len(c) - 1) : Learn(c, start)
        \/ \E c \in Candidates : Forget(c)
        \/ Commit \/ Reset \/ Read \/ Restart

Spec == Init /\ [][Next]_vars

-----------------------------------------------------------------------------
\* Both indexes point at exactly the records of each reading, whatever decay,
\* forget and merge removed or moved (refresh_day, forget, commit, memorize).
IndexesAgree == /\ persistedIndex = BuildIndex(persisted)
                /\ temporaryIndex = BuildIndex(temporary)

\* As of the day of the last operation no record is dated in the future,
\* expired or due for a halving, even after the clock was set back.
NothingStale ==
  \A r \in ToSet(persisted) \cup ToSet(temporary) :
    /\ r.used <= today /\ r.updated <= today
    /\ today - r.used < Expiry
    /\ today - r.updated <= HalfLife

CountIn(rs, e) == LET at == {i \in DOMAIN rs : rs[i].entry = e}
                  IN  IF at = {} THEN 0 ELSE rs[CHOOSE i \in at : TRUE].count

\* An entry has one record in a layer or in the files, whose count fits its u8,
\* and a commit that failed and is tried again, before or after a restart, never
\* counts a use twice: the layers together, and the files, count at most what
\* was taught (memorize, merge_record, commit).
UsesCountedOnce ==
  /\ \A rs \in {persisted, temporary, stored} :
       /\ \A i, j \in DOMAIN rs : rs[i].entry = rs[j].entry => i = j
       /\ \A r \in ToSet(rs) : r.count \in 1 .. CountMax
  /\ \A e \in Entries : /\ CountIn(persisted, e) + CountIn(temporary, e) <= taught[e]
                        /\ CountIn(stored, e) <= taught[e]

\* A word that was forgotten successfully does not come back from any layer or
\* from the files, over commits that fail and restarts, until it is learned
\* again.
ForgottenStaysForgotten ==
  \A rs \in {persisted, temporary, stored} :
    \A r \in ToSet(rs) : r.entry \notin forgotten

\* docs/usage.md says forgetting drops what was learned for the selected
\* candidate: after a forget that succeeded nothing that learning this very
\* candidate memorizes is left.  forget removes the candidate's words and not
\* the joined entries learn made of them.
ForgetsWholeCandidate ==
  outcome.op = "forget" /\ outcome.ok =>
    \A e \in ToSet(Lessons(outcome.of, 0)) :
      CountIn(temporary, e) = 0 /\ CountIn(persisted, e) = 0

\* A commit that succeeds keeps every record of both layers, the counts
\* added, except records for which MaxCount others at least as recent were kept.
CommitKeepsAll ==
  [][outcome' = [op |-> "commit", ok |-> TRUE, of |-> <<>>] /\ clock = today /\ outcome # outcome'
      => /\ temporary' = <<>>
         /\ \A r \in ToSet(persisted) \cup ToSet(temporary) :
              \/ \E q \in ToSet(persisted') :
                   /\ q.entry = r.entry /\ q.used >= r.used
                   /\ q.count = Min2(CountMax, CountIn(persisted, r.entry)
                                                 + CountIn(temporary, r.entry))
              \/ /\ Len(persisted') = MaxCount
                 /\ \A q \in ToSet(persisted') : q.used >= r.used]_vars
=============================================================================
