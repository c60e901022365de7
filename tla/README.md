# beanKey in TLA+

beanKey is a Japanese input method. A front end (a Fcitx5 addon or a macOS input method)
turns keys into requests, a Rust daemon keeps one input session per input context, converts
readings with a dictionary lattice and a language model, and remembers what the user chose.
This directory models the parts of it that keep state and can go wrong in ways a unit test
hardly reaches.

## 1. Inventory

| Component | Source | State | Operations | Hard behaviour |
| --- | --- | --- | --- | --- |
| Learning files | `converter/src/learning.rs` | files of a generation, their `.2` temporaries, `.pause` | save, recover, reset, open | a crash or an I/O error between any two file operations |
| Learning memory | `converter/src/learning.rs`, `learning/index.rs` | persisted and temporary records, an index of each, the day | learn, forget, commit, reset, lookups | day changes and a clock set back, saturation, failed saves and retries |
| Input session | `daemon/src/engine.rs` | mode, reading and cursor, candidates, indexes into them, predictions, corrections | some thirty keys, candidate selection, typo correction, reset | long sequences of legal requests; indexes and lists that outlive what they were made for |
| Session registry | `daemon/src/engine.rs` | sessions by id, last request id | start, end, dispatch | repeated or late requests |
| Daemon process | `daemon/src/server.rs`, `main.rs` | lock file, socket path, listener queue, workers | reserve, bind, accept, retire, drop | several processes racing over files; kill; a client arriving while the daemon retires |
| IPC client | `ipc/client.cpp` | one connection | connect, launch, poll, request, disconnect | timeouts and late answers |
| Fcitx5 front end | `fcitx5/src/engine.cpp` | one connection shared by all input contexts, its generation, a session and its lists per context | key events, candidate actions, focus, reset, reconnect | one context's failure seen by the others |
| macOS front end | `macos/src/*.mm` | connection prepared in the background, generation, a session, panel and marked text per controller | as above | as above; marked text in the application |
| Composing text | `converter/src/input/` | typed keys, surface, cursor | insert, delete, move, complete or freeze a prefix | kana made of several keys; edits inside them |
| Conversion session | `converter/src/session.rs` | the text, candidates, accepted prediction, two prediction caches | request, select, accept, learn, forget | caches filled for an earlier text; counts applied to another text than they were made for |
| Lattice search | `converter/src/lattice.rs` | none between requests | build nodes, n-best search, candidates | the beam at its limit, constraints on paths |
| Zenzai | `converter/src/zenz.rs`, `daemon/src/zenz.rs`, `llama/` | a constraint per session, verdicts per connection, one llama context per process | draft, review, redraft, generate | loops, stale verdicts, one context for all connections |
| Typo correction | `converter/src/lm_typo.rs`, `typo.rs`, `ngram.rs` | none | beam search | |
| Dictionaries, text utilities, configuration, packaging | the rest | read only | | |

Interaction: the front end starts the daemon and exchanges one request and one answer at a
time over the socket; the daemon runs a worker thread per connection, each with its own
sessions; all sessions of a process share the learning memory behind a mutex; only the
process that holds `daemon.lock` may touch the learning files.

What makes each component correct, in one line: the learning directory always comes back as
one whole generation; the two memory layers never disagree with their indexes and never
count or forget twice; whatever the session shows and commits belongs to the reading as it is;
a text shows what its keys convert to, and choosing a candidate consumes just its reading;
predictions go on from what is typed; the model's loop ends and what passes it is what the model tolerates;
one daemon owns the files, every front end gets connected, and an unused daemon ends;
a front end and the daemon agree on sessions and lists, or the front end starts over.

## 2. Modules

| Module | Models |
| --- | --- |
| `AtomicStore` | what the learning directory promises: a store that is replaced as a whole |
| `LearningFiles` | the file protocol: temporaries, `.pause`, publication, recovery, reset, crashes |
| `LearningFilesProofs` | its proofs, among them that it implements `AtomicStore` |
| `LearningMemory` | records, indexes, days and counts above the files |
| `LearningMemoryProofs` | its records, counts, indexes and forgotten words, for any words and limits |
| `InputEngine` | one input session, every request an action |
| `InputEngineProofs` | lists, indexes and corrections follow the reading, and nothing typed is lost |
| `DaemonLifecycle` | daemon processes, the lock, the socket and the front ends' connections |
| `DaemonLifecycleProofs` | mutual exclusion of the processes |
| `SessionRegistry` | the daemon as one connection sees it: sessions by id, request ids, answers |
| `SessionRegistryProofs` | lemmas about its answers, shared by the proofs of both front ends |
| `FcitxFrontEnd` | the Fcitx5 addon over it: input contexts, the shared client, the preparing thread |
| `FcitxFrontEndProofs` | the addon and the daemon agree on sessions, numbers and lists |
| `MacFrontEnd` | the macOS input method over it: controllers, the background connection, panel, marked text |
| `MacFrontEndProofs` | the same for the macOS input method, with its panel and marked text |
| `SeqHelpers` | folds and sequences used by `LearningMemory` and by the next ones |
| `ComposingText` | keys, input tables, the surface they make, edits, typo prefixes |
| `PrefixConstraints` | the constraint a model or an accepted prediction puts on a search |
| `Lattice` | nodes, n-best search, candidates with what they consume, predictions |
| `ConversionSession` | one conversion session over these, with its caches |
| `LlamaCache` | the llama context: two sequences over one KV memory |
| `Zenzai` | drafting, reviewing and generating with the model, for several connections |
| `ZenzaiProofs` | the memory follows the tokens, verdicts are fresh, what passes is tolerated, accepted words stay |
| `MC*` | instances for TLC |

### LearningFiles

`main` and `tmp` give, for each file name, the generation whose bytes it holds, `Missing`, or
`Torn` for a file whose write was cut short. A save (`save_records`) is a sequence of actions, one
per file operation, in the order of the code: `WriteTemporary` for every file, `WritePause`,
`Publish` for every file with the LOUDS file last, `RemovePause`; each may fail instead, which
returns an error to the caller and leaves the files as they are. `Open` is
`open_with_clock`: with `.pause` present `RecoverFile` repeats the publication for whatever
temporaries exist, then `Load` decodes. Reset deletes the files in any order
(directory order). `Crash` may come at any point; a file being written may be left `Torn`.

`durable`, `lingered` and `wiping` are history variables: the generation a recovery must
produce, whether a save or a reset began over the `.pause` of a failed publication, and whether a reset
has begun to delete with nothing stored since. `lingered` marks the situation the protocol does not protect: a new
save writes temporaries while an old `.pause` is still there, and a crash in the middle then makes
recovery publish a mixture of two generations. The properties are stated for directories in
which this has not happened; the assumption is visible as `Trusted`.

### LearningMemory

A record is an entry (a sequence of words), the days of its last use and last update and its count.
`Refreshed` is what every operation does first: when the day has changed, both layers
are aged and both indexes rebuilt. `Commit` merges the temporary layer into a copy of the
persisted one, truncates it, and assigns both only if the save succeeded. `Forget`
removes from the temporary layer first and from the persisted one only if the save succeeded.
`Restart` opens what the files hold, in any order, without temporary records.
The index is a function from readings to sets of positions, which is what `MemoryTrie` and
`MemoryLouds` compute. Scores are left out.

### InputEngine

`session` is the source's `SessionState`: mode, language, reading and cursor, displayed
candidates with their remainders, the selected row, the previewed row, the number of revealed
notations, whether a segment was resized, whether the last key was Backspace, prediction,
pending correction, live candidate, typo corrections, code point being entered. `reply` is
the answer to the last request and `typed`, a history variable in it, what the request added.
A helper that takes `&mut session` is an operator from record to record; a request is an
action that takes the whole handler. Every error of a handler resets the session, as in `handle_session_request`.

The converter is external: `Conversions` gives, for a target, a best result that covers it and possibly
one shorter candidate, as a first clause or as a further result. A candidate's text is the reading it consumes, so that
commits can be compared with what was typed. Readings are characters here; the keys
behind them are in `ComposingText`.

### ComposingText, Lattice, ConversionSession

`ComposingText` is a library of operators on texts (typed elements, surface, cursor) over a table given as a constant:
conversion with longest matches and the wildcard and separator mappings, `IndependentBoundaries`, and the edits, which
patch the surface as the code does instead of converting again. `TypoPrefixes` is the penalised exploration of typo.rs.
`Lattice` builds the nodes of a text (dictionary, additional entries, single characters, corrected readings), searches
them with `insert_predecessor`'s rule, and makes candidates with their `ComposingCount` in keys, graphemes or both.
Costs are integers, in units of one half.

`ConversionSession` keeps what the code keeps between requests: text, context, accepted prediction, the stable
prediction cache and the cache of generated text. Its actions are the key handlers' edits, the requests (plain, with
typo correction, with a model constraint, with generated text, as a fallback; about the text or about a narrowed
segment), selection, accepting a prediction, forgetting and resetting. What the model answers is arbitrary
within `ModelPrefixes` and `Generated`, what learning yields within `Learnable`. `result.about` is a history
field: the text a result was made for.

### LlamaCache, Zenzai

A cell of the KV memory is represented by the tokens its decoding attended to, with the sequences that own it;
`LogitsOf` is `logits`: plan, removal, copy, decoding, failure. A row of logits is represented by the tokens it was computed
from, so that a wrong cell shows as a wrong row.

`Zenzai` has one action per call of the model, because the lock of the context is held for one call: `Request`,
`Draft`, `Evaluate` (answered from the cache, without a call, or with one), `OutOfInferences`, `Defer`, `Generate`.
Each connection has an evaluator with its verdicts (least recently used ones leave) and the last prompt; each session
the constraint it carries to the next request. `model` is chosen in `Init` and never changes. `work[c].inherited` is a history
field: the conversion's first evaluation skipped a prefix that another request had addressed.
A draft is a `Search` from left to right over the positions of the reading, which keeps the best path to each position that the constraint
allows; the dictionary and the vocabulary are sequences, so that ties are broken by order as in the code (`StrictArgmax`, `Ranked`; `BestOf` takes the last of the best, as `max_by` does).
A row `Tolerates` a token when it is the best one or personalization excuses it, as `evaluate_candidate_tokens` decides.
Abstractions: one token a character; candidates' values add up without connection costs; the cache of
tokenised prompts is left out (a pure function); which of the possible kana `generate_next_input` takes is left open,
as it depends on a repetition penalty and an entropy.

### DaemonLifecycle

Each system call on the lock file or the socket path is a step: `AcquireLock`, the probe of a
process that found the lock taken, `RemoveStaleSocket`, `OpenEngine`, `Bind`, `Accept`, an empty
accept and the reading of `active_clients` after it, the joins, and the drop of the endpoint in
field order: the socket file, the listener with whatever is queued, the lock, then the process.
Connections are in a listener's queue or with a worker; a closed one is only counted. A
front end tries to connect, launches a process, polls, gives up after its deadline and starts over.
The faults are `Kill`, `Signal`, `LoopFails`, `WorkerFails`, `BindFails` and an engine that does not open; front ends
disconnect (`Leave`) and exit (`Quit`). A behaviour has at most `MaxSpare` of all these.

### SessionRegistry, FcitxFrontEnd, MacFrontEnd

`SessionRegistry` has no variables. `Handle` is `Engine::handle`: for a registry, a session id, a request id and a
request it gives the set of possible registries and answers. Inside a session only what a front end can tell is
kept: whether there is text, how many candidates and corrections there are and the mode of the window. Whatever a key does
(`InputEngine`) is some choice among these. A request may also fail in the daemon (`Internal`), and one is refused that names an unknown
session, an old number or an index out of range, that carries a cursor or anchor outside its surrounding text (`InvalidText`; in the
code `InvalidPayload` too), or that is a digit key while selecting for which the daemon's page has no candidate (`DigitResults`).
The front ends send a digit as a key when it names none of the rows they show (`RowDigits`). The macOS one checks the offsets
of the surrounding text before it sends them; the addon passes on what the application reports.

Both front ends handle an event on their main thread and wait for each answer, so an action is a whole handler with
all its requests. It is written as the set of worlds (records of all the variables) the handler may leave behind,
which lets `start`, `send` or `failSession` be one operator each, used by every handler as in the source. In
between come the other contexts or controllers, the thread or block that connects, its callback, the clock and the daemon.
A request may be lost with the daemon having carried it out or not; it makes no difference, as the client closes the
connection and the worker's sessions go with it.

Numbers that only grow are kept finite without changing what is compared: request ids count from the last one the daemon
accepted (`Rebased`), and session ids and connection generations take the least number that nothing refers to any more (`Fresh`).

## 3. Runs

| Run | Result | What it shows |
| --- | --- | --- |
| `learning_files` | passes | `RecoversDurable`: a restart gets the last published generation, wherever the last save stopped. `NeverLoadsMixture`, `MemoryIsDurable`: what is loaded is one generation, and what the process serves is what is on disk. `ImplementsAtomicStore`: refinement. |
| `learning_memory` | passes | `IndexesAgree`, `NothingStale` (no record is older than the limits allow, also after the clock was set back), `UsesCountedOnce` (one record per entry; a failed and repeated commit counts once and no count wraps), `ForgottenStaysForgotten`, `CommitKeepsAll` (what truncation drops is older than all it keeps). |
| `forget` | violated | A candidate of two words is learned and forgotten; the joined entry stays. |
| `input_engine` | passes | `ModeMatchesReading`, `IndexesInRange` (no index out of range, no slice panic), `PresentationFresh`, `CorrectionsFresh` (nothing shown or applied was made for another reading), `NothingTypedIsLost`. |
| `preview` | violated | Type two characters, Shift+Left, Escape, Enter, without live conversion: the second character is lost. |
| `daemon_lifecycle` | passes | `OneOwner`; `ConnectsEventually` and `EndsWhenUnused` under fairness. |
| `fcitx_front_end` | passes | `NeverMisaddressed`, `ShowsItsSession`, `NoOrphanSession`: both sides of the socket agree on sessions, numbers and lists through every failure; what the daemon still refuses is a digit typed beyond the rows or a misplaced surrounding text. `CommitsOnce`: a redraw never commits. `KeepsRecovering`: a session is served again and again. |
| `reset` | violated | A context that is reset drops the connection of all of them, although the daemon answered. |
| `mac_front_end` | passes | `OldSessionUnused`, `PanelWithinSession`: as above; `PreparationUsed`: no background connection is ever thrown away. `MarkedWhileComposing`: no failure leaves marked text in the application. `KeepsRecovering`. |
| `conversion` | passes | `SurfaceFollowsKeys`, `EditsStayLocal`: patched surfaces are what converting the keys gives, and no edit at any cursor lets the keys on its two sides combine. `SelectionLeavesTheRest`: counts in keys and graphemes fit the text. `AlwaysACandidate`: a list is empty only when the words of an accepted prediction are required and nothing known spells them any more (section 5). `PredictionsFollow`, `ForgottenNotPredicted`: cached predictions are those of the present text and memory. `NBestExact`: the beam against all coverings. |
| `segment` | violated | Type n and a (two graphemes), narrow the target to the first, choose its katakana: one key is removed, and the text that is left is not the second grapheme. |
| `zenzai` | passes | `MemoryFollowsTokens`: the two sequences hold what the wrapper believes, through shared prefixes and decodings that did not fit. `VerdictsAreFresh`, `PassedIsTolerated`: no cached verdict or skipped prefix lets a candidate pass that the model would reject. `FixedPrefixKept`: no candidate that is offered contradicts the words of an accepted prediction (one from the user's own words may end before they do, as the code compares only as far as both go). `EveryRequestEnds`, under fairness, also where two candidates are rejected in favour of each other. |

The four violated runs state what the documentation says and are described under
`findings` in `PROJECT.json`.

Bounds. `learning_files`: two generations, one with two shards and one with one, so that stale shards
remain after a smaller save; five opens, saves and resets are enough for a failed save,
another, a crash, a recovery and a further save. `learning_memory`: two words with one surface
and two readings, a clause boundary between them, a count limit of 3, a two-day expiry, one-day half-life, two
records kept, seven operations. `input_engine`: readings of three characters
(a cursor strictly inside, a partial commit that leaves something to resize), a digit key and a letter that is
also the space, pages of two, two notations, two corrections; there is no bound on the
number of requests. `daemon_lifecycle`: two processes and two clients, three faults or departures: a kill, a
disconnection and an exit in one behaviour. `fcitx_front_end`, `mac_front_end`: two contexts or controllers,
one candidate and one correction (lists are compared by length; an index is either in a list or beyond it), pages of two where the sources have nine, so that one digit names a row and one lies beyond it, two faults (lost replies, failures in
the daemon, surrounding text refused, on macOS also digits refused, kills, starts that take too long) among any number of requests, on Linux also of refused digits, and daemon restarts. Two faults in one behaviour are what it takes to
fail while recovering from a failure. `conversion`, `segment`: two roman keys that make a group of two graphemes, a waiting n, and a kana typed directly;
three edits between requests (a group, an edit inside it, a key after it); five dictionary entries, a user's and a shortcut, a learned pair of words and a word that only learning knows, which it holds when the session starts; beams of two; predictions asked for by hand.
`zenzai`: two connections, one with two sessions; two requests; three models, chosen so that one agrees, one ends early and one
sends the search back and forth; four inferences; five cells for requests of at most five tokens, so that the two sequences together do not fit and decodings fail;
two verdicts kept; an accepted prediction of two characters, so that drafts end inside it and go on after it. Personalization and faults of the device are parameters of the model that this run leaves off. Symmetry is not used because of the liveness properties.
`learning_files` and `learning_memory` stop at their bound, and `daemon_lifecycle` when every front end has exited,
so deadlock is not checked in them; nor in `conversion` and `zenzai`, which stop at their bounds of edits and requests. The view of `input_engine` leaves out `reply`, which no action reads.

Fairness. In `Zenzai`: a connection that is working goes on working (its thread runs, and the lock of the model is held for
one call only); it is weak fairness of `Step(c)`, written without ENABLED. Requests have none. In the front ends: threads, queues and the clock go on, a daemon that was launched gets ready, and while no session
is served the user types in some context (`KeyUnserved`); that nobody is served while nobody types is no failure. Their faults are bounded and
have no fairness.

In `DaemonLifecycle`: a process that can go on does, worker threads end when their
connection is closed, startup deadlines pass, and keys keep coming, so a disconnected front end tries
again. Polling is strongly fair: the front end looks every 25 ms, and the model has no clock that
would say it is fast enough to meet a daemon that is reachable only now and then. Faults have no fairness.

## 4. Proofs

`LearningFilesProofs`, for every finite or infinite set of generations and any number of shards.
The invariant `IInv` adds to the properties one clause per stage of the protocol (`StageInv`): while a save
writes, there is no `.pause` (or the directory is one that `lingered`), and the temporaries already written are
whole; while it publishes, `.pause` is there, every temporary holds the new generation (publication copies and leaves
them), and the files already published are in place; a recovery likewise, for the generation it recovers;
while a reset deletes, the metadata is gone or all that is left belongs to one generation.
None of the properties is inductive alone: they say what a recovery would
produce, and only the stage says why the next file operation does not change it.
From `IInv` follow `TypeCorrect`, `CrashSafe`, `NoMixture`, `MemoryAgrees`, and
`Refinement`: every step maps to a step or a stutter of `AtomicStore`, with publication of the
pause marker as the commit point. Assumptions: the sentinels are not generations, and every generation has between one and `MaxShards` shards.

`DaemonLifecycleProofs`, for any processes and clients and any number of faults. `OneOwner` needs to
know who holds the lock: `LockHeld` (a process in a state between acquiring and releasing holds it)
and `WorkersHeld` (workers exist only from bind to the end of the process) with `TypeOK` are
inductive and give `MutualExclusion`. Its one exception is in its definition: the workers of a
daemon whose accept loop failed run until the process exits, after the lock is released.

`ZenzaiProofs`, for any vocabulary, dictionary and models, any connections and sessions, any limits (inferences, tokens, cells,
verdicts kept), with personalization and failing decodings. It has four layers.

- *The context.* `LlamaSpec => []MemoryFollowsTokens`, where a step is one request of either thread with any tokens, any start and
  a batch that may fail. The property counts cells; `LlamaInv` says it without cardinalities: a sequence *agrees* with its
  recorded tokens when each of its cells is a prefix of them, each prefix has a cell and no prefix has two. The last clause is
  what makes the copy from the other sequence inductive: the target is emptied before it, and a copy over cells that are left
  would count a prefix twice. The lemmas follow a request: `RemoveCuts`, `RemoveSpares` (removing a tail spares the sequence that
  shares cells), `CopyShares`, `AttendsToAll`, `DecodeExtends`, `PlanFacts`, `RequestKeeps`; `InvariantCounts` gives the cardinalities back.
- *Drafts.* The search is followed as a chain of tables over positions: every path is made of dictionary entries, spells the
  part of the reading it covers and, if it is finished, satisfies its constraint.
- *The loop.* `Inv` is the conjunction of `LlamaInv`, of one clause for the work of a connection (`WorkFits`: the constraint and every candidate under
  way are compatible with the accepted words), of the same clause for the constraint a session carries over, and of `AllFresh`: each verdict
  is what the model gives on an empty memory for its question and skipped prefix. `VerdictsAreFresh` needs
  `LlamaInv`, because a verdict is computed from what the shared memory holds, and it gives `SharedCacheFollowsTokens`.
  `FixedPrefixKept` is not inductive: a redraft under the model's
  correction respects the accepted words only because the correction does, which is what the verdict's bytes with the words put in front of them (`PrependFixed`) say.
- *What passes.* `PassedIsTolerated` speaks of the end of a loop whose evaluations each skip what the constraint addresses. `Tolerance`
  adds to `Inv` that, while the loop goes on, everything the constraint requires after the prompt of the last evaluation is
  tolerated token by token (`Required`), unless the first evaluation skipped an inherited prefix. Two facts carry it: a rejection names the
  best token at the first rejected position, so the new constraint is a tolerated prefix with one more tolerated token
  (`RejectedReviewed`, `RequiredTolerated`); and a prefix is skipped only when the prompt is the same as before, in which
  case the same number of words was fixed in front of it, because the reading in a prompt starts at its last tag (`TaggedFacts`, `SameFixed`).

Assumptions. `LanguageAssumption` gives the types. `LimitsAssumption`: an evaluator keeps at least one verdict (256 in the code).
`ReadingsAssumption`: the part converted is the head of the whole reading (it is the part before the cursor); a prediction that can be
accepted is not empty; and no reading and no kana the model generates has the input tag, a private-use character that no key and no input
table of the code produces (a code point that is entered is committed and never becomes part of a reading). The assumption about the tag is used
for `PassedIsTolerated` only.

`InputEngineProofs`, for any alphabet, any notations, pages and limits, and whatever the converter
and the language model answer. `EngineInv` says of the session record that its cursor is inside the reading
(`CursorFits`), that every candidate is a prefix of the reading as it is and the remainders are what is
left of it (`ListFits`), that the revealed notations are in front of the list and cover what the row after them
covers (`NotationsFit`), that corrections lead from this reading to the corrected one (`PredictionFits`,
`TyposFit`), that the mode composes exactly while there is a reading (`ModeFits`) and that a selected row exists
(`SelectionFits`). `PresentationFresh` alone is not inductive: the handlers cut lists by counts and pages, and
only `ListFits` and `NotationsFit` together say that what is left still belongs to the reading; a correction
survives only in an unbroken run of deletions (`Leads`). Each helper that takes the session has a lemma about what it
leaves, each handler one that combines them (`Fine`), which also carries the action property `NothingTypedIsLost`.

`SessionRegistryProofs`, `FcitxFrontEndProofs` and `MacFrontEndProofs`, for any finite set of contexts or controllers, any
lengths of lists and any number of faults. The registry's lemmas say when `Handle` finds a request misaddressed (`Misaddressed`), what an answer tells of the
session after it, and that `Fresh` gives a number nothing uses. `Good` is a predicate on worlds and holds between two handlers: a
context that is served has its session in the registry, with its next number above the session's last one and its lists those of
the session (`InSync`); no two contexts share a session and every session has one (`ContextsFit`, `RegistryFits`);
a context that is not served shows nothing that could be picked (`Settled`); the generation and the connection fit
each other (`ClientFits`, and on macOS `PreparationFits`). In the middle of a handler the context it serves may owe a
request or show an old list, so every part a handler is made of (`start`, `send`, `apply`, `failSession`, ...) has a lemma with
the frame it leaves, and the handlers' lemmas chain them. What makes `NeverMisaddressed` and `OldSessionUnused` inductive is the
generation: a lost connection makes every other context unserved at once, before any of them is asked.

`LearningMemoryProofs`, for any words, readings and candidates, any limits of counts, days and records kept.
`MemoryInv`: each layer and the files have one record per entry, of a count between one and `CountMax`; both
indexes are those of their layers; all records in memory are fresh as of `today` (`Held`); and no layer or file has a forgotten
entry or counts more uses than were taught, the two layers *together* (`Backed`). The sum is what a failed commit needs: the
merged records may already be in the files while the temporary layer still has them, and the next commit merges again into
the persisted layer, not into the files. The operations are folds over sequences; as induction over data cannot be
instantiated for an operator, a fold is followed as a chain of values (`ChainExists`, `ChainStays`, by the least
step that breaks a property): `RetainedFacts`, `DecayFacts`, `KeptFacts` (the truncation drops only what is no newer than all it keeps),
`MergedFacts` (counts are added, saturated, for each entry), `TaughtFacts` (learning adds at most the lessons of an entry), `LessonFacts`.
`From` says that every record of a layer goes back to one of another with no smaller count; `BackedFrom` turns it into
the invariant for every operation that only removes or ages. `CommitLosesNothing` adds that a decay of fresh records keeps them all.
`MemoryInv` was checked with TLC on the instance of `learning_memory` before it was proved.

Proving changed the models in form, not in what they say: two overlapping guards of a `CASE` in `PageCandidates` (`CASE` picks any of them)
became `IF`, `UNION` of a set of sets got its parentheses in the front ends and in `Entries`, and `LearningMemory` retains by a set
instead of a predicate and halves by a recursive function, because the prover does not see into `SelectSeq` and powers. `Zenzai` searches with one table per position and takes the first
best entry of a sequence, where it had sets and `CHOOSE`; the bytes put in front of a verdict and the test of a priority became operators (`PrependFixed`, `Excused`).

Only model-checked: liveness (`ConnectsEventually`, `EndsWhenUnused`, `KeepsRecovering`, `EveryRequestEnds`), which is out of the
prover's reach; and the conversion session with the composing text and the lattice (`SurfaceFollowsKeys`, `EditsStayLocal`, `SelectionLeavesTheRest`,
`AlwaysACandidate`, `PredictionsFollow`, `ForgottenNotPredicted`, `NBestExact`): its properties compare what recursive conversions and searches
compute with references for every input. Conversions and searches are recursive functions and folds, so this is induction over data;
and they use `SelectSeq` and `SortSeq`, which the prover does not see into. The project declares no RECURSIVE operator.

## 5. Limits seen while modelling

Some behaviours are worth knowing and have no run of their own. A client that connects after the daemon's last empty
accept and before it reads `active_clients` is dropped with the listener; `ConnectsEventually` shows that it finds a daemon when
it tries again. And the 512 tokens of the llama context are the limit of one request as well as the cells of both sequences
together: a request within the limit can fail to decode because of what the other sequence holds. That failure is
`LlamaError::Decode`, not the capacity error after which engine.rs falls back to the dictionary, so the request is answered
with `Internal`; the failing sequence is emptied. A daemon that never had a client never ends.
A digit typed beyond the rows that are shown (a list of fewer than nine candidates) is not taken by the front end and goes to the daemon as
a key; while selecting, the daemon looks for a candidate of that number on its page (engine.rs:1105), answers `InvalidPayload` and resets the
session, and the front end closes the connection that all contexts share: a mistyped digit costs every context its composition. While
corrections are shown instead of candidates, or after macOS has reset the panel on activation, the digit may also choose a candidate of the list that is not shown.
`NeverMisaddressed` therefore says nothing of digits; everything else the front ends promise is checked with refused digits among the requests.
A save that begins while the `.pause` of a failed one is still there is unprotected (`lingered`, section 2): no property covers a crash among its temporaries.
And `forget` trims the temporary layer before it saves the other one, so that after a failed save the word is gone from the first and still in
the second; `ForgottenStaysForgotten` speaks of forgets that succeeded.
And forgetting does not withdraw what was accepted. `forget_learning` and `reset_learning` (session.rs:343, 351) release the stable cache, not
`accepted_prediction`, which `accepted_prediction()` filters by the reading alone: when the user accepts a prediction that only learning
knew and then forgets or resets it, the next Zenzai request requires words that no entry spells, the draft is empty and so is the list of candidates, until
the reading is edited. `AlwaysACandidate` failed on this as soon as learning held such a word at the start of a session (the memory outlives sessions);
it now excludes exactly this case (`Spelled`), and everything else is still required to have a candidate.

## 6. Not modelled, and the plan

Next, in this order:

1. Proofs: `ForgottenNotPredicted` of `ConversionSession`. It needs no exact result of a search, only which entries it may take,
   so that the chains of `ZenzaiProofs` would serve, after the typing of the texts and with sets instead of `SelectSeq` and `SortSeq`
   in `ComposingText` and `Lattice`. `AlwaysACandidate` would need in addition that the search misses no covering.
2. The window of nine rows both front ends keep over longer lists (the models show a list whole, so that a row has the number of its candidate); framing (varint, the message limit).
3. The beam of lm_typo.rs against exhaustive search; predictions after a commit (post_prediction.rs).

Left out: in the conversion session the templates, the special, foreign and typographical candidates (lists computed from the
text and appended), automatic predictions and the import of a dynamic user dictionary; lm_typo.rs and ngram.rs (no state between two calls);
reading custom input tables; dictionaries (read-only binary files), text utilities and key tables (pure conversions), configuration
(read once), user interface, packaging. Power loss is not modelled: the code does not call fsync,
so nothing but the death of a process is survived by design.
