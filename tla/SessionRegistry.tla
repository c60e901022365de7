--------------------------- MODULE SessionRegistry ---------------------------
(***************************************************************************)
(* The daemon as one connection sees it: the sessions its worker owns      *)
(* (Engine::for_connection) and Engine::handle, which answers one envelope *)
(* after the other.                                                        *)
(*                                                                         *)
(* InputEngine models what a request does inside a session.  Here a        *)
(* session is reduced to what the front ends can tell: whether there is    *)
(* text to commit, how many candidates and typo corrections it holds, and  *)
(* the mode of the candidate window; a key may lead to any such session.   *)
(***************************************************************************)
EXTENDS Integers, FiniteSets, FiniteSetsExt

CONSTANTS
    MaxCandidates,   \* bound: candidates of a session
    MaxTypos,        \* bound: typo corrections of a session
    PageSize         \* candidates a digit key can choose from: 9 in the sources

ASSUME RegistryAssumption ==
    /\ MaxCandidates \in Nat \ {0} /\ MaxTypos \in Nat \ {0}
    /\ PageSize \in Nat \ {0}

\* What a session presents: without text no candidates, without candidates no
\* candidate window
Presentations ==
    {p \in [text : BOOLEAN, cands : 0..MaxCandidates,
            window : {"hidden", "preview", "selecting"}] :
        /\ p.cands > 0 => p.text
        /\ p.window # "hidden" => p.cands > 0}

Nothing == [text |-> FALSE, cands |-> 0, window |-> "hidden"]

\* The indices a user can pick: while selecting all candidates are within reach,
\* before that the window previews the first
Listed(p) == {i \in 0..(p.cands - 1) :
                p.window = "selecting" \/ (p.window = "preview" /\ i = 0)}

\* A session: the last request number, what it shows and how many corrections
NoSessions == [sid \in {} |-> Nothing]

Plain(kind) == [kind |-> kind, index |-> 0]
At(kind, i) == [kind |-> kind, index |-> i]

\* The digit keys from 1 on, which choose from the page the selection is on
Digits == 0..(PageSize - 1)

-----------------------------------------------------------------------------
(* Answers                                                                 *)

StateReply(shows, consumed, commit) ==
    [kind |-> "state", code |-> "ok", shows |-> shows,
     consumed |-> consumed, commit |-> commit, typos |-> 0]
TypoReply(n) ==
    [kind |-> "typos", code |-> "ok", shows |-> Nothing,
     consumed |-> FALSE, commit |-> FALSE, typos |-> n]
ErrorReply(code) ==
    [kind |-> "error", code |-> code, shows |-> Nothing,
     consumed |-> FALSE, commit |-> FALSE, typos |-> 0]

\* Client::request gave std::nullopt
NoReply == ErrorReply("Lost")

Result(session, reply) == [session |-> session, reply |-> reply]

\* An error of a handler resets the session it leaves behind.  Code::InvalidPayload
\* has two names here: InvalidPayload is an index outside the list, InvalidText a
\* cursor or anchor outside the surrounding text that came with the request.
Failed(s, code) == Result([s EXCEPT !.shows = Nothing, !.typos = 0], ErrorReply(code))

\* The session after a handler that drops the typo corrections
Shown(s, p) == [s EXCEPT !.shows = p, !.typos = 0]

-----------------------------------------------------------------------------
(* handle_session_request, on a session whose request id was accepted      *)

\* Any key but a digit while selecting: ends with make_state, or with its surrounding text
\* refused, or with the conversion failing
KeyResults(s) ==
    {Result(Shown(s, p), StateReply(p, consumed, commit)) :
        p \in Presentations, consumed \in BOOLEAN, commit \in BOOLEAN}
    \cup {Failed(s, "Internal"), Failed(s, "InvalidText")}

\* select_candidate: the candidate is committed; what it leaves is converted
\* again and previewed
SelectResults(s, i) ==
    IF i < s.shows.cands
    THEN {Result(Shown(s, p), StateReply(p, TRUE, TRUE)) :
            p \in {p \in Presentations : p.window = "hidden"}}
           \cup {Failed(s, "Internal")}
    ELSE {Failed(s, "InvalidPayload")}

\* The digit n + 1 while selecting: it chooses from the page of the selected
\* candidate, which is anywhere in the list.  At any other time a digit is one of
\* the keys of KeyResults.
DigitResults(s, n) ==
    IF s.shows.window = "selecting"
    THEN (UNION {SelectResults(s, start + n) :
                   start \in {k \in 0..(s.shows.cands - 1) : k % PageSize = 0}})
           \cup {Failed(s, "InvalidText")}
    ELSE {}

SelectTypoResults(s, i) ==
    IF i < s.typos
    THEN {Result(Shown(s, Nothing), StateReply(Nothing, TRUE, TRUE))}
    ELSE {Failed(s, "InvalidPayload")}

\* forget_candidate generates the candidates of the same text anew
ForgetResults(s, i) ==
    IF i < s.shows.cands
    THEN {Result(Shown(s, p), StateReply(p, TRUE, FALSE)) :
            p \in {p \in Presentations : p.text = s.shows.text}}
           \cup {Failed(s, "Internal")}
    ELSE {Failed(s, "InvalidPayload")}

ResetLearningResults(s) ==
    {Result(Shown(s, p), StateReply(p, TRUE, FALSE)) :
        p \in {p \in Presentations : p.text = s.shows.text}}
    \cup {Failed(s, "Internal")}

\* Mutant: the corrections are answered but not kept for a later choice
RequestTyposForgets(s) ==
    {Result([s EXCEPT !.typos = 0], TypoReply(n)) :
        n \in IF s.shows.text THEN 0..MaxTypos ELSE {0}}
    \cup {Failed(s, "Internal")}

RequestTyposResults(s) ==
    {Result([s EXCEPT !.typos = n], TypoReply(n)) :
        n \in IF s.shows.text THEN 0..MaxTypos ELSE {0}}
    \cup {Failed(s, "Internal")}

\* consumed is not set: a reset consumes nothing
ResetResults(s) == {Result(Shown(s, Nothing), StateReply(Nothing, FALSE, FALSE))}

CommitResults(s) ==
    {Result(Shown(s, Nothing), StateReply(Nothing, s.shows.text, s.shows.text))}

SessionResults(s, request) ==
    CASE request.kind = "Key"           -> KeyResults(s)
      [] request.kind = "Digit"         -> DigitResults(s, request.index)
      [] request.kind = "Select"        -> SelectResults(s, request.index)
      [] request.kind = "SelectTypo"    -> SelectTypoResults(s, request.index)
      [] request.kind = "Forget"        -> ForgetResults(s, request.index)
      [] request.kind = "ResetLearning" -> ResetLearningResults(s)
      [] request.kind = "RequestTypos"  -> RequestTyposResults(s)
      [] request.kind = "Reset"         -> ResetResults(s)
      [] request.kind = "Commit"        -> CommitResults(s)

-----------------------------------------------------------------------------
(* Engine::handle                                                          *)

Put(registry, sid, s) == [k \in DOMAIN registry \cup {sid} |->
                            IF k = sid THEN s ELSE registry[k]]
Drop(registry, sid) == [k \in DOMAIN registry \ {sid} |-> registry[k]]

Answer(registry, reply) == [registry |-> registry, reply |-> reply]

\* StartSession replaces an older session of the same id.  Its surrounding text
\* may be refused, opening the user dictionary or the learning memory may fail,
\* and then nothing is inserted.
HandleStart(registry, sid, rid) ==
    IF sid \in DOMAIN registry /\ rid <= registry[sid].last
    THEN {Answer(registry, ErrorReply("OutOfOrder"))}
    ELSE {Answer(Put(registry, sid, [last |-> rid, shows |-> Nothing, typos |-> 0]),
                 StateReply(Nothing, FALSE, FALSE)),
          Answer(registry, ErrorReply("InvalidText")),
          Answer(registry, ErrorReply("Internal"))}

\* Mutant: a session that could not save its learning stays registered
HandleEndKeeps(registry, sid) ==
    {Answer(Drop(registry, sid), StateReply(Nothing, FALSE, FALSE)),
     Answer(registry, ErrorReply("Internal"))}

\* EndSession: the session is gone whether or not its learning could be saved
HandleEnd(registry, sid) ==
    {Answer(Drop(registry, sid), StateReply(Nothing, FALSE, FALSE)),
     Answer(Drop(registry, sid), ErrorReply("Internal"))}

Handle(registry, sid, rid, request) ==
    IF request.kind = "Start" THEN HandleStart(registry, sid, rid)
    ELSE IF sid \notin DOMAIN registry
    THEN {Answer(registry, ErrorReply("UnknownSession"))}
    ELSE IF rid <= registry[sid].last
    THEN {Answer(registry, ErrorReply("OutOfOrder"))}
    ELSE IF request.kind = "End" THEN HandleEnd(registry, sid)
    ELSE {Answer(Put(registry, sid, r.session), r.reply) :
            r \in SessionResults([registry[sid] EXCEPT !.last = rid], request)}

-----------------------------------------------------------------------------
(* A connection as its client holds it: is the socket open, and does a     *)
(* worker of a running daemon still serve it                               *)

Closed == [open |-> FALSE, alive |-> FALSE]
Connected == [open |-> TRUE, alive |-> TRUE]

Up == {"fresh", "serving"}    \* states of the daemon; serving: it has accepted a client

NoSid == 0

\* The next session id or connection generation.  The sources count, or make a
\* UUID; as these are only compared for equality, a number that nothing refers
\* to any more may come back.
Fresh(used) == Min((1..(Cardinality(used) + 1)) \ used)

\* The daemon refused a request that did not find its session, its turn or, when
\* it chose from a list, its list.  A digit is typed, not chosen from a list.
Misaddressed(request, code) ==
    \/ code \in {"UnknownSession", "OutOfOrder"}
    \/ code = "InvalidPayload" /\ request.kind # "Digit"
=============================================================================
