----------------------------- MODULE InputEngine -----------------------------
(***************************************************************************)
(* One input session of the daemon: crates/daemon/src/engine.rs.           *)
(*                                                                         *)
(* Every action is one request of the session, handled as a whole under    *)
(* the engine's lock: it reads the session, replaces it, and leaves a      *)
(* reply.  A session is a record, as in the source, and the helpers the    *)
(* source calls on `&mut session` are operators on that record.            *)
(*                                                                         *)
(* Text is abstracted to what it stands for.  A reading is a sequence of   *)
(* characters; a candidate carries how many characters it consumes         *)
(* (composing_count) and, as its text, the reading it was made from.       *)
(* Whatever words the converter finds, committing a candidate therefore    *)
(* shows which part of what the user typed reached the application.        *)
(* The numerals below 10 are the digit keys.                               *)
(***************************************************************************)
EXTENDS Integers, Sequences, FiniteSets, SequencesExt

CONSTANTS
    Letters,      \* the characters the keyboard produces
    SpaceBar,     \* the character the space bar adds to text
    MaxLen,       \* bound: longest reading
    MaxHex,       \* bound: longest code point being entered
    Forms,        \* how many notations Up can reveal (5 in the source)
    PageSize,     \* candidates on a page of the window (9 in the source)
    Corrections   \* readings the language model may propose after Backspace

ASSUME EngineAssumption ==
    /\ Letters \subseteq Nat /\ Letters # {} /\ SpaceBar \in Nat
    /\ MaxLen \in Nat \ {0}
    /\ MaxHex \in Nat
    /\ Forms \in Nat \ {0}
    /\ PageSize \in Nat \ {0}
    /\ Corrections \subseteq Seq(Letters) \ {<< >>}

VARIABLES
    live,      \* config: conversion.live_conversion
    session,   \* SessionState
    reply      \* the last reply: an error, or the parts of StateResponse used here

vars == <<live, session, reply>>

-----------------------------------------------------------------------------
(* The session record and the operations on it                             *)

Option(S) == {<< >>} \cup {<<x>> : x \in S}

Prefix(r, n) == SubSeq(r, 1, n)
Suffix(r, n) == SubSeq(r, n + 1, Len(r))

\* SessionState::default as start_session builds it
NewSession ==
    [mode |-> "None", language |-> "Japanese",
     reading |-> << >>, cursor |-> 0,
     display |-> << >>, remainders |-> << >>,
     selected |-> 0, preview |-> << >>, additional |-> 0,
     segment |-> FALSE, backspaced |-> FALSE,
     prediction |-> << >>, correction |-> << >>, liveCandidate |-> << >>,
     typos |-> << >>, unicode |-> 0]

\* Mutants: clear_presentation forgets the selection, or the list
ClearPresentationKeepsSelected(s) ==
    [s EXCEPT !.display = << >>, !.remainders = << >>, !.preview = << >>,
              !.additional = 0, !.prediction = << >>, !.liveCandidate = << >>]
ClearPresentationKeepsList(s) ==
    [s EXCEPT !.selected = 0, !.preview = << >>, !.additional = 0,
              !.prediction = << >>, !.liveCandidate = << >>]

ClearPresentation(s) ==
    [s EXCEPT !.selected = 0, !.display = << >>, !.remainders = << >>,
              !.preview = << >>, !.additional = 0,
              !.prediction = << >>, !.liveCandidate = << >>]

\* SessionState::reset: only the language survives
Reset(s) == [NewSession EXCEPT !.language = s.language]

CandidateFor(r, n) == [count |-> n, text |-> Prefix(r, n)]

\* ConversionSession::remaining_after_candidate
RemainingAfter(r, c) == Suffix(r, c.count)
Remainders(r, cs) == [i \in DOMAIN cs |-> RemainingAfter(r, cs[i])]

AtEnd(s) == s.cursor = Len(s.reading)

\* ComposingText::insert at the cursor
Insert(s, text) ==
    [s EXCEPT !.reading = Prefix(@, s.cursor) \o text \o Suffix(@, s.cursor),
              !.cursor = @ + Len(text)]

\* ComposingText::delete_backward
DeleteBackward(s, n) ==
    LET left == IF n < s.cursor THEN s.cursor - n ELSE 0
    IN  [s EXCEPT !.reading = Prefix(@, left) \o Suffix(@, s.cursor), !.cursor = left]

\* ComposingText::complete_prefix: a cursor left at the start jumps to the end
CompletePrefix(s, n) ==
    LET rest == Suffix(s.reading, n)
        moved == IF s.cursor > n THEN s.cursor - n ELSE 0
    IN  [s EXCEPT !.reading = rest,
                  !.cursor = IF moved = 0 THEN Len(rest) ELSE moved]

Selected(s) == s.display[s.selected + 1]

\* Mutant: a selected candidate is committed without what it leaves over
MarkedTextBare(s) ==
    IF s.mode = "Selecting" /\ s.selected < Len(s.display) THEN Selected(s).text
    ELSE s.reading

\* current_marked_text: what the preedit shows and a commit sends
MarkedText(s) ==
    CASE s.mode = "Previewing" /\ s.preview # << >> /\ s.preview[1] < Len(s.display)
           -> s.display[s.preview[1] + 1].text
      [] s.mode = "Selecting" /\ s.selected < Len(s.display)
           -> Selected(s).text \o s.remainders[s.selected + 1]
      [] s.mode # "Previewing" /\ s.liveCandidate # << >>
           /\ ~(s.mode = "Selecting" /\ s.selected < Len(s.display))
           -> s.liveCandidate[1].text
      [] OTHER -> s.reading

-----------------------------------------------------------------------------
(* Candidate generation                                                    *)

\* The converter (external to the session): the best main result consumes the
\* whole target.  One more candidate, for any prefix of it, comes as a first
\* clause or as a later main result.
Conversions(target) ==
    LET best == <<CandidateFor(target, Len(target))>>
        others == {CandidateFor(target, n) : n \in 1..Len(target)}
    IN  {[main |-> best, clauses |-> c] : c \in Option(others)}
          \cup {[main |-> Append(best, c), clauses |-> << >>] : c \in others}

\* ConversionSession::desktop_candidates
DesktopCandidates(target, result) ==
    IF \E i \in DOMAIN result.clauses : RemainingAfter(target, result.clauses[i]) = << >>
    THEN result.main
    ELSE result.clauses \o result.main

\* suffix_edit_prediction: delete back to the common prefix, append the rest
SuffixEdit(current, target) ==
    LET shared == Len(LongestCommonPrefix({current, target}))
        edit == [candidate |-> << >>, delete |-> Len(current) - shared,
                 append |-> Suffix(target, shared)]
    IN  IF edit.delete = 0 /\ edit.append = << >> THEN << >> ELSE <<edit>>

\* input_prediction: a pending correction first, else a completion of two
\* characters or more
Predictions(correction, surface) ==
    IF correction # << >> /\ SuffixEdit(surface, correction[1]) # << >>
    THEN {SuffixEdit(surface, correction[1])}
    ELSE {<< >>} \cup
         {<<[candidate |-> <<surface \o <<c>>>>, delete |-> 0, append |-> <<c>>]>> :
            c \in {c \in Letters : Len(surface) >= 2 /\ Len(surface) < MaxLen}}

\* position of a candidate in a list, counted from 0 as in the source
PositionOf(c, cs) ==
    LET i == SelectInSeq(cs, LAMBDA x : x = c) IN IF i = 0 THEN << >> ELSE <<i - 1>>

\* request_candidates_for_active_target, for one result of the converter
WithResult(s, target, result, prediction) ==
    LET best == result.main[1]
        shown == IF s.segment THEN result.main ELSE DesktopCandidates(target, result)
        lives == /\ live /\ s.mode = "Composing" /\ s.language = "Japanese"
                 /\ ~s.segment /\ AtEnd(s) /\ ~s.backspaced /\ Len(s.reading) > 1
        place == PositionOf(best, shown)
    IN  [s EXCEPT !.display = shown,
                  !.remainders = Remainders(s.reading, shown),
                  !.preview = IF RemainingAfter(target, best) = << >>
                              THEN place ELSE << >>,
                  !.additional = 0,
                  !.prediction = prediction,
                  !.selected = IF lives /\ place # << >> THEN place[1] ELSE @,
                  !.liveCandidate = IF lives THEN <<best>> ELSE << >>]

\* Mutant: a correction outlives the run of deletions it belongs to
RequestedKeepsCorrection(s) ==
    LET target == IF s.segment /\ ~AtEnd(s) THEN Prefix(s.reading, s.cursor)
                                            ELSE s.reading
    IN  {WithResult(s, target, result, prediction) :
            result \in Conversions(target), prediction \in Predictions(s.correction, target)}

\* request_candidates_with_context: the sessions a successful request may leave.
\* With a resized segment the converter sees the reading up to the cursor.
Requested(s) ==
    LET kept == IF s.backspaced THEN s.correction ELSE << >>
        target == IF s.segment /\ ~AtEnd(s) THEN Prefix(s.reading, s.cursor)
                                            ELSE s.reading
    IN  {WithResult([s EXCEPT !.correction = kept], target, result, prediction) :
            result \in Conversions(target), prediction \in Predictions(kept, target)}

-----------------------------------------------------------------------------
(* Replies                                                                 *)

NoReply == [request |-> "StartSession", error |-> FALSE, consumed |-> FALSE,
            typed |-> << >>, commit |-> << >>, reset |-> TRUE]

\* make_state for the session left behind.  typed is what the request added to
\* the text, a history variable.
Answer(request, s, consumed, typed, commit, reset) ==
    /\ session' = s
    /\ reply' = [request |-> request, error |-> FALSE, consumed |-> consumed,
                 typed |-> typed, commit |-> commit, reset |-> reset]
    /\ UNCHANGED live

\* Any error of a handler resets the session and answers a ProtocolError.
Refuse(request) ==
    /\ session' = Reset(session)
    /\ reply' = [request |-> request, error |-> TRUE, consumed |-> FALSE,
                 typed |-> << >>, commit |-> << >>, reset |-> FALSE]
    /\ UNCHANGED live

Consumed(request, s) == Answer(request, s, TRUE, << >>, << >>, FALSE)
Ignored(request, s) == Answer(request, s, FALSE, << >>, << >>, FALSE)
\* Mutant: cancelling hides the reading instead of dropping it
CancelledKeepsReading(request, s) ==
    Answer(request, ClearPresentation([s EXCEPT !.mode = "None"]), TRUE, << >>, << >>, TRUE)

Cancelled(request, s) == Answer(request, Reset(s), TRUE, << >>, << >>, TRUE)

\* Handle a request that ends with candidate generation, which may fail
Regenerate(request, results, typed, commit) ==
    \/ \E s \in results : Answer(request, s, TRUE, typed, commit, FALSE)
    \/ Refuse(request)

\* handle_key starts by dropping the typo corrections of the previous reading
Keyed == [session EXCEPT !.typos = << >>]

-----------------------------------------------------------------------------
(* Committing                                                              *)

\* commit_candidate: take the candidate's prefix off the reading, stage what it
\* teaches, and go on with the remainder, or end.
CommitCandidate(request, s, c, remainderMode) ==
    LET done == [ClearPresentation(CompletePrefix(s, c.count))
                    EXCEPT !.backspaced = FALSE, !.correction = << >>]
    IN  \/ /\ done.reading # << >>
           /\ Regenerate(request,
                 Requested([done EXCEPT !.segment = FALSE, !.mode = remainderMode]),
                 << >>, c.text)
        \/ /\ done.reading = << >>
           /\ Answer(request, [done EXCEPT !.mode = "None"], TRUE, << >>, c.text, TRUE)
        \/ Refuse(request)

\* select_candidate_with_remainder_mode
Select(request, s, index, remainderMode) ==
    IF index < Len(s.display)
    THEN CommitCandidate(request, s, s.display[index + 1], remainderMode)
    ELSE Refuse(request)

\* Enter and StartUnicodeInput outside selection: commit the preedit, then reset
CommitMarked(request, s, reset) ==
    \/ Answer(request, s, TRUE, << >>, MarkedText(session), reset)
    \/ Refuse(request)

-----------------------------------------------------------------------------
(* handle_key, by action and mode                                          *)

Composes(s) == s.mode \in {"Composing", "Previewing", "Selecting"}

\* English letters, and full-width Option input, outside a composition
DirectInput(c) ==
    /\ session.mode = "None"
    /\ Answer("Input", Keyed, TRUE, <<c>>, <<c>>, FALSE)

\* Input of a character.  A preview or selection is committed first.  In the
\* candidate window the digit 0 has a branch of its own that does the same.
Input(c) ==
    /\ session.mode \in {"None", "Composing", "Previewing", "Selecting"}
    /\ session.mode = "None" => session.language = "Japanese"
    /\ session.mode = "Selecting" => c = 0 \/ c >= 10
    /\ LET commit == IF session.mode \in {"Previewing", "Selecting"}
                     THEN MarkedText(session) ELSE << >>
           cleared == IF commit # << >> THEN Reset(session) ELSE ClearPresentation(Keyed)
       IN  /\ Len(cleared.reading) < MaxLen
           /\ Regenerate("Input",
                 Requested([Insert([cleared EXCEPT !.segment = FALSE, !.backspaced = FALSE], <<c>>)
                              EXCEPT !.mode = "Composing"]),
                 <<c>>, commit)

\* Another digit in the candidate window picks a candidate of the page the
\* selection is on.
Digit(n) ==
    /\ session.mode = "Selecting" /\ n \in 1..9
    /\ Select("Digit", Keyed, (session.selected \div PageSize) * PageSize + n - 1, "Previewing")

\* Unicode mode handles every key itself
UnicodeKey ==
    /\ session.mode = "Unicode"
    /\ \/ /\ session.unicode < MaxHex
          /\ Consumed("Unicode", [Keyed EXCEPT !.unicode = @ + 1])
       \/ /\ session.unicode > 0
          /\ Consumed("Unicode", [Keyed EXCEPT !.unicode = @ - 1])
       \/ Cancelled("Unicode", session)       \* Escape, Backspace at the start, a bad code
       \/ /\ session.unicode > 0
          /\ \E c \in Letters : Answer("Unicode", Reset(session), TRUE, <<c>>, <<c>>, TRUE)
       \/ Consumed("Unicode", Keyed)

StartUnicodeInput ==
    /\ session.mode # "Unicode"
    /\ LET entered == [Reset(session) EXCEPT !.mode = "Unicode"]
       IN  \/ /\ session.mode = "None"
              /\ Consumed("StartUnicodeInput", [Keyed EXCEPT !.mode = "Unicode", !.unicode = 0])
           \/ /\ session.mode \in {"Composing", "Previewing"}
              /\ CommitMarked("StartUnicodeInput", entered, FALSE)
           \/ /\ session.mode = "Selecting"
              /\ \/ /\ session.selected < Len(session.display)
                    /\ LET c == Selected(session)
                       IN  Answer("StartUnicodeInput", entered, TRUE, << >>,
                                  c.text \o RemainingAfter(session.reading, c), FALSE)
                 \/ Refuse("StartUnicodeInput")

Eisu ==
    /\ session.mode # "Unicode"
    /\ IF session.mode = "Selecting"
       THEN Select("Eisu", [Keyed EXCEPT !.language = "English"], session.selected, "Previewing")
       ELSE Consumed("Eisu", [Keyed EXCEPT !.language = "English"])

Kana ==
    /\ session.mode # "Unicode"
    /\ Consumed("Kana", [Keyed EXCEPT !.language = "Japanese"])

\* Escape steps back one mode; in a composition it throws the reading away
Escape ==
    \/ /\ session.mode = "None" /\ Ignored("Escape", Keyed)
    \/ /\ session.mode = "Composing" /\ Cancelled("Escape", session)
    \/ /\ session.mode = "Previewing"
       /\ Consumed("Escape", [Keyed EXCEPT !.mode = "Composing"])
    \/ /\ session.mode = "Selecting"
       /\ Consumed("Escape",
                   [Keyed EXCEPT !.mode = IF live THEN "Composing" ELSE "Previewing"])

Enter ==
    \/ /\ session.mode \in {"Composing", "Previewing"}
       /\ CommitMarked("Enter", Reset(session), TRUE)
    \/ /\ session.mode = "Selecting"
       /\ Select("Enter", Keyed, session.selected, "Previewing")

\* The language-model correction offered after a deletion
Corrected(s, target) ==
    LET t == [s EXCEPT !.correction = target]
        edit == IF target = << >> THEN << >> ELSE SuffixEdit(s.reading, target[1])
    IN  CASE target = << >> -> t
          [] edit = << >> -> [t EXCEPT !.correction = << >>]
          [] OTHER -> [t EXCEPT !.prediction = edit]

Backspace ==
    /\ session.mode # "Unicode" /\ session.reading # << >>
    /\ LET shorter == [DeleteBackward([Keyed EXCEPT !.cursor = Len(session.reading)], 1)
                          EXCEPT !.segment = FALSE, !.backspaced = TRUE]
           again == [ClearPresentation(shorter) EXCEPT !.mode = "Composing"]
       IN  \/ /\ shorter.reading = << >>
              /\ Cancelled("Backspace", session)
           \/ /\ shorter.reading # << >>
              /\ \E target \in IF again.correction # << >> THEN {again.correction}
                               ELSE Option(Corrections) :
                    Regenerate("Backspace",
                       {Corrected([s EXCEPT !.liveCandidate = << >>], target) : s \in Requested(again)},
                       << >>, << >>)

\* Space: outside input a blank, in English input a blank of the reading,
\* otherwise one step towards the candidate window or along it.
Space ==
    \/ /\ session.mode = "None"
       /\ Answer("Space", Keyed, TRUE, <<SpaceBar>>, <<SpaceBar>>, FALSE)
    \/ /\ session.mode = "Composing" /\ session.language = "English"
       /\ Len(session.reading) < MaxLen
       /\ Answer("Space",
             ClearPresentation([Insert(Keyed, <<SpaceBar>>)
                EXCEPT !.segment = FALSE, !.backspaced = FALSE, !.correction = << >>]),
             TRUE, <<SpaceBar>>, << >>, FALSE)
    \/ /\ session.mode = "Composing" /\ session.language = "Japanese" /\ live
       /\ Regenerate("Space",
             {[s EXCEPT !.selected = 0] :
                s \in Requested([Keyed EXCEPT !.backspaced = FALSE, !.mode = "Selecting"])},
             << >>, << >>)
    \/ /\ session.mode = "Composing" /\ session.language = "Japanese" /\ ~live
       /\ Regenerate("Space",
             {[s EXCEPT !.selected = IF s.preview = << >> THEN 0 ELSE s.preview[1]] :
                s \in Requested([Keyed EXCEPT !.backspaced = FALSE, !.mode = "Previewing"])},
             << >>, << >>)
    \/ /\ session.mode = "Previewing"
       /\ Regenerate("Space",
             {[s EXCEPT !.mode = "Selecting", !.selected = 0] : s \in Requested(Keyed)},
             << >>, << >>)

\* Space and Down in the candidate window, Shift+Space
Advance ==
    /\ session.mode = "Selecting"
    /\ Consumed("Advance",
          [Keyed EXCEPT !.selected = IF session.display = << >> THEN @
                ELSE IF @ + 1 < Len(session.display) THEN @ + 1
                ELSE Len(session.display) - 1])

Retreat(s) == [s EXCEPT !.selected = IF @ = 0 THEN 0 ELSE @ - 1]

ShiftSpace ==
    /\ session.mode = "Selecting"
    /\ Consumed("ShiftSpace", IF session.display = << >> THEN Keyed ELSE Retreat(Keyed))

Down ==
    /\ session.mode \in {"Composing", "Previewing"}
    /\ Regenerate("Down",
          {[s EXCEPT !.mode = "Selecting", !.selected = 0] :
             s \in Requested([Keyed EXCEPT !.backspaced = FALSE])},
          << >>, << >>)

\* reveal_additional_candidate: one more notation of the first regular
\* candidate, or of the whole reading, in front of the list
Reveal(s) ==
    LET base == Suffix(s.display, s.additional)
        form == IF base = << >> THEN CandidateFor(s.reading, Len(s.reading)) ELSE base[1]
        count == IF s.additional + 1 < Forms THEN s.additional + 1 ELSE Forms
        shown == [i \in 1..count |-> form] \o base
    IN  [s EXCEPT !.display = shown, !.remainders = Remainders(s.reading, shown),
                  !.additional = count, !.selected = 0]

Up ==
    \/ /\ session.mode = "Selecting"
       /\ Consumed("Up", IF session.selected = 0 /\ session.additional < Forms
                         THEN Reveal(Keyed) ELSE Retreat(Keyed))
    \/ /\ session.mode \in {"Composing", "Previewing"} /\ Consumed("Up", Keyed)
    \/ /\ session.mode = "None" /\ Ignored("Up", Keyed)

\* Shift+Left and Shift+Right resize the first segment
Resize(right) ==
    /\ Composes(session)
    /\ LET total == Len(session.reading)
           from == IF session.mode = "Selecting" /\ session.selected < Len(session.remainders)
                   THEN Selected(session).count ELSE session.cursor
           to == IF right THEN (IF from >= total THEN 1 ELSE from + 1)
                          ELSE (IF from <= 1 THEN 1 ELSE from - 1)
           resized == [ClearPresentation(Keyed) EXCEPT !.cursor = to, !.segment = TRUE,
                          !.backspaced = FALSE, !.mode = "Selecting"]
       IN  Regenerate("Resize",
              {[s EXCEPT !.liveCandidate = << >>] : s \in Requested(resized)}, << >>, << >>)

Right ==
    /\ session.mode = "Selecting"
    /\ Select("Right", Keyed, session.selected, "Selecting")

\* Tab takes the prediction shown with the composition into the reading
Tab ==
    /\ Composes(session)
    /\ \/ /\ session.mode # "Composing" \/ session.prediction = << >>
          /\ Consumed("Tab", Keyed)
       \/ /\ session.mode = "Composing" /\ session.prediction # << >>
          /\ LET p == session.prediction[1]
                 keyed == [Keyed EXCEPT !.backspaced = FALSE]
             IN  \/ /\ p.candidate # << >>
                    /\ \/ /\ AtEnd(session) /\ IsStrictPrefix(session.reading, p.candidate[1])
                          /\ Regenerate("Tab",
                                Requested(Insert(keyed, Suffix(p.candidate[1], Len(session.reading)))),
                                << >>, << >>)
                       \/ /\ ~(AtEnd(session) /\ IsStrictPrefix(session.reading, p.candidate[1]))
                          /\ Consumed("Tab", keyed)
                 \/ /\ p.candidate = << >>
                    /\ Regenerate("Tab",
                          Requested([Insert(DeleteBackward(keyed, p.delete), p.append)
                              EXCEPT !.correction = << >>, !.backspaced = p.append = << >>]),
                          << >>, << >>)

\* F6 to F10: commit the selected candidate's reading, or all of it, in a notation
Transform ==
    /\ Composes(session)
    /\ CommitCandidate("Transform", Keyed,
          IF session.mode = "Selecting" /\ session.selected < Len(session.display)
          THEN Selected(session) ELSE CandidateFor(session.reading, Len(session.reading)),
          "Selecting")

\* Arrow keys in a composition, Consume, and everything no handler takes
OtherKey ==
    \/ /\ Composes(session) /\ Consumed("Other", Keyed)
    \/ /\ session.mode # "Unicode" /\ Ignored("Other", Keyed)

-----------------------------------------------------------------------------
(* The other requests of handle_session_request                            *)

\* A front end selects by index; its list may be out of date
SelectCandidate(index) == Select("SelectCandidate", Keyed, index, "Previewing")

RequestTypoCorrections ==
    \/ \E found \in {<< >>, <<session.reading>>} :
          Consumed("RequestTypoCorrections", [session EXCEPT !.typos = found])
    \/ Refuse("RequestTypoCorrections")

SelectTypoCorrection(index) ==
    IF index < Len(session.typos)
    THEN Answer("SelectTypoCorrection", Reset(session), TRUE, << >>,
                session.typos[index + 1], TRUE)
    ELSE Refuse("SelectTypoCorrection")

ForgetCandidate(index) ==
    IF index < Len(session.display)
    THEN Regenerate("ForgetCandidate",
            Requested([Keyed EXCEPT !.selected = 0, !.liveCandidate = << >>]), << >>, << >>)
    ELSE Refuse("ForgetCandidate")

ResetLearning ==
    LET s == [Keyed EXCEPT !.selected = 0, !.liveCandidate = << >>]
    IN  \/ session.reading # << >> /\ Regenerate("ResetLearning", Requested(s), << >>, << >>)
        \/ session.reading = << >> /\ Consumed("ResetLearning", s)

\* page_candidates: a bad page is refused without touching the session
PageCandidates(next) ==
    \/ Consumed("PageCandidates",
          [session EXCEPT !.liveCandidate = << >>,
              !.selected = IF session.display = << >> THEN @
                           ELSE IF next
                                THEN IF @ + PageSize < Len(session.display)
                                     THEN @ + PageSize ELSE Len(session.display) - 1
                                ELSE IF @ > PageSize THEN @ - PageSize ELSE 0])
    \/ /\ reply' = [request |-> "PageCandidates", error |-> TRUE, consumed |-> FALSE,
                    typed |-> << >>, commit |-> << >>, reset |-> FALSE]
       /\ UNCHANGED <<live, session>>

\* Focus loss: commit what the preedit shows, teach nothing
CommitComposition ==
    LET commit == MarkedText(session)
    IN  Answer("CommitComposition", Reset(session), commit # << >>, << >>, commit,
               commit # << >>)

ResetSession == Answer("ResetSession", Reset(session), FALSE, << >>, << >>, TRUE)

\* A session may be started over under its own name
StartSession == Answer("StartSession", NewSession, FALSE, << >>, << >>, TRUE)

-----------------------------------------------------------------------------
Indexes == 0..(Forms + 2)

Init == live \in BOOLEAN /\ session = NewSession /\ reply = NoReply

Key ==
    \/ \E c \in Letters : DirectInput(c) \/ Input(c) \/ Digit(c)
    \/ UnicodeKey \/ StartUnicodeInput \/ Eisu \/ Kana \/ Escape \/ Enter \/ Backspace
    \/ Space \/ Advance \/ ShiftSpace \/ Down \/ Up
    \/ \E right \in BOOLEAN : Resize(right)
    \/ Right \/ Tab \/ Transform \/ OtherKey

Next ==
    \/ Key
    \/ \E i \in Indexes : SelectCandidate(i) \/ SelectTypoCorrection(i) \/ ForgetCandidate(i)
    \/ RequestTypoCorrections \/ ResetLearning
    \/ \E next \in BOOLEAN : PageCandidates(next)
    \/ CommitComposition \/ ResetSession \/ StartSession

Spec == Init /\ [][Next]_vars

-----------------------------------------------------------------------------
(* Properties                                                              *)

\* A session composes exactly while it has a reading: no handler leaves text
\* behind in a mode that shows none, or an empty preedit in a mode that has one.
ModeMatchesReading == Composes(session) <=> session.reading # << >>

\* While the candidate window is open the highlighted row exists and has its
\* remainder: Enter, Right, Forget and the digit keys index both lists with it.
\* reveal_additional_candidate slices the list at additional_candidate_count:
\* the revealed notations are always really in front of the list.
IndexesInRange ==
    /\ session.mode = "Selecting" =>
         /\ session.selected < Len(session.display)
         /\ Len(session.remainders) = Len(session.display)
    /\ session.additional > 0 =>
         /\ session.additional < Len(session.display)
         /\ \A i \in 1..session.additional :
               session.display[i].count = session.display[session.additional + 1].count

\* Whatever is presented was made for the reading as it is now: a candidate
\* followed by its remainder spells the reading, and so does a live candidate.
PresentationFresh ==
    /\ \A i \in DOMAIN session.display :
         /\ i \in DOMAIN session.remainders
         /\ session.display[i].text \o session.remainders[i] = session.reading
    /\ \A i \in DOMAIN session.liveCandidate :
         session.liveCandidate[i].text = session.reading

\* Typo corrections are offered for the reading they were computed from; one
\* selected later replaces exactly that reading.  A correction offered with the
\* composition, applied by Tab, still leads from the reading as it is now to the
\* reading the language model proposed.
CorrectionsFresh ==
    /\ \A i \in DOMAIN session.typos : session.typos[i] = session.reading
    /\ \A i \in DOMAIN session.prediction :
         LET p == session.prediction[i]
         IN  session.mode = "Composing" /\ p.candidate = << >> =>
                /\ AtEnd(session)
                /\ session.correction # << >>
                /\ Prefix(session.reading, Len(session.reading) - p.delete) \o p.append
                     = session.correction[1]

\* The requests that exist to remove or replace text
Deletes == {"Backspace", "Escape", "ResetSession", "StartSession", "Tab", "SelectTypoCorrection"}

\* Every other request that succeeds keeps all that was typed, in order: what it
\* commits followed by what is left to convert is the reading, with the typed
\* character put in.  The one exception, a preview that no longer covers the
\* reading, is the subject of EnterKeepsTheRest.
NothingTypedIsLost ==
    [][ \/ reply'.error
        \/ reply'.request \in Deletes
        \/ session.mode = "Previewing" /\ MarkedText(session) # session.reading
        \/ \E n \in 0..Len(session.reading) :
              reply'.commit \o session'.reading
                = Prefix(session.reading, n) \o reply'.typed \o Suffix(session.reading, n)
      ]_vars

\* Enter commits the preedit, and what it does not cover stays to be converted:
\* docs/usage.md on Enter.
EnterKeepsTheRest ==
    [][reply'.request = "Enter" /\ ~reply'.error =>
          reply'.commit \o session'.reading = session.reading]_vars
=============================================================================
