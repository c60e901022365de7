---------------------------- MODULE FcitxFrontEnd ----------------------------
(***************************************************************************)
(* The Fcitx5 addon: fcitx5/src/engine.cpp.  A BeanKeyState per input      *)
(* context, one ipc client shared by all of them, and the thread that      *)
(* launches the daemon and polls for it.                                   *)
(*                                                                         *)
(* Fcitx runs every handler on its main thread and a request is            *)
(* synchronous, so a handler is one action, together with the requests it  *)
(* makes.  What happens between two handlers is modelled: the daemon stops *)
(* or retires, the polling thread connects or gives up, and another input  *)
(* context uses, breaks or replaces the connection.                        *)
(*                                                                         *)
(* A handler that makes several requests is the set of worlds it may leave *)
(* behind; a world is the record of all the variables.  XDG_RUNTIME_DIR    *)
(* and the learning directory are taken to be set.                         *)
(***************************************************************************)
EXTENDS SessionRegistry

CONSTANTS
    Contexts,       \* Fcitx input contexts
    MaxFaults       \* bound: lost replies, failing requests, crashes, timeouts

ASSUME FcitxAssumption ==
    /\ IsFiniteSet(Contexts) /\ Contexts # {}
    /\ MaxFaults \in Nat

VARIABLES
    client,        \* client_: is its socket open, does a worker still serve it
    registry,      \* the sessions of that worker
    generation,    \* connectionGeneration_
    preparation,   \* preparing_ and the thread behind it: it is polling; then
                   \* the callback is scheduled with its client (ready, or
                   \* broken if the daemon is gone again) or without (failed)
    cooling,       \* now < retryAfter_
    daemon,        \* the daemon process
    contexts,      \* BeanKeyState of each context
    faults,        \* how many faults happened
    misaddressed,  \* a request missed its session, its turn or its list (history)
    resetAnswered  \* the last step was a reset the daemon answered (history)

vars == <<client, registry, generation, preparation, cooling, daemon, contexts,
          faults, misaddressed, resetAnswered>>

-----------------------------------------------------------------------------
(* Values                                                                  *)

\* BeanKeyState.  normal is normalState_, with whether it would commit text;
\* shows is what candidateIndices_ and selectedCandidate_ hold; owed counts the
\* commits answered to the context and not inserted yet (history).
NewContext ==
    [started |-> FALSE, sid |-> NoSid, next |-> 1, generation |-> 0,
     normal |-> Nothing, normalCommits |-> FALSE,
     shows |-> Nothing, typos |-> 0, owed |-> 0]

World ==
    [client |-> client, registry |-> registry, generation |-> generation,
     preparation |-> preparation, cooling |-> cooling, daemon |-> daemon,
     contexts |-> contexts, faults |-> faults,
     misaddressed |-> misaddressed]

Become(w) ==
    /\ client' = w.client
    /\ registry' = w.registry
    /\ generation' = w.generation
    /\ preparation' = w.preparation
    /\ cooling' = w.cooling
    /\ daemon' = w.daemon
    /\ contexts' = w.contexts
    /\ faults' = w.faults
    /\ misaddressed' = w.misaddressed

Init ==
    /\ client = Closed /\ registry = NoSessions /\ generation = 0
    /\ preparation = "idle" /\ cooling = FALSE
    /\ daemon \in {"down", "fresh"}
    /\ contexts = [c \in Contexts |-> NewContext]
    /\ faults = 0 /\ misaddressed = FALSE /\ resetAnswered = FALSE

-----------------------------------------------------------------------------
(* The ipc client                                                          *)

\* A fault may happen while the bound allows it
Can(w) == w.faults < MaxFaults
Fault(w) == [w EXCEPT !.faults = @ + 1]
IfFault(w, outcomes) == IF Can(w) THEN outcomes ELSE {}

\* Client::disconnect.  The worker sees the end of the stream and drops the
\* sessions of the connection.
Disconnect(w) == [w EXCEPT !.client = Closed, !.registry = NoSessions]

\* A conversion or a file failed in the daemon, or the application gave a cursor
\* outside its text, which fillSurroundingText passes on: counted as a fault
Faulty(reply) == reply.code \in {"Internal", "InvalidText"}
Counted(w, reply) == IF Faulty(reply) THEN Fault(w) ELSE w

\* Client::request.  Any failure closes the socket; without a failure the
\* worker answers.  A commit the daemon has answered is owed to the context.
ClientRequest(w, c, sid, rid, request) ==
    LET owing(v, n) == [v EXCEPT !.contexts[c].owed = n]
        lost == [w |-> owing(Disconnect(w), 1), reply |-> NoReply]
        answers == {a \in Handle(w.registry, sid, rid, request) :
                      Faulty(a.reply) => Can(w)}
    IN  IF ~w.client.open THEN {[w |-> w, reply |-> NoReply]}
        ELSE IF ~w.client.alive THEN {lost}
        ELSE {[w |-> owing([Counted(w, a.reply)
                              EXCEPT !.registry = a.registry,
                                     !.misaddressed =
                                        @ \/ Misaddressed(request, a.reply.code)],
                           IF a.reply.commit THEN 1 ELSE 0),
               reply |-> a.reply] : a \in answers}
             \cup IfFault(w, {[lost EXCEPT !.w = Fault(@)]})

\* Request numbers are only compared with each other: both sides count from the
\* last number the daemon accepted for the session, which keeps them finite.
Rebased(w, c, sid) ==
    IF sid \notin DOMAIN w.registry THEN w
    ELSE [w EXCEPT !.registry[sid].last = 0,
                   !.contexts[c].next = @ - w.registry[sid].last]

\* envelope(), then Client::request
Request(w, c, request) ==
    LET s == w.contexts[c]
    IN  {[o EXCEPT !.w = Rebased(@, c, s.sid)] :
            o \in ClientRequest([w EXCEPT !.contexts[c].next = @ + 1],
                                c, s.sid, s.next, request)}

-----------------------------------------------------------------------------
(* BeanKeyState: the parts the handlers are made of                        *)

ClearUi(w, c) ==
    [w EXCEPT !.contexts[c].normal = Nothing, !.contexts[c].normalCommits = FALSE,
              !.contexts[c].shows = Nothing, !.contexts[c].typos = 0]

Ended(w, c) == ClearUi([w EXCEPT !.contexts[c].started = FALSE, !.contexts[c].sid = NoSid], c)

FailSession(w, c) == Ended(Disconnect(w), c)

\* Mutant: a session is stale only while there is no connection
InvalidateUnconnected(w, c) ==
    IF w.contexts[c].started /\ ~w.client.open THEN Ended(w, c) ELSE w

\* invalidateStaleSession
Invalidate(w, c) ==
    IF /\ w.contexts[c].started
       /\ w.contexts[c].generation # w.generation \/ ~w.client.open
    THEN Ended(w, c) ELSE w

\* Mutant: the state kept for a redraw still commits
ApplyKeepsCommit(w, c, reply) ==
    [w EXCEPT !.contexts[c].typos = 0,
              !.contexts[c].normal = reply.shows,
              !.contexts[c].normalCommits = reply.commit,
              !.contexts[c].shows = reply.shows,
              !.contexts[c].owed = @ - (IF reply.commit THEN 1 ELSE 0)]

\* apply: a state response, or normalState_, becomes the UI of the context
Apply(w, c, reply) ==
    [w EXCEPT !.contexts[c].typos = 0,
              !.contexts[c].normal = reply.shows,
              !.contexts[c].normalCommits = FALSE,
              !.contexts[c].shows = reply.shows,
              !.contexts[c].owed = @ - (IF reply.commit THEN 1 ELSE 0)]

Redraw(w, c) ==
    Apply(w, c, StateReply(w.contexts[c].normal, FALSE, w.contexts[c].normalCommits))

\* send: did the daemon answer with a state, and did it consume the event
Send(w, c, request) ==
    {IF o.reply.kind = "state"
     THEN [w |-> Apply(o.w, c, o.reply), ok |-> o.reply.consumed, answered |-> TRUE]
     ELSE [w |-> FailSession(o.w, c), ok |-> FALSE, answered |-> FALSE] :
        o \in Request(w, c, request)}

-----------------------------------------------------------------------------
(* Connecting                                                              *)

\* client_ is connected to a new worker, with an empty registry
Connect(w) ==
    [w EXCEPT !.client = Connected, !.registry = NoSessions, !.daemon = "serving",
              !.generation = Fresh({@} \cup {w.contexts[c].generation : c \in Contexts})]

\* startProcess and the polling thread
Launch(w) ==
    [w EXCEPT !.preparation = "polling",
              !.daemon = IF @ = "down" THEN "starting" ELSE @]

\* BeanKeyEngine::ensureConnected.  A full backlog refuses a connection too.
EnsureConnected(w) ==
    IF w.client.open THEN {[w |-> w, ok |-> TRUE]}
    ELSE IF w.preparation # "idle" \/ w.cooling THEN {[w |-> w, ok |-> FALSE]}
    ELSE IF w.daemon \notin Up THEN {[w |-> Launch(w), ok |-> FALSE]}
    ELSE {[w |-> Connect(w), ok |-> TRUE]}
         \cup IfFault(w, {[w |-> Launch(Fault(w)), ok |-> FALSE]})

\* The StartSession exchange of start()
Open(w, c) ==
    LET used == DOMAIN w.registry \cup {w.contexts[d].sid : d \in Contexts}
        fresh == [w EXCEPT !.contexts[c].generation = w.generation,
                           !.contexts[c].sid = Fresh(used \ {NoSid}),
                           !.contexts[c].next = 1]
    IN  {IF o.reply.kind = "state"
         THEN [w |-> Apply([o.w EXCEPT !.contexts[c].started = TRUE], c, o.reply), ok |-> TRUE]
         ELSE [w |-> [Disconnect(o.w) EXCEPT !.contexts[c].sid = NoSid], ok |-> FALSE] :
            o \in Request(fresh, c, Plain("Start"))}

Start(w, c) ==
    LET v == Invalidate(w, c)
    IN  IF v.contexts[c].started THEN {[w |-> v, ok |-> TRUE]}
        ELSE UNION {IF e.ok THEN Open(e.w, c) ELSE {e} : e \in EnsureConnected(ClearUi(v, c))}

-----------------------------------------------------------------------------
(* The handlers                                                            *)

Failing(w, c) == {[w |-> FailSession(w, c), ok |-> FALSE, answered |-> FALSE]}
Handled(w) == {[w |-> w, ok |-> TRUE, answered |-> FALSE]}

\* selectCandidate and forgetCandidate: an index of a list that start() threw
\* away is refused here, before it reaches another session
OnCandidate(w, c, kind, i) ==
    UNION {IF s.ok /\ i < s.w.contexts[c].shows.cands
           THEN Send(s.w, c, At(kind, i)) ELSE Failing(s.w, c) : s \in Start(w, c)}

OnTypo(w, c, i) ==
    UNION {IF s.ok /\ i < s.w.contexts[c].typos
           THEN Send(s.w, c, At("SelectTypo", i)) ELSE Failing(s.w, c) : s \in Start(w, c)}

\* The digits that choose one of the rows shown: corrections, or the candidates
\* while selecting
RowDigits(ctx) ==
    IF ctx.typos > 0 THEN 0..(ctx.typos - 1)
    ELSE {j \in Listed(ctx.shows) : ctx.shows.window = "selecting"}

\* processKey.  A digit, or Enter over corrections, chooses from the list that is
\* shown, and a digit beyond its rows is sent as a key; arrows and Space move
\* along the corrections without the daemon.
ProcessKey(w, c) ==
    UNION {IF ~s.ok THEN Failing(s.w, c)
           ELSE LET ctx == s.w.contexts[c]
                IN  (UNION {OnTypo(s.w, c, i) : i \in 0..(ctx.typos - 1)})
                    \cup (UNION {OnCandidate(s.w, c, "Select", i) :
                                   i \in {j \in Listed(ctx.shows) : ctx.shows.window = "selecting"}})
                    \cup (IF ctx.typos > 0 THEN Handled(s.w) ELSE {})
                    \cup (UNION {Send(s.w, c, At("Digit", n)) : n \in Digits \ RowDigits(ctx)})
                    \cup Send(s.w, c, Plain("Key")) :
             s \in Start(w, c)}

\* showTypoCorrections
ShowTypos(w, c, n) ==
    IF n = 0 THEN Redraw(w, c)
    ELSE [w EXCEPT !.contexts[c].typos = n, !.contexts[c].shows = Nothing]

AskTypos(w, c) ==
    UNION {IF ~s.ok THEN Failing(s.w, c)
           ELSE UNION {IF o.reply.kind = "typos"
                       THEN Handled(ShowTypos(o.w, c, o.reply.typos))
                       ELSE Failing(o.w, c) :
                         o \in Request(s.w, c, Plain("RequestTypos"))} :
             s \in Start(w, c)}

ResetMemory(w, c) ==
    UNION {IF s.ok THEN Send(s.w, c, Plain("ResetLearning")) ELSE Failing(s.w, c) :
             s \in Start(w, c)}

\* BeanKeyState::reset.  send() tells whether the event was consumed.
ResetContext(w, c) ==
    LET v == Invalidate(w, c)
    IN  IF ~v.contexts[c].started THEN Handled(ClearUi(v, c))
        ELSE {IF o.ok THEN o ELSE [o EXCEPT !.w = FailSession(@, c)] :
                o \in Send(v, c, Plain("Reset"))}

Enter(w, c) ==
    {IF s.ok /\ s.w.contexts[c].typos > 0 THEN Redraw(s.w, c) ELSE s.w : s \in Start(w, c)}

\* focusOut: commit on a switch of the input method, end the session, forget it
Leave(w, c, commits) ==
    LET v == Invalidate(w, c)
        committed == IF commits /\ v.contexts[c].started
                     THEN {o.w : o \in Send(v, c, Plain("Commit"))} ELSE {v}
    IN  {Ended(u, c) :
           u \in UNION {IF x.contexts[c].started /\ x.client.open
                        THEN {o.w : o \in Request(x, c, Plain("End"))} ELSE {x} :
                          x \in committed}}

-----------------------------------------------------------------------------
(* Actions of the main thread                                              *)

\* The context's session is the one its connection's worker serves
Live(c) ==
    /\ contexts[c].started
    /\ contexts[c].generation = generation
    /\ client.alive

Do(outcomes) == (\E w \in {o.w : o \in outcomes} : Become(w)) /\ resetAnswered' = FALSE

Key(c) == Do(ProcessKey(World, c))

SelectCandidate(c) ==
    \E i \in Listed(contexts[c].shows) : Do(OnCandidate(World, c, "Select", i))

ForgetCandidate(c) ==
    \E i \in Listed(contexts[c].shows) : Do(OnCandidate(World, c, "Forget", i))

SelectTypoCorrection(c) ==
    \E i \in 0..(contexts[c].typos - 1) : Do(OnTypo(World, c, i))

\* An action of a listed candidate
RequestTypoCorrections(c) ==
    /\ Listed(contexts[c].shows) # {}
    /\ Do(AskTypos(World, c))

\* In the status area while the session says there is learning
ResetLearning(c) ==
    /\ contexts[c].started
    /\ Do(ResetMemory(World, c))

Reset(c) ==
    \E o \in ResetContext(World, c) : Become(o.w) /\ resetAnswered' = o.answered

FocusIn(c) == (\E w \in Enter(World, c) : Become(w)) /\ resetAnswered' = FALSE

FocusOut(c) ==
    /\ \E commits \in BOOLEAN : \E w \in Leave(World, c, commits) : Become(w)
    /\ resetAnswered' = FALSE

\* Mutant: the callback of a start that failed leaves preparing_ set
PreparedSticks ==
    /\ preparation \in {"ready", "broken"}
    /\ Become([Connect([World EXCEPT !.preparation = "idle"]) EXCEPT !.cooling = FALSE,
                  !.client.alive = (preparation = "ready"), !.daemon = daemon])
    /\ resetAnswered' = FALSE

\* The callback the polling thread scheduled
Prepared ==
    /\ preparation \in {"ready", "broken", "failed"}
    /\ Become(LET w == [World EXCEPT !.preparation = "idle"]
              IN  IF preparation = "failed" THEN [w EXCEPT !.cooling = TRUE]
                  ELSE [Connect(w) EXCEPT !.cooling = FALSE, !.daemon = daemon,
                                          !.client.alive = (preparation = "ready")])
    /\ resetAnswered' = FALSE

-----------------------------------------------------------------------------
(* The polling thread, the clock and the daemon                            *)

Around(w) == Become(w) /\ resetAnswered' = FALSE

PollConnects ==
    /\ preparation = "polling" /\ daemon \in Up
    /\ Around([World EXCEPT !.preparation = "ready", !.daemon = "serving"])

\* The deadline passes: the daemon is not there, or takes too long (a fault)
PollTimesOut ==
    /\ preparation = "polling"
    /\ daemon = "down" \/ Can(World)
    /\ Around([World EXCEPT !.preparation = "failed",
                            !.faults = IF daemon = "down" THEN @ ELSE @ + 1])

CoolDown == cooling /\ Around([World EXCEPT !.cooling = FALSE])

DaemonReady == daemon = "starting" /\ Around([World EXCEPT !.daemon = "fresh"])

\* Without clients the daemon ends
DaemonRetires ==
    /\ daemon = "serving" /\ ~client.alive /\ preparation # "ready"
    /\ Around([World EXCEPT !.daemon = "down"])

\* It is killed, or cannot start
DaemonDies ==
    /\ daemon # "down" /\ Can(World)
    /\ Around([Fault(World) EXCEPT !.daemon = "down",
                                   !.client.alive = FALSE,
                                   !.registry = NoSessions,
                                   !.preparation = IF @ = "ready" THEN "broken" ELSE @])

\* A key typed while no session is served
KeyUnserved == (\A c \in Contexts : ~Live(c)) /\ \E c \in Contexts : Key(c)

Next ==
    \/ \E c \in Contexts :
          \/ Key(c) \/ SelectCandidate(c) \/ ForgetCandidate(c)
          \/ SelectTypoCorrection(c) \/ RequestTypoCorrections(c)
          \/ ResetLearning(c) \/ Reset(c) \/ FocusIn(c) \/ FocusOut(c)
    \/ Prepared \/ PollConnects \/ PollTimesOut \/ CoolDown
    \/ DaemonReady \/ DaemonRetires \/ DaemonDies

\* While no session is served the user types somewhere; the event loop and the
\* thread run, the clock advances and a daemon that starts gets ready
Fairness ==
    /\ WF_vars(KeyUnserved)
    /\ WF_vars(Prepared) /\ WF_vars(PollConnects) /\ WF_vars(PollTimesOut)
    /\ WF_vars(CoolDown) /\ WF_vars(DaemonReady)

Spec == Init /\ [][Next]_vars /\ Fairness

-----------------------------------------------------------------------------
(* Properties                                                              *)

\* What the addon sends reaches what it was made for: a request never names a
\* session of another connection, never repeats a request number and never
\* chooses from a list the daemon no longer has, although contexts share a
\* connection that any of them may break and that is replaced behind their back
\* (invalidateStaleSession, envelope, the checks of candidateIndices_).  A digit
\* beyond the rows and a cursor outside the text the daemon does refuse.
NeverMisaddressed == ~misaddressed

\* The candidates and corrections a context shows are those its session holds,
\* so that an index means the same on both sides of the socket (apply,
\* showTypoCorrections against display_candidates, typo_corrections).
ShowsItsSession ==
    \A c \in Contexts : Live(c) =>
        /\ contexts[c].sid \in DOMAIN registry
        /\ LET s == registry[contexts[c].sid]
           IN  IF contexts[c].typos > 0 THEN contexts[c].typos = s.typos
               ELSE contexts[c].shows = s.shows

\* No session is left in the daemon that no input context would end (focusOut,
\* and Disconnect on every failure).
NoOrphanSession ==
    \A sid \in DOMAIN registry : \E c \in Contexts : Live(c) /\ contexts[c].sid = sid

\* Text is inserted once per commit: redrawing the list from normalState_ after
\* corrections or on focus does not commit again (normalState_.clear_commit()).
CommitsOnce == \A c \in Contexts : contexts[c].owed >= 0

\* While the user types, a session is served again and again, whatever stopped
\* it: the daemon's end, a lost reply, a start that came too late (ensureConnected,
\* retryAfter_).
KeepsRecovering == []<>(\E c \in Contexts : Live(c))

\* A reset that the daemon answered leaves the connection open: only a
\* connection, a request or an answer that failed is given up (reset()).
AnsweredResetKeepsConnection == resetAnswered => client.open
=============================================================================
