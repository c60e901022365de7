----------------------------- MODULE MacFrontEnd -----------------------------
(***************************************************************************)
(* The macOS input method: a BKInputSession per controller                 *)
(* (macos/src/input_session.mm) over one BKDaemonConnection                *)
(* (daemon_connection.mm), with the state of the candidate panel that      *)
(* decides what is sent.                                                   *)
(*                                                                         *)
(* Composition is confined to the main thread and a request is             *)
(* synchronous, so an event is one action with the requests it makes.  A   *)
(* background block connects, launching the daemon when it has to, and     *)
(* hands its client over in a block on the main queue.                     *)
(*                                                                         *)
(* As in FcitxFrontEnd a handler is the set of worlds it may leave behind. *)
(***************************************************************************)
EXTENDS SessionRegistry

CONSTANTS
    Controllers,    \* IMKInputControllers
    MaxFaults       \* bound: lost replies, failing requests, refused digits,
                    \* crashes, timeouts

ASSUME MacAssumption ==
    /\ IsFiniteSet(Controllers) /\ Controllers # {}
    /\ MaxFaults \in Nat

VARIABLES
    client,        \* _client
    registry,      \* the sessions of the worker behind it
    generation,    \* _generation of the connection
    preparation,   \* _preparing, and the blocks of prepare: the background
                   \* block works or has launched a daemon; then its result
                   \* waits on the main queue (ready, broken or failed)
    expected,      \* the generation those blocks captured
    daemon,        \* the daemon process
    sessions,      \* BKInputSession of each controller
    faults,        \* how many faults happened
    outdated       \* the daemon did not know the session or the request number (history)

vars == <<client, registry, generation, preparation, expected, daemon, sessions,
          faults, outdated>>

-----------------------------------------------------------------------------
(* Values                                                                  *)

\* BKInputSession: state is what _state presents, panel what the panel lists,
\* marked whether the application shows marked text (external).  client: there
\* is a _textClient.
NewSession ==
    [sid |-> NoSid, next |-> 1, generation |-> 0, state |-> Nothing,
     panel |-> Nothing, typos |-> 0, client |-> FALSE, marked |-> FALSE]

World ==
    [client |-> client, registry |-> registry, generation |-> generation,
     preparation |-> preparation, expected |-> expected, daemon |-> daemon,
     sessions |-> sessions, faults |-> faults, outdated |-> outdated]

Become(w) ==
    /\ client' = w.client
    /\ registry' = w.registry
    /\ generation' = w.generation
    /\ preparation' = w.preparation
    /\ expected' = w.expected
    /\ daemon' = w.daemon
    /\ sessions' = w.sessions
    /\ faults' = w.faults
    /\ outdated' = w.outdated

Init ==
    /\ client = Closed /\ registry = NoSessions /\ generation = 0
    /\ preparation = "idle" /\ expected = 0
    /\ daemon \in {"down", "fresh"}
    /\ sessions = [c \in Controllers |-> NewSession]
    /\ faults = 0 /\ outdated = FALSE

-----------------------------------------------------------------------------
(* BKDaemonConnection                                                      *)

Can(w) == w.faults < MaxFaults
Fault(w) == [w EXCEPT !.faults = @ + 1]
IfFault(w, outcomes) == IF Can(w) THEN outcomes ELSE {}

\* disconnect: the worker drops its sessions, the generation moves on
Disconnect(w) ==
    [w EXCEPT !.client = Closed, !.registry = NoSessions,
              !.generation = Fresh({@, w.expected} \cup
                                   {w.sessions[c].generation : c \in Controllers})]

\* prepare
Prepare(w) ==
    IF w.client.open \/ w.preparation # "idle" THEN w
    ELSE [w EXCEPT !.preparation = "working", !.expected = w.generation]

\* A request failed in the daemon, or a digit missed its list: counted as a fault
Faulty(request, reply) ==
    \/ reply.code = "Internal"
    \/ reply.code = "InvalidPayload" /\ request.kind = "Digit"

\* request: no answer, or an error for an answer, closes the connection.  The
\* surrounding text is never refused: surroundingText checks its offsets.
ConnectionRequest(w, sid, rid, request) ==
    LET lost == [w |-> Disconnect(w), reply |-> NoReply]
        answers == {a \in Handle(w.registry, sid, rid, request) :
                      /\ Faulty(request, a.reply) => Can(w)
                      /\ a.reply.code # "InvalidText"}
        seen(a) == [(IF Faulty(request, a.reply) THEN Fault(w) ELSE w)
                      EXCEPT !.registry = a.registry,
                             !.outdated = @ \/ a.reply.code \in {"UnknownSession", "OutOfOrder"}]
    IN  IF ~w.client.open THEN {[w |-> w, reply |-> NoReply]}
        ELSE IF ~w.client.alive THEN {lost}
        ELSE {[w |-> IF a.reply.kind = "error" THEN Disconnect(seen(a)) ELSE seen(a),
               reply |-> a.reply] : a \in answers}
             \cup IfFault(w, {[lost EXCEPT !.w = Fault(@)]})

-----------------------------------------------------------------------------
(* BKInputSession: the parts the handlers are made of                      *)

\* Request numbers are only compared with each other: both sides count from the
\* last number the daemon accepted for the session, which keeps them finite.
Rebased(w, c, sid) ==
    IF sid \notin DOMAIN w.registry THEN w
    ELSE [w EXCEPT !.registry[sid].last = 0,
                   !.sessions[c].next = @ - w.registry[sid].last]

\* Mutant: the request number stays
RequestUnnumbered(w, c, request) ==
    LET s == w.sessions[c]
    IN  {[o EXCEPT !.w = Rebased(@, c, s.sid)] :
            o \in ConnectionRequest(w, s.sid, s.next, request)}

\* envelope, then request
Request(w, c, request) ==
    LET s == w.sessions[c]
    IN  {[o EXCEPT !.w = Rebased(@, c, s.sid)] :
            o \in ConnectionRequest([w EXCEPT !.sessions[c].next = @ + 1],
                                    s.sid, s.next, request)}

PanelReset(w, c) == [w EXCEPT !.sessions[c].panel = Nothing, !.sessions[c].typos = 0]

\* Mutant: the marked text stays in the application
ClearKeepsMarked(w, c) ==
    PanelReset([w EXCEPT !.sessions[c].state = Nothing, !.sessions[c].sid = NoSid], c)

\* clear: marked text is removed if there was any and there is a text client
Clear(w, c) ==
    LET s == w.sessions[c]
    IN  PanelReset([w EXCEPT !.sessions[c].marked = @ /\ ~(s.client /\ s.state.text),
                             !.sessions[c].state = Nothing,
                             !.sessions[c].sid = NoSid], c)

Fail(w, c) == Clear(Disconnect(w), c)

\* start
Open(w, c) ==
    LET used == DOMAIN w.registry \cup {w.sessions[d].sid : d \in Controllers}
        fresh == [w EXCEPT !.sessions[c].generation = w.generation,
                           !.sessions[c].sid = Fresh(used \ {NoSid}),
                           !.sessions[c].next = 1]
    IN  {IF o.reply.kind = "state"
         THEN [w |-> [o.w EXCEPT !.sessions[c].state = o.reply.shows], ok |-> TRUE]
         ELSE [w |-> Fail(o.w, c), ok |-> FALSE] :
            o \in Request(fresh, c, Plain("Start"))}

Current(w, c) ==
    IF w.sessions[c].generation # w.generation THEN Clear(w, c) ELSE w

\* Mutant: a start without a connection fails the session
StartFails(w, c) ==
    LET v == Current(w, c)
    IN  IF v.sessions[c].sid # NoSid THEN {[w |-> v, ok |-> TRUE]}
        ELSE IF ~v.client.open THEN {[w |-> Fail(Prepare(v), c), ok |-> FALSE]}
        ELSE Open(v, c)

Start(w, c) ==
    LET v == Current(w, c)
    IN  IF v.sessions[c].sid # NoSid THEN {[w |-> v, ok |-> TRUE]}
        ELSE IF ~v.client.open THEN {[w |-> Prepare(v), ok |-> FALSE]}
        ELSE Open(v, c)

\* showState: the panel lists the state's candidates, or nothing while hidden
ShowState(w, c) ==
    [w EXCEPT !.sessions[c].typos = 0, !.sessions[c].panel = w.sessions[c].state]

\* applyText inserts the commit and replaces the marked text, then _state and
\* the panel follow
Shows(w, c, reply) ==
    ShowState([w EXCEPT !.sessions[c].marked =
                            IF reply.shows.text THEN TRUE
                            ELSE @ /\ ~reply.commit /\ ~w.sessions[c].state.text,
                        !.sessions[c].state = reply.shows], c)

\* send: applyText refuses a cursor outside the preedit
Send(w, c, request) ==
    UNION {IF o.reply.kind = "state"
           THEN {Shows(o.w, c, o.reply)} \cup IfFault(o.w, {Fail(Fault(o.w), c)})
           ELSE {Fail(o.w, c)} : o \in Request(w, c, request)}

-----------------------------------------------------------------------------
(* The handlers                                                            *)

\* select: a correction if the panel lists corrections after start
Select(w, c, i) ==
    UNION {IF ~s.ok THEN {s.w}
           ELSE Send(s.w, c, At(IF s.w.sessions[c].typos > 0 THEN "SelectTypo" ELSE "Select", i)) :
             s \in Start(w, c)}

SendStarted(w, c, request) ==
    UNION {IF s.ok THEN Send(s.w, c, request) ELSE {s.w} : s \in Start(w, c)}

\* requestTypos: no corrections bring the state back
ShowTypos(w, c, n) ==
    IF n = 0 THEN ShowState(w, c)
    ELSE [w EXCEPT !.sessions[c].typos = n, !.sessions[c].panel = Nothing]

AskTypos(w, c) ==
    UNION {IF ~s.ok THEN {s.w}
           ELSE {IF o.reply.kind = "typos" THEN ShowTypos(o.w, c, o.reply.typos)
                 ELSE Fail(o.w, c) : o \in Request(s.w, c, Plain("RequestTypos"))} :
             s \in Start(w, c)}

\* candidateForDigit: the digits that choose one of the panel's rows
RowDigits(me) ==
    IF me.typos > 0 THEN 0..(me.typos - 1)
    ELSE {j \in Listed(me.panel) : me.panel.window = "selecting"}

\* handleEvent.  A digit, or Enter over corrections, chooses from the panel, and a
\* digit beyond its rows is sent as a key; arrows and Space move along the
\* corrections without the daemon.
HandleEvent(w, c) ==
    UNION {IF ~s.ok THEN {Clear(s.w, c)}
           ELSE LET me == s.w.sessions[c]
                IN  (UNION {Select(s.w, c, i) : i \in RowDigits(me)})
                    \cup (IF me.typos > 0 THEN {s.w} ELSE {})
                    \cup (UNION {Send(s.w, c, At("Digit", n)) : n \in Digits \ RowDigits(me)})
                    \cup Send(s.w, c, Plain("Key")) :
             s \in Start([w EXCEPT !.sessions[c].client = TRUE], c)}

\* commit
Commit(w, c) ==
    LET v == [w EXCEPT !.sessions[c].client = TRUE]
    IN  IF v.sessions[c].sid = NoSid \/ v.sessions[c].generation # v.generation
        THEN {Clear(v, c)}
        ELSE Send(v, c, Plain("Commit"))

\* deactivate: commit, end the session if it is still there, forget it
Leave(w, c) ==
    {[Clear(u, c) EXCEPT !.sessions[c].client = FALSE] :
        u \in UNION {IF v.sessions[c].sid # NoSid /\ v.client.open
                     THEN {o.w : o \in Request(v, c, Plain("End"))} ELSE {v} :
                       v \in Commit(w, c)}}

-----------------------------------------------------------------------------
(* Actions of the main thread                                              *)

\* The session is the one the connection's worker serves
Live(c) ==
    /\ sessions[c].sid # NoSid
    /\ sessions[c].generation = generation
    /\ client.alive

Do(outcomes) == \E w \in outcomes : Become(w)

ActivateServer(c) == Do({Prepare(PanelReset(World, c))})

Key(c) == Do(HandleEvent(World, c))

ClickCandidate(c) ==
    /\ sessions[c].client
    /\ \E i \in IF sessions[c].typos > 0 THEN 0..(sessions[c].typos - 1)
                ELSE Listed(sessions[c].panel) : Do(Select(World, c, i))

ForgetCandidate(c) ==
    /\ sessions[c].client
    /\ \E i \in Listed(sessions[c].panel) : Do(SendStarted(World, c, At("Forget", i)))

RequestTypos(c) ==
    /\ sessions[c].client /\ Listed(sessions[c].panel) # {}
    /\ Do(AskTypos(World, c))

\* The menu item is enabled while the state says there is learning
ResetLearning(c) ==
    /\ sessions[c].client /\ sessions[c].sid # NoSid
    /\ Do(SendStarted(World, c, Plain("ResetLearning")))

\* Also a key with Command
CommitComposition(c) == Do(Commit(World, c))

DeactivateServer(c) == Do(Leave(World, c))

\* Mutant: every client is taken for one of an older generation
HandOverNever ==
    /\ preparation \in {"ready", "broken", "failed"}
    /\ Become([World EXCEPT !.preparation = "idle"])

\* The block on the main queue: a client made for an older generation is dropped
HandOver ==
    /\ preparation \in {"ready", "broken", "failed"}
    /\ LET taken == expected = generation /\ preparation # "failed"
       IN  Become([World EXCEPT !.preparation = "idle",
                                !.registry = IF taken THEN NoSessions ELSE @,
                                !.client = IF taken
                                           THEN [open |-> TRUE, alive |-> preparation = "ready"]
                                           ELSE @])

-----------------------------------------------------------------------------
(* The background block, the clock and the daemon                          *)

Connects ==
    /\ preparation \in {"working", "launched"} /\ daemon \in Up
    /\ Become([World EXCEPT !.preparation = "ready", !.daemon = "serving"])

\* connectOnce failed: launch, then poll
Launches ==
    /\ preparation = "working" /\ daemon \notin Up
    /\ Become([World EXCEPT !.preparation = "launched",
                            !.daemon = IF @ = "down" THEN "starting" ELSE @])

\* 30 seconds pass: the daemon is not there, or takes too long (a fault)
TimesOut ==
    /\ preparation = "launched"
    /\ daemon = "down" \/ Can(World)
    /\ Become([World EXCEPT !.preparation = "failed",
                            !.faults = IF daemon = "down" THEN @ ELSE @ + 1])

DaemonReady == daemon = "starting" /\ Become([World EXCEPT !.daemon = "fresh"])

DaemonRetires ==
    /\ daemon = "serving" /\ ~client.alive /\ preparation # "ready"
    /\ Become([World EXCEPT !.daemon = "down"])

DaemonDies ==
    /\ daemon # "down" /\ Can(World)
    /\ Become([Fault(World) EXCEPT !.daemon = "down",
                                   !.client.alive = FALSE,
                                   !.registry = NoSessions,
                                   !.preparation = IF @ = "ready" THEN "broken" ELSE @])

\* A key typed while no session is served
KeyUnserved == (\A c \in Controllers : ~Live(c)) /\ \E c \in Controllers : Key(c)

Next ==
    \/ \E c \in Controllers :
          \/ ActivateServer(c) \/ Key(c) \/ ClickCandidate(c) \/ ForgetCandidate(c)
          \/ RequestTypos(c) \/ ResetLearning(c) \/ CommitComposition(c)
          \/ DeactivateServer(c)
    \/ HandOver \/ Connects \/ Launches \/ TimesOut
    \/ DaemonReady \/ DaemonRetires \/ DaemonDies

\* While no session is served the user types somewhere; the queues run, the
\* clock advances and a daemon that starts gets ready
Fairness ==
    /\ WF_vars(KeyUnserved)
    /\ WF_vars(HandOver) /\ WF_vars(Connects) /\ WF_vars(Launches)
    /\ WF_vars(TimesOut) /\ WF_vars(DaemonReady)

Spec == Init /\ [][Next]_vars /\ Fairness

-----------------------------------------------------------------------------
(* Properties                                                              *)

\* After the connection changed an old session is not used: the daemon is never
\* asked about a session it does not have or with a number it has seen
\* (start, commit and deactivate against _connection.generation).
OldSessionUnused == ~outdated

\* What the panel lists is what the session holds, or less; so an index picked
\* from it means the same candidate, or the same correction, to the daemon
\* (showState, showTypos and reset of the panel).
PanelWithinSession ==
    \A c \in Controllers : Live(c) =>
        /\ sessions[c].sid \in DOMAIN registry
        /\ LET s == registry[sessions[c].sid]
           IN  /\ sessions[c].state = s.shows
               /\ sessions[c].panel \in {Nothing, s.shows}
               /\ sessions[c].typos \in {0, s.typos}

\* The application shows marked text exactly while the session has some: a
\* failure, a lost connection or a deactivation leaves no marked text behind
\* that nothing would ever remove (clear, applyText).
MarkedWhileComposing ==
    \A c \in Controllers : sessions[c].marked = sessions[c].state.text

\* Nothing disconnects while a connection is being prepared, so that its result
\* is never thrown away and the daemon never loses its first client unused
\* (prepare, start).
PreparationUsed ==
    preparation # "idle" => expected = generation /\ ~client.open

\* While the user types, a session is served again and again, whatever stopped
\* it: the daemon's end, a lost reply, a start that came too late (prepare).
KeepsRecovering == []<>(\E c \in Controllers : Live(c))
=============================================================================
