-------------------------- MODULE MacFrontEndProofs --------------------------
(***************************************************************************)
(* Proofs about MacFrontEnd, for every finite set of controllers, any      *)
(* length of the lists and any number of faults: an old session is never   *)
(* used, the panel lists what the session holds, marked text is shown      *)
(* exactly while there is some, and a connection that is being prepared is *)
(* used.                                                                   *)
(*                                                                         *)
(* As in FcitxFrontEndProofs the invariant Good is a predicate on worlds.  *)
(* Here disconnect moves the generation on, so that a lost connection ends *)
(* every session at once.                                                  *)
(***************************************************************************)
EXTENDS MacFrontEnd, SessionRegistryProofs

Clients == [open : BOOLEAN, alive : BOOLEAN]
InputSessions ==
    [sid : Nat, next : Nat, generation : Nat, state : Presentations,
     panel : Presentations, typos : Nat, client : BOOLEAN, marked : BOOLEAN]
Preparations == {"idle", "working", "launched", "ready", "broken", "failed"}
Worlds ==
    [client : Clients, registry : Registries, generation : Nat,
     preparation : Preparations, expected : Nat,
     daemon : {"down", "starting", "fresh", "serving"},
     sessions : [Controllers -> InputSessions], faults : Nat, outdated : BOOLEAN]

-----------------------------------------------------------------------------
(* The invariant                                                           *)

\* The controller has a session of the current generation, as far as it knows
Engaged(w, c) ==
    w.sessions[c].sid # NoSid /\ w.sessions[c].generation = w.generation

\* The worker behind the connection serves it
Served(w, c) == Engaged(w, c) /\ w.client.alive

\* An input session between two events: text is marked exactly while there is
\* some, and then there is a client to remove it; without a session there is
\* nothing to show
Settled(x) ==
    /\ x.marked = x.state.text
    /\ x.state.text => x.client
    /\ x.sid = NoSid => x.state = Nothing /\ x.panel = Nothing /\ x.typos = 0

\* The input session x and the daemon's session s agree
InSync(x, s) ==
    /\ s.last < x.next
    /\ x.state = s.shows
    /\ x.panel \in {Nothing, s.shows}
    /\ x.typos \in {0, s.typos}

\* Without a worker there are no sessions, and without a socket no controller
\* believes in one
ClientFits(w) ==
    /\ w.client.alive => w.client.open
    /\ ~w.client.alive => w.registry = NoSessions
    /\ \A c \in Controllers : Engaged(w, c) => w.client.open

\* What is being prepared will be taken over
PreparationFits(w) ==
    w.preparation # "idle" => w.expected = w.generation /\ ~w.client.open

\* Every served controller is in sync with a session of its own
SessionsFit(w) ==
    \A c \in Controllers : Served(w, c) =>
        /\ w.sessions[c].sid \in DOMAIN w.registry
        /\ InSync(w.sessions[c], w.registry[w.sessions[c].sid])
        /\ \A d \in Controllers \ {c} :
              Served(w, d) => w.sessions[d].sid # w.sessions[c].sid

\* Every session of the worker is that of a served controller
RegistryFits(w) ==
    \A k \in DOMAIN w.registry :
        \E c \in Controllers : Served(w, c) /\ w.sessions[c].sid = k

Good(w) ==
    /\ w \in Worlds
    /\ ~w.outdated
    /\ \A c \in Controllers : Settled(w.sessions[c])
    /\ ClientFits(w) /\ PreparationFits(w) /\ SessionsFit(w) /\ RegistryFits(w)

FrontEndInv == Good(World)

-----------------------------------------------------------------------------
(* Frames                                                                  *)

\* v has what w has, except for the connection and the input session of c
Frame(w, c, v) ==
    /\ v \in Worlds
    /\ v.outdated = w.outdated
    /\ v.preparation = w.preparation /\ v.expected = w.expected
    /\ \A d \in Controllers \ {c} : v.sessions[d] = w.sessions[d]

\* y has what x has, except for the next request number
Kept(x, y) ==
    /\ y.sid = x.sid /\ y.generation = x.generation
    /\ y.state = x.state /\ y.panel = x.panel /\ y.typos = x.typos
    /\ y.client = x.client /\ y.marked = x.marked

\* The connection is closed and its generation is over
Dead(w) ==
    /\ w.client = Closed /\ w.registry = NoSessions
    /\ \A c \in Controllers : w.sessions[c].generation # w.generation

\* A world whose connection is closed is good when nothing is being prepared.
LEMMA GoodDead ==
    ASSUME NEW w \in Worlds, ~w.outdated, Dead(w), w.preparation = "idle",
           \A c \in Controllers : Settled(w.sessions[c])
    PROVE  Good(w)
  <1>1. \A c \in Controllers : ~Engaged(w, c) /\ ~Served(w, c)
    BY DEF Dead, Engaged, Served
  <1>2. ~w.client.alive /\ w.registry = NoSessions /\ DOMAIN w.registry = {}
    BY NoSessionsType DEF Dead, Closed
  <1> QED  BY <1>1, <1>2
           DEF Good, ClientFits, PreparationFits, SessionsFit, RegistryFits

\* A controller that has no session, before and after, does not matter to the
\* connection.
LEMMA GoodUnserved ==
    ASSUME NEW w, Good(w), NEW c \in Controllers, ~Engaged(w, c),
           NEW v, Frame(w, c, v), v.client = w.client, v.registry = w.registry,
           v.generation = w.generation, ~Engaged(v, c), Settled(v.sessions[c])
    PROVE  Good(v)
  <1>1. \A d \in Controllers : Engaged(v, d) <=> Engaged(w, d)
    BY DEF Engaged, Frame
  <1>2. \A d \in Controllers : Served(v, d) <=> Served(w, d)
    BY <1>1 DEF Served
  <1>3. \A d \in Controllers : Settled(v.sessions[d])
    BY DEF Frame, Good
  <1>4. ~Served(w, c)
    BY DEF Served
  <1>5. SessionsFit(v)
    BY <1>2, <1>4 DEF Good, SessionsFit, Frame
  <1>6. RegistryFits(v)
    BY <1>2, <1>4 DEF Good, RegistryFits, Frame
  <1>7. ClientFits(v) /\ PreparationFits(v)
    BY <1>1 DEF Good, ClientFits, PreparationFits, Frame
  <1> QED  BY <1>3, <1>5, <1>6, <1>7 DEF Good, Frame

\* The controller c keeps its session; if it is served, both changed together.
LEMMA GoodKept ==
    ASSUME NEW w, Good(w), NEW c \in Controllers,
           NEW v, Frame(w, c, v), v.client = w.client, v.generation = w.generation,
           DOMAIN v.registry = DOMAIN w.registry,
           \A k \in DOMAIN w.registry \ {w.sessions[c].sid} : v.registry[k] = w.registry[k],
           v.sessions[c].sid = w.sessions[c].sid,
           v.sessions[c].generation = w.sessions[c].generation,
           Settled(v.sessions[c]),
           Served(w, c) => InSync(v.sessions[c], v.registry[w.sessions[c].sid]),
           ~w.client.alive => v.registry = NoSessions,
           Engaged(w, c) \/ v.registry = w.registry
    PROVE  Good(v)
  <1>1. \A d \in Controllers : Engaged(v, d) <=> Engaged(w, d)
    BY DEF Engaged, Frame
  <1>2. \A d \in Controllers : Served(v, d) <=> Served(w, d)
    BY <1>1 DEF Served
  <1>3. \A d \in Controllers : v.sessions[d].sid = w.sessions[d].sid
    BY DEF Frame
  <1>4. \A d \in Controllers : Settled(v.sessions[d])
    BY DEF Frame, Good
  <1>5. SessionsFit(v)
    <2> SUFFICES ASSUME NEW d \in Controllers, Served(v, d)
                 PROVE  /\ v.sessions[d].sid \in DOMAIN v.registry
                        /\ InSync(v.sessions[d], v.registry[v.sessions[d].sid])
                        /\ \A e \in Controllers \ {d} :
                              Served(v, e) => v.sessions[e].sid # v.sessions[d].sid
      BY DEF SessionsFit
    <2>1. /\ w.sessions[d].sid \in DOMAIN w.registry
          /\ InSync(w.sessions[d], w.registry[w.sessions[d].sid])
          /\ \A e \in Controllers \ {d} :
                Served(w, e) => w.sessions[e].sid # w.sessions[d].sid
      BY <1>2 DEF Good, SessionsFit
    <2>2. CASE d = c
      BY <1>2, <1>3, <2>1, <2>2
    <2>3. CASE d # c
      <3>1. v.sessions[d] = w.sessions[d]
        BY <2>3 DEF Frame
      <3>2. v.registry[w.sessions[d].sid] = w.registry[w.sessions[d].sid]
        <4>1. CASE v.registry = w.registry
          BY <4>1
        <4>2. CASE Engaged(w, c)
          <5>1. Served(w, c)
            BY <1>2, <4>2 DEF Served
          <5>2. w.sessions[d].sid # w.sessions[c].sid
            BY <2>1, <2>3, <5>1
          <5> QED  BY <2>1, <5>2
        <4> QED  BY <4>1, <4>2
      <3> QED  BY <1>2, <1>3, <2>1, <3>1, <3>2
    <2> QED  BY <2>2, <2>3
  <1>6. RegistryFits(v)
    BY <1>2, <1>3 DEF Good, RegistryFits
  <1>7. ClientFits(v) /\ PreparationFits(v)
    BY <1>1 DEF Good, ClientFits, PreparationFits, Frame
  <1> QED  BY <1>4, <1>5, <1>6, <1>7 DEF Good, Frame

-----------------------------------------------------------------------------
(* The parts of the handlers                                               *)

\* disconnect leaves a generation that nothing has.
LEMMA DisconnectFacts ==
    ASSUME NEW w \in Worlds
    PROVE  LET v == Disconnect(w)
           IN  /\ v \in Worlds /\ Dead(v) /\ v.sessions = w.sessions
               /\ v.outdated = w.outdated
               /\ v.preparation = w.preparation /\ v.expected = w.expected
  <1> DEFINE gens == {w.sessions[c].generation : c \in Controllers}
             used == {w.generation, w.expected} \cup gens
             g == Fresh(used)
             v == [w EXCEPT !.client = Closed, !.registry = NoSessions, !.generation = g]
  <1>1. IsFiniteSet(used)
    <2> DEFINE f == [c \in Controllers |-> w.sessions[c].generation]
    <2>1. f = [c \in Controllers |-> f[c]] /\ IsFiniteSet(Controllers)
      BY MacAssumption
    <2>2. gens = {f[c] : c \in Controllers}
      OBVIOUS
    <2> HIDE DEF f, gens
    <2>3. IsFiniteSet(gens)
      BY <2>1, <2>2, FiniteRange
    <2>4. IsFiniteSet(gens \cup {w.generation})
      BY <2>3, FS_AddElement
    <2>5. IsFiniteSet((gens \cup {w.generation}) \cup {w.expected})
      BY <2>4, FS_AddElement
    <2>6. used = (gens \cup {w.generation}) \cup {w.expected}
      OBVIOUS
    <2> QED  BY <2>5, <2>6
  <1> HIDE DEF used
  <1>2. g \in Nat /\ g \notin used
    BY <1>1, FreshIsUnused DEF Ids
  <1> HIDE DEF g
  <1>3. Disconnect(w) = v
    BY DEF Disconnect, g, used
  <1>4. Closed \in Clients
    BY DEF Closed, Clients
  <1>5. /\ v \in Worlds /\ v.client = Closed /\ v.registry = NoSessions
        /\ v.generation = g /\ v.sessions = w.sessions /\ v.outdated = w.outdated
        /\ v.preparation = w.preparation /\ v.expected = w.expected
    BY <1>2, <1>4, NoSessionsType DEF Worlds
  <1> HIDE DEF v
  <1>6. \A c \in Controllers : w.sessions[c].generation # g
    BY <1>2 DEF used
  <1> QED  BY <1>3, <1>5, <1>6 DEF Dead

\* reset of the panel: it lists nothing.
LEMMA PanelResetFacts ==
    ASSUME NEW w \in Worlds, NEW c \in Controllers
    PROVE  LET v == PanelReset(w, c)
               x == w.sessions[c]
               y == v.sessions[c]
           IN  /\ Frame(w, c, v) /\ v.client = w.client /\ v.registry = w.registry
               /\ v.generation = w.generation
               /\ y.sid = x.sid /\ y.next = x.next /\ y.generation = x.generation
               /\ y.state = x.state /\ y.client = x.client /\ y.marked = x.marked
               /\ y.panel = Nothing /\ y.typos = 0
  <1> DEFINE v == PanelReset(w, c)
             x == w.sessions[c]
             y == [[x EXCEPT !.panel = Nothing] EXCEPT !.typos = 0]
  <1>1. x \in InputSessions
    BY DEF Worlds
  <1>2. /\ y \in InputSessions
        /\ y.sid = x.sid /\ y.next = x.next /\ y.generation = x.generation
        /\ y.state = x.state /\ y.client = x.client /\ y.marked = x.marked
        /\ y.panel = Nothing /\ y.typos = 0
    BY <1>1, NothingShown DEF InputSessions
  <1>3. v.sessions = [w.sessions EXCEPT ![c] = y]
    BY DEF Worlds, PanelReset
  <1> HIDE DEF y
  <1>4. /\ v.sessions \in [Controllers -> InputSessions] /\ v.sessions[c] = y
        /\ \A d \in Controllers \ {c} : v.sessions[d] = w.sessions[d]
    BY <1>2, <1>3 DEF Worlds
  <1>5. /\ v \in Worlds /\ v.client = w.client /\ v.registry = w.registry
        /\ v.generation = w.generation /\ v.outdated = w.outdated
        /\ v.preparation = w.preparation /\ v.expected = w.expected
    BY <1>4 DEF Worlds, PanelReset
  <1> QED  BY <1>2, <1>4, <1>5 DEF Frame

\* No session, nothing listed and nothing marked
Blank(x) ==
    /\ x.sid = NoSid /\ x.state = Nothing /\ x.panel = Nothing /\ x.typos = 0
    /\ x.marked = FALSE

\* clear removes the marked text and forgets the session.
LEMMA ClearFacts ==
    ASSUME NEW w \in Worlds, NEW c \in Controllers, Settled(w.sessions[c])
    PROVE  LET v == Clear(w, c)
           IN  /\ Frame(w, c, v) /\ v.client = w.client /\ v.registry = w.registry
               /\ v.generation = w.generation
               /\ Blank(v.sessions[c])
               /\ v.sessions[c].client = w.sessions[c].client
               /\ v.sessions[c].generation = w.sessions[c].generation
  <1> DEFINE x == w.sessions[c]
             m == x.marked /\ ~(x.client /\ x.state.text)
             y == [[[x EXCEPT !.marked = m] EXCEPT !.state = Nothing] EXCEPT !.sid = NoSid]
             u == [w EXCEPT !.sessions[c].marked = @ /\ ~(x.client /\ x.state.text),
                            !.sessions[c].state = Nothing, !.sessions[c].sid = NoSid]
             v == PanelReset(u, c)
  <1>1. x \in InputSessions
    BY DEF Worlds
  <1>2. m = FALSE
    BY <1>1 DEF Settled, InputSessions
  <1>3. u.sessions = [w.sessions EXCEPT ![c] = y]
    BY DEF Worlds
  <1>4. /\ y \in InputSessions /\ y.marked = FALSE /\ y.state = Nothing /\ y.sid = NoSid
        /\ y.client = x.client /\ y.generation = x.generation
    <2> HIDE DEF m
    <2> QED  BY <1>1, <1>2, NothingShown DEF InputSessions, NoSid
  <1> HIDE DEF y
  <1>5. /\ u.sessions \in [Controllers -> InputSessions] /\ u.sessions[c] = y
        /\ \A d \in Controllers \ {c} : u.sessions[d] = w.sessions[d]
    BY SMTT(30), <1>3, <1>4 DEF Worlds
  <1>6. /\ u \in Worlds /\ u.client = w.client /\ u.registry = w.registry
        /\ u.generation = w.generation /\ u.outdated = w.outdated
        /\ u.preparation = w.preparation /\ u.expected = w.expected
    BY <1>5 DEF Worlds
  <1>7. Clear(w, c) = v
    BY DEF Clear
  <1> HIDE DEF u
  <1>8. /\ Frame(u, c, v) /\ v.client = u.client /\ v.registry = u.registry
        /\ v.generation = u.generation
        /\ v.sessions[c].sid = y.sid /\ v.sessions[c].generation = y.generation
        /\ v.sessions[c].state = y.state /\ v.sessions[c].client = y.client
        /\ v.sessions[c].marked = y.marked
        /\ v.sessions[c].panel = Nothing /\ v.sessions[c].typos = 0
    BY <1>5, <1>6, PanelResetFacts
  <1> HIDE DEF v
  <1>9. Frame(w, c, v) /\ Blank(v.sessions[c])
    BY <1>4, <1>5, <1>6, <1>8 DEF Frame, Blank
  <1> QED  BY <1>4, <1>6, <1>7, <1>8, <1>9

\* A blank input session is settled and has no session.
LEMMA BlankFacts ==
    ASSUME NEW w, NEW c, Blank(w.sessions[c])
    PROVE  Settled(w.sessions[c]) /\ ~Engaged(w, c)
  <1> DEFINE x == w.sessions[c]
  <1>1. Nothing.text = FALSE
    BY DEF Nothing
  <1>2. x.marked = x.state.text
    BY <1>1 DEF Blank
  <1>3. ~x.state.text
    BY <1>1 DEF Blank
  <1>4. Settled(x)
    BY <1>2, <1>3 DEF Blank, Settled
  <1> QED  BY <1>4 DEF Blank, Engaged

\* Failing closes the connection and clears the input session: whatever the
\* controller was in the middle of, the world is good again.
LEMMA FailGood ==
    ASSUME NEW w \in Worlds, NEW c \in Controllers, ~w.outdated, w.preparation = "idle",
           \A d \in Controllers : Settled(w.sessions[d])
    PROVE  /\ Good(Fail(w, c)) /\ Fail(w, c).sessions[c].sid = NoSid
           /\ Fail(w, c).sessions[c].client = w.sessions[c].client
  <1> DEFINE u == Disconnect(w)
             v == Clear(u, c)
  <1>1. /\ u \in Worlds /\ Dead(u) /\ u.sessions = w.sessions
        /\ u.outdated = w.outdated /\ u.preparation = "idle"
    BY DisconnectFacts
  <1> HIDE DEF u
  <1>2. /\ Frame(u, c, v) /\ v.client = u.client /\ v.registry = u.registry
        /\ v.generation = u.generation /\ Blank(v.sessions[c])
        /\ v.sessions[c].client = u.sessions[c].client
        /\ v.sessions[c].generation = u.sessions[c].generation
    BY <1>1, ClearFacts
  <1>3. v = Fail(w, c)
    BY DEF Fail, u
  <1> HIDE DEF v
  <1>4. Settled(v.sessions[c]) /\ v.sessions[c].sid = NoSid
    BY <1>2, BlankFacts DEF Blank
  <1>5. \A d \in Controllers : Settled(v.sessions[d])
    BY <1>1, <1>2, <1>4 DEF Frame
  <1>6. Dead(v)
    BY <1>1, <1>2 DEF Dead, Frame
  <1>7. v \in Worlds /\ ~v.outdated /\ v.preparation = "idle"
    BY <1>1, <1>2 DEF Frame
  <1>8. Good(v)
    BY <1>5, <1>6, <1>7, GoodDead
  <1> QED  BY <1>1, <1>2, <1>3, <1>4, <1>8

\* Clearing a controller that has no session leaves a good world.
LEMMA ClearGood ==
    ASSUME NEW w, Good(w), NEW c \in Controllers, ~Engaged(w, c)
    PROVE  /\ Good(Clear(w, c)) /\ Blank(Clear(w, c).sessions[c])
           /\ Clear(w, c).sessions[c].client = w.sessions[c].client
  <1> DEFINE v == Clear(w, c)
  <1>1. w \in Worlds /\ Settled(w.sessions[c])
    BY DEF Good
  <1>2. /\ Frame(w, c, v) /\ v.client = w.client /\ v.registry = w.registry
        /\ v.generation = w.generation /\ Blank(v.sessions[c])
        /\ v.sessions[c].client = w.sessions[c].client
    BY <1>1, ClearFacts
  <1> HIDE DEF v
  <1>3. Settled(v.sessions[c]) /\ ~Engaged(v, c)
    BY <1>2, BlankFacts
  <1>4. Good(v)
    BY <1>2, <1>3, GoodUnserved
  <1> QED  BY <1>2, <1>4 DEF v

-----------------------------------------------------------------------------
(* A request and its reply                                                 *)

\* v is w but for the number of faults, the daemon and what is being prepared
Alike(w, v) ==
    /\ v \in Worlds
    /\ v.client = w.client /\ v.registry = w.registry /\ v.generation = w.generation
    /\ v.sessions = w.sessions /\ v.outdated = w.outdated

\* A fault is counted and changes nothing else.
LEMMA FaultFacts ==
    ASSUME NEW w \in Worlds
    PROVE  /\ Alike(w, Fault(w))
           /\ Fault(w).preparation = w.preparation /\ Fault(w).expected = w.expected
  BY DEF Fault, Worlds, Alike

\* The number of faults, and what prepares a connection, do not matter to the
\* sessions.
LEMMA GoodAlike ==
    ASSUME NEW w, Good(w), NEW v, Alike(w, v), PreparationFits(v)
    PROVE  Good(v)
  <1>1. \A c \in Controllers : Engaged(v, c) <=> Engaged(w, c)
    BY DEF Engaged, Alike
  <1>2. \A c \in Controllers : Served(v, c) <=> Served(w, c)
    BY <1>1 DEF Served, Alike
  <1>3. ClientFits(v)
    BY <1>1 DEF Good, ClientFits, Alike
  <1>4. SessionsFit(v) /\ RegistryFits(v)
    BY <1>2 DEF Good, SessionsFit, RegistryFits, Alike
  <1> QED  BY <1>3, <1>4 DEF Good, Alike

\* v is w but for the connection
Within(w, v) ==
    /\ v \in Worlds /\ v.sessions = w.sessions /\ v.outdated = w.outdated
    /\ v.preparation = w.preparation /\ v.expected = w.expected

\* The worker knows the session and has not seen the number
Accepts(a) ==
    /\ a.registry \in Registries /\ a.reply \in Replies
    /\ a.reply.code \notin {"UnknownSession", "OutOfOrder"}

\* request of the connection, when the worker knows the session: it gives no
\* answer, or an error, and the connection is over, or the worker's answer.
LEMMA ConnectionRequestFacts ==
    ASSUME NEW w \in Worlds, w.client.open, NEW sid, NEW rid, NEW request,
           w.client.alive => \A a \in Handle(w.registry, sid, rid, request) : Accepts(a),
           NEW o \in ConnectionRequest(w, sid, rid, request)
    PROVE  /\ o = [w |-> o.w, reply |-> o.reply]
           /\ Within(w, o.w)
           /\ \/ o.reply.kind = "error" /\ Dead(o.w)
              \/ /\ w.client.alive /\ o.reply.kind # "error"
                 /\ o.w.client = w.client /\ o.w.generation = w.generation
                 /\ \E a \in Handle(w.registry, sid, rid, request) :
                       o.reply = a.reply /\ o.w.registry = a.registry
  <1> DEFINE gone == Disconnect(w)
             lost == [w |-> gone, reply |-> NoReply]
             faulty == [w |-> Fault(gone), reply |-> NoReply]
             base(a) == IF Faulty(request, a.reply) THEN Fault(w) ELSE w
             seen(a) == [base(a) EXCEPT !.registry = a.registry,
                            !.outdated = @ \/ a.reply.code \in {"UnknownSession", "OutOfOrder"}]
             left(a) == IF a.reply.kind = "error" THEN Disconnect(seen(a)) ELSE seen(a)
             answered(a) == [w |-> left(a), reply |-> a.reply]
  <1>1. Within(w, gone) /\ Dead(gone)
    BY DisconnectFacts DEF Within
  <1>2. Within(w, Fault(gone)) /\ Dead(Fault(gone))
    <2> HIDE DEF gone
    <2>1. gone \in Worlds
      BY <1>1 DEF Within
    <2>2. /\ Alike(gone, Fault(gone))
          /\ Fault(gone).preparation = gone.preparation
          /\ Fault(gone).expected = gone.expected
      BY <2>1, FaultFacts
    <2> QED  BY <1>1, <2>2 DEF Within, Alike, Dead
  <1>3. NoReply.kind = "error"
    BY DEF NoReply, ErrorReply
  <1>4. \/ o = lost
        \/ o = faulty
        \/ /\ w.client.alive
           /\ \E a \in Handle(w.registry, sid, rid, request) : o = answered(a)
    BY DEF ConnectionRequest, IfFault
  <1>5. o = [w |-> o.w, reply |-> o.reply]
    <2> HIDE DEF gone, left
    <2> QED  BY <1>4
  <1>6. CASE o = lost
    <2> HIDE DEF gone
    <2>1. o.w = gone /\ o.reply = NoReply
      BY <1>6
    <2> QED  BY <1>1, <1>3, <1>5, <2>1
  <1>7. CASE o = faulty
    <2> HIDE DEF gone
    <2>1. o.w = Fault(gone) /\ o.reply = NoReply
      BY <1>7
    <2> QED  BY <1>2, <1>3, <1>5, <2>1
  <1>8. ASSUME w.client.alive,
               NEW a \in Handle(w.registry, sid, rid, request), o = answered(a)
        PROVE  /\ Within(w, o.w) /\ o.reply = a.reply
               /\ \/ o.reply.kind = "error" /\ Dead(o.w)
                  \/ /\ o.reply.kind # "error"
                     /\ o.w.client = w.client /\ o.w.generation = w.generation
                     /\ o.w.registry = a.registry
    <2> DEFINE b == base(a)
               u == seen(a)
    <2>1. Alike(w, b) /\ b.preparation = w.preparation /\ b.expected = w.expected
      BY FaultFacts DEF Alike
    <2>2. Accepts(a)
      BY <1>8
    <2> HIDE DEF base
    <2>3. /\ Within(w, u) /\ u.client = w.client /\ u.registry = a.registry
          /\ u.generation = w.generation
      <3> HIDE DEF b
      <3> DEFINE out == a.reply.code \in {"UnknownSession", "OutOfOrder"}
      <3>1. u = [b EXCEPT !.registry = a.registry, !.outdated = @ \/ out]
        BY DEF b
      <3>2. b.outdated = w.outdated /\ w.outdated \in BOOLEAN /\ b \in Worlds
        BY <2>1 DEF Alike, Worlds
      <3>3. (b.outdated \/ out) = w.outdated
        BY <2>2, <3>2 DEF Accepts
      <3> HIDE DEF out
      <3> QED  BY <2>1, <2>2, <3>1, <3>2, <3>3 DEF Alike, Accepts, Within, Worlds
    <2>4. o.w = left(a) /\ o.reply = a.reply
      <3> HIDE DEF left
      <3> QED  BY <1>8
    <2> HIDE DEF seen
    <2>5. CASE a.reply.kind = "error"
      <3> DEFINE z == Disconnect(u)
      <3>1. o.w = z
        BY <2>4, <2>5
      <3>2. Within(u, z) /\ Dead(z)
        <4>1. u \in Worlds
          BY <2>3 DEF Within
        <4> QED  BY <4>1, DisconnectFacts DEF Within
      <3> HIDE DEF z, u
      <3> QED  BY <2>3, <2>4, <2>5, <3>1, <3>2 DEF Within
    <2>6. CASE a.reply.kind # "error"
      BY <2>3, <2>4, <2>6
    <2> QED  BY <2>5, <2>6
  <1> HIDE DEF lost, faulty, answered
  <1>9. CASE w.client.alive /\ \E a \in Handle(w.registry, sid, rid, request) : o = answered(a)
    <2>1. PICK a \in Handle(w.registry, sid, rid, request) : o = answered(a)
      BY <1>9
    <2> QED  BY <1>5, <1>8, <1>9, <2>1
  <1> QED  BY <1>4, <1>6, <1>7, <1>9

\* q is r but for the request number of sid, which starts again
Renumbered(r, sid, q) ==
    /\ DOMAIN q = DOMAIN r
    /\ \A k \in DOMAIN r \ {sid} : q[k] = r[k]
    /\ sid \in DOMAIN r => /\ q[sid].last = 0
                           /\ q[sid].shows = r[sid].shows /\ q[sid].typos = r[sid].typos

\* Counting from the last accepted number changes the two numbers only.
LEMMA RebasedFacts ==
    ASSUME NEW w \in Worlds, NEW c \in Controllers, NEW sid,
           sid \in DOMAIN w.registry => w.registry[sid].last <= w.sessions[c].next
    PROVE  LET v == Rebased(w, c, sid)
           IN  /\ Frame(w, c, v) /\ v.client = w.client /\ v.generation = w.generation
               /\ Kept(w.sessions[c], v.sessions[c])
               /\ Renumbered(w.registry, sid, v.registry)
               /\ sid \in DOMAIN w.registry =>
                     v.sessions[c].next = w.sessions[c].next - w.registry[sid].last
  <1> DEFINE v == Rebased(w, c, sid)
             x == w.sessions[c]
             r == w.registry
             y == [x EXCEPT !.next = @ - r[sid].last]
             s == [r[sid] EXCEPT !.last = 0]
             q == [r EXCEPT ![sid] = s]
  <1>1. x \in InputSessions /\ r \in Registries
    BY DEF Worlds
  <1>2. CASE sid \notin DOMAIN r
    <2>1. v = w
      BY <1>2 DEF Rebased
    <2> QED  BY <1>2, <2>1 DEF Frame, Kept, Renumbered
  <1>3. CASE sid \in DOMAIN r
    <2>1. DOMAIN r \subseteq Ids /\ r \in [DOMAIN r -> Sessions]
      BY <1>1, RegistryType
    <2>2. r[sid] \in Sessions
      BY <1>3, <2>1
    <2>3. s \in Sessions /\ s.last = 0 /\ s.shows = r[sid].shows /\ s.typos = r[sid].typos
      BY <2>2 DEF Sessions
    <2>4. r[sid].last \in Nat /\ x.next - r[sid].last \in Nat
      BY <1>1, <1>3, <2>2 DEF Sessions, InputSessions
    <2>5. /\ y \in InputSessions /\ Kept(x, y)
          /\ y.next = x.next - r[sid].last
      BY <1>1, <2>4 DEF InputSessions, Kept
    <2>6. q \in [DOMAIN r -> Sessions] /\ Renumbered(r, sid, q)
      <3> HIDE DEF s
      <3> QED  BY <1>3, <2>1, <2>3 DEF Renumbered
    <2>7. q \in Registries
      BY <2>1, <2>6 DEF Registries
    <2>8. v.sessions = [w.sessions EXCEPT ![c] = y] /\ v.registry = q
      BY <1>3 DEF Worlds, Rebased
    <2> HIDE DEF y, s, q
    <2>9. /\ v.sessions \in [Controllers -> InputSessions] /\ v.sessions[c] = y
          /\ \A d \in Controllers \ {c} : v.sessions[d] = w.sessions[d]
      BY <2>5, <2>8 DEF Worlds
    <2>10. /\ v \in Worlds /\ v.client = w.client
           /\ v.generation = w.generation /\ v.outdated = w.outdated
           /\ v.preparation = w.preparation /\ v.expected = w.expected
      <3>1. v.registry \in Registries
        BY <2>7, <2>8
      <3> QED  BY <1>3, <2>9, <3>1 DEF Worlds, Rebased
    <2> QED  BY <2>5, <2>6, <2>8, <2>9, <2>10 DEF Frame
  <1> QED  BY <1>2, <1>3

\* The reply to a request is that of answer a, and the world v is what it left
Answered(w, c, a, v, reply) ==
    /\ v.client = w.client /\ v.generation = w.generation
    /\ reply = a.reply /\ reply.kind # "error"
    /\ Renumbered(a.registry, w.sessions[c].sid, v.registry)
    /\ w.sessions[c].sid \in DOMAIN a.registry =>
          v.sessions[c].next
            = (w.sessions[c].next + 1) - a.registry[w.sessions[c].sid].last

\* A request of a controller over an open connection, when the worker knows the
\* session: the connection is over, or the worker's answer is the reply.
LEMMA RequestFacts ==
    ASSUME NEW w \in Worlds, w.client.open, NEW c \in Controllers, NEW request,
           w.client.alive =>
             \A a \in Handle(w.registry, w.sessions[c].sid, w.sessions[c].next, request) :
                /\ Accepts(a)
                /\ w.sessions[c].sid \in DOMAIN a.registry =>
                      a.registry[w.sessions[c].sid].last \in 0..w.sessions[c].next,
           NEW o \in Request(w, c, request)
    PROVE  /\ Frame(w, c, o.w)
           /\ Kept(w.sessions[c], o.w.sessions[c])
           /\ \/ o.reply.kind = "error" /\ Dead(o.w)
              \/ /\ w.client.alive
                 /\ \E a \in Handle(w.registry, w.sessions[c].sid, w.sessions[c].next, request) :
                       Answered(w, c, a, o.w, o.reply)
  <1> DEFINE s == w.sessions[c]
             y == [s EXCEPT !.next = @ + 1]
             u == [w EXCEPT !.sessions[c].next = @ + 1]
             all == Handle(w.registry, s.sid, s.next, request)
  <1>1. s \in InputSessions
    BY DEF Worlds
  <1>2. y \in InputSessions /\ Kept(s, y) /\ y.next = s.next + 1 /\ s.next \in Nat
    BY <1>1 DEF InputSessions, Kept
  <1>3. u.sessions = [w.sessions EXCEPT ![c] = y]
    BY DEF Worlds
  <1>4. /\ u.sessions \in [Controllers -> InputSessions] /\ u.sessions[c] = y
        /\ \A d \in Controllers \ {c} : u.sessions[d] = w.sessions[d]
    <2> HIDE DEF y
    <2> QED  BY <1>2, <1>3 DEF Worlds
  <1>5. /\ u \in Worlds /\ u.client = w.client /\ u.registry = w.registry
        /\ u.generation = w.generation /\ u.outdated = w.outdated
        /\ u.preparation = w.preparation /\ u.expected = w.expected
    BY <1>4 DEF Worlds
  <1>6. PICK p \in ConnectionRequest(u, s.sid, s.next, request) :
               o = [p EXCEPT !.w = Rebased(@, c, s.sid)]
    BY DEF Request
  <1> HIDE DEF y, u, s
  <1> DEFINE v == Rebased(p.w, c, s.sid)
  <1>7. /\ p = [w |-> p.w, reply |-> p.reply]
        /\ Within(u, p.w)
        /\ \/ p.reply.kind = "error" /\ Dead(p.w)
           \/ /\ u.client.alive /\ p.reply.kind # "error"
              /\ p.w.client = u.client /\ p.w.generation = u.generation
              /\ \E a \in all : p.reply = a.reply /\ p.w.registry = a.registry
    <2>1. u.client.alive =>
             \A a \in Handle(u.registry, s.sid, s.next, request) : Accepts(a)
      BY <1>5 DEF s
    <2>2. all = Handle(u.registry, s.sid, s.next, request)
      BY <1>5
    <2>3. u.client.open
      BY <1>5
    <2> HIDE DEF all
    <2> QED  BY <1>5, <1>6, <2>1, <2>2, <2>3, ConnectionRequestFacts
  <1>8. o.w = v /\ o.reply = p.reply
    <2> HIDE DEF v
    <2> QED  BY <1>6, <1>7 DEF v
  <1>9. p.w \in Worlds /\ Frame(w, c, p.w) /\ Kept(s, p.w.sessions[c])
    BY <1>2, <1>4, <1>5, <1>7 DEF Within, Frame
  <1>10. CASE p.reply.kind = "error" /\ Dead(p.w)
    <2>1. v = p.w
      BY <1>10, NoSessionsType DEF Rebased, Dead
    <2> HIDE DEF v
    <2> QED  BY <1>8, <1>9, <1>10, <2>1 DEF s
  <1>11. ASSUME u.client.alive, p.reply.kind # "error", p.w.client = u.client,
                p.w.generation = u.generation,
                NEW a \in all, p.reply = a.reply, p.w.registry = a.registry
         PROVE  /\ Frame(w, c, o.w) /\ Kept(s, o.w.sessions[c])
                /\ w.client.alive /\ Answered(w, c, a, o.w, o.reply)
    <2>1. s.sid \in DOMAIN a.registry => a.registry[s.sid].last \in 0..s.next
      BY <1>5, <1>11 DEF s
    <2>2. p.w.sessions[c].next = s.next + 1
      BY <1>2, <1>4, <1>7 DEF Within
    <2>3. s.sid \in DOMAIN p.w.registry =>
             p.w.registry[s.sid].last <= p.w.sessions[c].next
      BY <1>2, <1>11, <2>1, <2>2
    <2>4. /\ Frame(p.w, c, v) /\ v.client = p.w.client /\ v.generation = p.w.generation
          /\ Kept(p.w.sessions[c], v.sessions[c])
          /\ Renumbered(p.w.registry, s.sid, v.registry)
          /\ s.sid \in DOMAIN p.w.registry =>
                v.sessions[c].next = p.w.sessions[c].next - p.w.registry[s.sid].last
      BY <1>9, <2>3, RebasedFacts
    <2> HIDE DEF v
    <2>5. Frame(w, c, v) /\ Kept(s, v.sessions[c])
      BY <1>9, <2>4 DEF Frame, Kept
    <2>6. Answered(w, c, a, v, p.reply)
      BY <1>5, <1>11, <2>2, <2>4 DEF Answered, s
    <2> QED  BY <1>5, <1>8, <1>11, <2>5, <2>6
  <1>12. CASE ~(p.reply.kind = "error" /\ Dead(p.w))
    <2>1. PICK a \in all : /\ u.client.alive /\ p.reply.kind # "error"
                           /\ p.w.client = u.client /\ p.w.generation = u.generation
                           /\ p.reply = a.reply /\ p.w.registry = a.registry
      BY <1>7, <1>12
    <2> QED  BY <1>11, <2>1 DEF s
  <1> QED  BY <1>10, <1>12

\* Only the session of c changed from w to v, and its numbers start again
Exchanged(w, c, v) ==
    /\ v.client = w.client /\ v.generation = w.generation
    /\ DOMAIN v.registry = DOMAIN w.registry
    /\ \A k \in DOMAIN w.registry \ {w.sessions[c].sid} : v.registry[k] = w.registry[k]
    /\ v.registry[w.sessions[c].sid].last = 0
    /\ v.sessions[c].next = 1

\* A controller that has a session of this generation may ask: the connection is
\* open, nothing is being prepared, and the worker knows the session's number.
LEMMA EngagedFacts ==
    ASSUME NEW w, Good(w), NEW c \in Controllers, Engaged(w, c)
    PROVE  /\ w \in Worlds /\ ~w.outdated /\ w.client.open /\ w.preparation = "idle"
           /\ w.sessions[c] \in InputSessions /\ w.registry \in Registries
           /\ w.sessions[c].next \in Nat
           /\ w.client.alive => /\ w.sessions[c].sid \in DOMAIN w.registry
                                /\ InSync(w.sessions[c], w.registry[w.sessions[c].sid])
                                /\ w.registry[w.sessions[c].sid] \in Sessions
                                /\ w.sessions[c].next > w.registry[w.sessions[c].sid].last
  <1> DEFINE x == w.sessions[c]
             r == w.registry
  <1>1. w \in Worlds /\ ~w.outdated /\ x \in InputSessions /\ r \in Registries
    BY DEF Good, Worlds
  <1>2. w.client.open
    BY DEF Good, ClientFits
  <1>3. w.preparation = "idle"
    BY <1>2 DEF Good, PreparationFits
  <1>4. x.next \in Nat
    BY <1>1 DEF InputSessions
  <1>5. w.client.alive => x.sid \in DOMAIN r /\ InSync(x, r[x.sid])
    BY DEF Good, SessionsFit, Served
  <1>6. w.client.alive => r[x.sid] \in Sessions
    <2> HIDE DEF r, x
    <2> QED  BY <1>1, <1>5, RegistryType
  <1>7. w.client.alive => x.next > r[x.sid].last
    BY <1>4, <1>5, <1>6 DEF InSync, Sessions
  <1> QED  BY <1>1, <1>2, <1>3, <1>4, <1>5, <1>6, <1>7

\* A request on the session of a controller is answered with what the session
\* holds then, or the connection is over.
LEMMA SessionRequestFacts ==
    ASSUME NEW w, Good(w), NEW c \in Controllers, Engaged(w, c), NEW request \in Requests,
           NEW o \in Request(w, c, request)
    PROVE  /\ Frame(w, c, o.w)
           /\ Kept(w.sessions[c], o.w.sessions[c])
           /\ \/ o.reply.kind = "error" /\ Dead(o.w)
              \/ /\ w.client.alive /\ Exchanged(w, c, o.w)
                 /\ Tells(w.registry[w.sessions[c].sid], request,
                          o.w.registry[w.sessions[c].sid], o.reply)
  <1> DEFINE s == w.sessions[c]
             r == w.registry
             all == Handle(r, s.sid, s.next, request)
             Known(a) == /\ Accepts(a)
                         /\ DOMAIN a.registry = DOMAIN r
                         /\ \A k \in DOMAIN r \ {s.sid} : a.registry[k] = r[k]
                         /\ a.registry[s.sid].last = s.next
                         /\ Tells(r[s.sid], request, a.registry[s.sid], a.reply)
  <1>1. /\ w \in Worlds /\ w.client.open /\ s \in InputSessions /\ r \in Registries
        /\ s.next \in Nat
        /\ w.client.alive => s.sid \in DOMAIN r /\ s.next > r[s.sid].last
    BY EngagedFacts
  <1>2. ASSUME w.client.alive, NEW a \in all PROVE Known(a)
    <2> HIDE DEF s, r
    <2>1. /\ a.registry \in Registries
          /\ DOMAIN a.registry = DOMAIN r
          /\ \A k \in DOMAIN r \ {s.sid} : a.registry[k] = r[k]
          /\ a.registry[s.sid].last = s.next
          /\ Tells(r[s.sid], request, a.registry[s.sid], a.reply)
      BY <1>1, <1>2, HandleAnswers
    <2>2. Accepts(a)
      BY <2>1 DEF Accepts, Tells
    <2> QED  BY <2>1, <2>2
  <1>3. w.client.alive =>
          \A a \in all : /\ Accepts(a)
                         /\ s.sid \in DOMAIN a.registry =>
                               a.registry[s.sid].last \in 0..s.next
    <2> SUFFICES ASSUME w.client.alive, NEW a \in all
                 PROVE  Accepts(a) /\ a.registry[s.sid].last \in 0..s.next
      OBVIOUS
    <2>1. Known(a)
      BY <1>2
    <2> HIDE DEF all
    <2> QED  BY <1>1, <2>1
  <1>4. /\ Frame(w, c, o.w) /\ Kept(s, o.w.sessions[c])
        /\ \/ o.reply.kind = "error" /\ Dead(o.w)
           \/ /\ w.client.alive
              /\ \E a \in all : Answered(w, c, a, o.w, o.reply)
    BY <1>1, <1>3, RequestFacts
  <1>5. ASSUME w.client.alive, NEW a \in all, Answered(w, c, a, o.w, o.reply)
        PROVE  /\ Exchanged(w, c, o.w)
               /\ Tells(r[s.sid], request, o.w.registry[s.sid], o.reply)
    <2> DEFINE t == o.w.registry[s.sid]
               b == a.registry[s.sid]
    <2>1. Known(a)
      BY <1>2, <1>5
    <2>2. /\ DOMAIN a.registry = DOMAIN r /\ s.sid \in DOMAIN r
          /\ \A k \in DOMAIN r \ {s.sid} : a.registry[k] = r[k]
          /\ b.last = s.next /\ Tells(r[s.sid], request, b, a.reply)
      BY <1>1, <1>5, <2>1
    <2>3. /\ Renumbered(a.registry, s.sid, o.w.registry)
          /\ o.w.client = w.client /\ o.w.generation = w.generation
          /\ o.reply = a.reply
          /\ o.w.sessions[c].next = (s.next + 1) - b.last
      BY <1>5, <2>2 DEF Answered
    <2>4. t.last = 0 /\ t.shows = b.shows /\ t.typos = b.typos
      BY <2>2, <2>3 DEF Renumbered
    <2>5. t \in Sessions
      <3>1. o.w.registry \in Registries /\ s.sid \in DOMAIN o.w.registry
        BY <1>4, <2>2, <2>3 DEF Frame, Worlds, Renumbered
      <3> QED  BY <3>1, RegistryType
    <2>6. Tells(r[s.sid], request, t, o.reply)
      BY <2>2, <2>3, <2>4, <2>5 DEF Tells
    <2>7. o.w.sessions[c].next = 1
      BY <1>1, <2>2, <2>3
    <2>8. Exchanged(w, c, o.w)
      BY <2>2, <2>3, <2>4, <2>7 DEF Exchanged, Renumbered
    <2> QED  BY <2>6, <2>8
  <1> QED  BY <1>4, <1>5

-----------------------------------------------------------------------------
(* A state response becomes what the input session shows                   *)

\* showState lists the state's candidates.
LEMMA ShowStateFacts ==
    ASSUME NEW w \in Worlds, NEW c \in Controllers
    PROVE  LET v == ShowState(w, c)
               x == w.sessions[c]
               y == v.sessions[c]
           IN  /\ Frame(w, c, v) /\ v.client = w.client /\ v.registry = w.registry
               /\ v.generation = w.generation
               /\ y.sid = x.sid /\ y.next = x.next /\ y.generation = x.generation
               /\ y.state = x.state /\ y.client = x.client /\ y.marked = x.marked
               /\ y.panel = x.state /\ y.typos = 0
  <1> DEFINE v == ShowState(w, c)
             x == w.sessions[c]
             y == [[x EXCEPT !.typos = 0] EXCEPT !.panel = x.state]
  <1>1. x \in InputSessions
    BY DEF Worlds
  <1>2. /\ y \in InputSessions
        /\ y.sid = x.sid /\ y.next = x.next /\ y.generation = x.generation
        /\ y.state = x.state /\ y.client = x.client /\ y.marked = x.marked
        /\ y.panel = x.state /\ y.typos = 0
    BY <1>1 DEF InputSessions
  <1>3. v.sessions = [w.sessions EXCEPT ![c] = y]
    BY DEF Worlds, ShowState
  <1> HIDE DEF y
  <1>4. /\ v.sessions \in [Controllers -> InputSessions] /\ v.sessions[c] = y
        /\ \A d \in Controllers \ {c} : v.sessions[d] = w.sessions[d]
    BY <1>2, <1>3 DEF Worlds
  <1>5. /\ v \in Worlds /\ v.client = w.client /\ v.registry = w.registry
        /\ v.generation = w.generation /\ v.outdated = w.outdated
        /\ v.preparation = w.preparation /\ v.expected = w.expected
    BY <1>4 DEF Worlds, ShowState
  <1> QED  BY <1>2, <1>4, <1>5 DEF Frame

\* applyText, then showState: text is marked exactly when the new state has some.
LEMMA ShowsFacts ==
    ASSUME NEW w \in Worlds, NEW c \in Controllers, NEW reply \in Replies,
           w.sessions[c].marked = w.sessions[c].state.text
    PROVE  LET v == Shows(w, c, reply)
               x == w.sessions[c]
               y == v.sessions[c]
           IN  /\ Frame(w, c, v) /\ v.client = w.client /\ v.registry = w.registry
               /\ v.generation = w.generation
               /\ y.sid = x.sid /\ y.next = x.next /\ y.generation = x.generation
               /\ y.state = reply.shows /\ y.client = x.client
               /\ y.marked = reply.shows.text
               /\ y.panel = reply.shows /\ y.typos = 0
  <1> DEFINE x == w.sessions[c]
             p == reply.shows
             m == IF p.text THEN TRUE ELSE x.marked /\ ~reply.commit /\ ~x.state.text
             u == [w EXCEPT !.sessions[c].marked =
                              IF p.text THEN TRUE ELSE @ /\ ~reply.commit /\ ~x.state.text,
                            !.sessions[c].state = p]
             y == [[x EXCEPT !.marked = m] EXCEPT !.state = p]
             v == ShowState(u, c)
  <1>1. x \in InputSessions /\ p \in Presentations
    BY DEF Worlds, Replies
  <1>2. x.state.text \in BOOLEAN /\ p.text \in BOOLEAN
    BY <1>1 DEF InputSessions, Presentations
  <1>3. m = p.text
    <2>1. CASE p.text
      BY <1>2, <2>1
    <2>2. CASE ~p.text
      BY <1>2, <2>2
    <2> QED  BY <2>1, <2>2
  <1>4. Shows(w, c, reply) = v
    BY DEF Shows
  <1>5. u.sessions = [w.sessions EXCEPT ![c] = y]
    BY DEF Worlds
  <1> HIDE DEF m, p
  <1>6. /\ y \in InputSessions
        /\ y.sid = x.sid /\ y.next = x.next /\ y.generation = x.generation
        /\ y.state = p /\ y.client = x.client /\ y.marked = p.text
    BY <1>1, <1>2, <1>3 DEF InputSessions
  <1> HIDE DEF y
  <1>7. /\ u.sessions \in [Controllers -> InputSessions] /\ u.sessions[c] = y
        /\ \A d \in Controllers \ {c} : u.sessions[d] = w.sessions[d]
    BY ZenonT(30), <1>5, <1>6 DEF Worlds
  <1>8. /\ u \in Worlds /\ u.client = w.client /\ u.registry = w.registry
        /\ u.generation = w.generation /\ u.outdated = w.outdated
        /\ u.preparation = w.preparation /\ u.expected = w.expected
    BY <1>7 DEF Worlds
  <1> HIDE DEF u
  <1>9. /\ Frame(u, c, v) /\ v.client = u.client /\ v.registry = u.registry
        /\ v.generation = u.generation
        /\ v.sessions[c].sid = y.sid /\ v.sessions[c].next = y.next
        /\ v.sessions[c].generation = y.generation
        /\ v.sessions[c].state = y.state /\ v.sessions[c].client = y.client
        /\ v.sessions[c].marked = y.marked
        /\ v.sessions[c].panel = y.state /\ v.sessions[c].typos = 0
    BY <1>7, <1>8, ShowStateFacts
  <1> HIDE DEF v
  <1>10. Frame(w, c, v)
    BY <1>7, <1>8, <1>9 DEF Frame
  <1> QED  BY <1>4, <1>6, <1>8, <1>9, <1>10 DEF p

\* After a request the other controllers, and this one, are as settled as before.
LEMMA RequestSettled ==
    ASSUME NEW w, Good(w), NEW c \in Controllers, w.preparation = "idle",
           NEW v, Frame(w, c, v), Kept(w.sessions[c], v.sessions[c])
    PROVE  /\ v \in Worlds /\ ~v.outdated /\ v.preparation = "idle"
           /\ \A d \in Controllers : Settled(v.sessions[d])
  <1>1. Settled(w.sessions[c])
    BY DEF Good
  <1>2. Settled(v.sessions[c])
    BY <1>1 DEF Settled, Kept
  <1> QED  BY <1>2 DEF Good, Frame

\* send: the reply's state becomes the session's, or the connection is over.
LEMMA SendGood ==
    ASSUME NEW w, Good(w), NEW c \in Controllers, Engaged(w, c), w.sessions[c].client,
           NEW request \in Requests, NEW z \in Send(w, c, request)
    PROVE  /\ Good(z) /\ z.sessions[c].client = w.sessions[c].client
           /\ z.sessions[c].sid # NoSid => Engaged(z, c)
  <1> DEFINE sid == w.sessions[c].sid
             x == w.sessions[c]
  <1>1. PICK o \in Request(w, c, request) :
               z \in (IF o.reply.kind = "state"
                      THEN {Shows(o.w, c, o.reply)} \cup IfFault(o.w, {Fail(Fault(o.w), c)})
                      ELSE {Fail(o.w, c)})
    BY DEF Send
  <1>2. /\ Frame(w, c, o.w) /\ Kept(x, o.w.sessions[c])
        /\ \/ o.reply.kind = "error" /\ Dead(o.w)
           \/ /\ w.client.alive /\ Exchanged(w, c, o.w)
              /\ Tells(w.registry[sid], request, o.w.registry[sid], o.reply)
    BY <1>1, SessionRequestFacts
  <1>3. /\ o.w \in Worlds /\ ~o.w.outdated /\ o.w.preparation = "idle"
        /\ \A d \in Controllers : Settled(o.w.sessions[d])
    <2>1. w.preparation = "idle"
      BY EngagedFacts
    <2> QED  BY <1>2, <2>1, RequestSettled
  <1>4. o.w.sessions[c].client = x.client
    BY <1>2 DEF Kept
  <1>5. CASE z = Fail(o.w, c)
    BY <1>3, <1>4, <1>5, FailGood
  <1>6. CASE z = Fail(Fault(o.w), c)
    <2> DEFINE f == Fault(o.w)
    <2>1. Alike(o.w, f) /\ f.preparation = o.w.preparation
      BY <1>3, FaultFacts
    <2> HIDE DEF f
    <2>2. /\ f \in Worlds /\ ~f.outdated /\ f.preparation = "idle"
          /\ f.sessions = o.w.sessions
          /\ \A d \in Controllers : Settled(f.sessions[d])
      BY <1>3, <2>1 DEF Alike
    <2>3. z = Fail(f, c)
      BY <1>6 DEF f
    <2> QED  BY <1>4, <2>2, <2>3, FailGood
  <1>7. CASE o.reply.kind = "state" /\ z = Shows(o.w, c, o.reply)
    <2>1. /\ w.client.alive /\ Exchanged(w, c, o.w) /\ o.reply \in Replies
          /\ o.w.registry[sid].shows = o.reply.shows /\ o.w.registry[sid].typos = 0
      BY <1>2, <1>7 DEF Tells
    <2>2. o.w.sessions[c].marked = o.w.sessions[c].state.text
      BY <1>3 DEF Settled
    <2>3. /\ Frame(o.w, c, z) /\ z.client = o.w.client /\ z.registry = o.w.registry
          /\ z.generation = o.w.generation
          /\ z.sessions[c].sid = o.w.sessions[c].sid
          /\ z.sessions[c].next = o.w.sessions[c].next
          /\ z.sessions[c].generation = o.w.sessions[c].generation
          /\ z.sessions[c].state = o.reply.shows
          /\ z.sessions[c].client = o.w.sessions[c].client
          /\ z.sessions[c].marked = o.reply.shows.text
          /\ z.sessions[c].panel = o.reply.shows /\ z.sessions[c].typos = 0
      BY <1>3, <1>7, <2>1, <2>2, ShowsFacts
    <2>4. Frame(w, c, z)
      BY <1>2, <2>3 DEF Frame
    <2>5. /\ z.sessions[c].sid = sid /\ z.sessions[c].generation = x.generation
          /\ z.sessions[c].client = x.client
      BY <1>2, <2>3 DEF Kept
    <2>6. Settled(z.sessions[c])
      <3>1. sid # NoSid
        BY DEF Engaged
      <3> QED  BY <2>3, <2>5, <3>1 DEF Settled
    <2>7. InSync(z.sessions[c], z.registry[sid])
      BY SMTT(30), <2>1, <2>3 DEF InSync, Exchanged
    <2>8. /\ z.client = w.client /\ z.generation = w.generation
          /\ DOMAIN z.registry = DOMAIN w.registry
          /\ \A k \in DOMAIN w.registry \ {sid} : z.registry[k] = w.registry[k]
      BY <2>1, <2>3 DEF Exchanged
    <2>9. Good(z)
      BY <2>1, <2>4, <2>5, <2>6, <2>7, <2>8, GoodKept
    <2>10. Engaged(z, c)
      BY <2>5, <2>8 DEF Engaged
    <2> QED  BY <2>5, <2>9, <2>10
  <1> QED  BY <1>1, <1>5, <1>6, <1>7 DEF IfFault

-----------------------------------------------------------------------------
(* Starting a session                                                      *)

\* prepare: a connection is prepared only while there is none, for the current
\* generation.
LEMMA PrepareGood ==
    ASSUME NEW w, Good(w)
    PROVE  Good(Prepare(w)) /\ Alike(w, Prepare(w))
  <1> DEFINE v == [w EXCEPT !.preparation = "working", !.expected = w.generation]
  <1>1. w \in Worlds
    BY DEF Good
  <1>2. CASE w.client.open \/ w.preparation # "idle"
    <2>1. Prepare(w) = w
      BY <1>2 DEF Prepare
    <2> QED  BY <1>1, <2>1 DEF Alike
  <1>3. CASE ~(w.client.open \/ w.preparation # "idle")
    <2>1. Prepare(w) = v
      BY <1>3 DEF Prepare
    <2>2. Alike(w, v) /\ v.expected = w.generation
      BY <1>1 DEF Alike, Worlds, Preparations
    <2> HIDE DEF v
    <2>3. PreparationFits(v)
      BY <1>3, <2>2 DEF PreparationFits, Alike
    <2> QED  BY <2>1, <2>2, <2>3, GoodAlike
  <1> QED  BY <1>2, <1>3

\* A controller that had no session got a new one, and agrees with it.
LEMMA GoodOpened ==
    ASSUME NEW w, Good(w), NEW c \in Controllers, ~Engaged(w, c), w.client.alive,
           NEW v, Frame(w, c, v), v.client = w.client, v.generation = w.generation,
           NEW sid \in Ids, sid \notin DOMAIN w.registry,
           DOMAIN v.registry = DOMAIN w.registry \cup {sid},
           \A k \in DOMAIN w.registry : v.registry[k] = w.registry[k],
           v.sessions[c].sid = sid, v.sessions[c].generation = w.generation,
           Settled(v.sessions[c]), InSync(v.sessions[c], v.registry[sid])
    PROVE  Good(v)
  <1>1. Engaged(v, c) /\ \A d \in Controllers \ {c} : Engaged(v, d) <=> Engaged(w, d)
    BY DEF Engaged, Frame, Ids, NoSid
  <1>2. Served(v, c) /\ \A d \in Controllers \ {c} : Served(v, d) <=> Served(w, d)
    BY <1>1 DEF Served
  <1>3. \A d \in Controllers \ {c} : v.sessions[d] = w.sessions[d]
    BY DEF Frame
  <1>4. \A d \in Controllers : Settled(v.sessions[d])
    BY <1>3 DEF Good
  <1>5. \A d \in Controllers \ {c} : Served(w, d) => w.sessions[d].sid \in DOMAIN w.registry
    BY DEF Good, SessionsFit
  <1>6. SessionsFit(v)
    <2> SUFFICES ASSUME NEW d \in Controllers, Served(v, d)
                 PROVE  /\ v.sessions[d].sid \in DOMAIN v.registry
                        /\ InSync(v.sessions[d], v.registry[v.sessions[d].sid])
                        /\ \A e \in Controllers \ {d} :
                              Served(v, e) => v.sessions[e].sid # v.sessions[d].sid
      BY DEF SessionsFit
    <2>1. CASE d = c
      BY <1>2, <1>3, <1>5, <2>1
    <2>2. CASE d # c
      <3>1. Served(w, d) /\ v.sessions[d] = w.sessions[d]
        BY <1>2, <1>3, <2>2
      <3>2. /\ w.sessions[d].sid \in DOMAIN w.registry
            /\ InSync(w.sessions[d], w.registry[w.sessions[d].sid])
            /\ \A e \in Controllers \ {d} :
                  Served(w, e) => w.sessions[e].sid # w.sessions[d].sid
        BY <3>1 DEF Good, SessionsFit
      <3>3. \A e \in Controllers \ {d} :
               Served(v, e) => v.sessions[e].sid # v.sessions[d].sid
        BY <1>2, <1>3, <3>1, <3>2
      <3> QED  BY <3>1, <3>2, <3>3
    <2> QED  BY <2>1, <2>2
  <1>7. RegistryFits(v)
    <2> SUFFICES ASSUME NEW k \in DOMAIN v.registry
                 PROVE  \E d \in Controllers : Served(v, d) /\ v.sessions[d].sid = k
      BY DEF RegistryFits
    <2>1. CASE k = sid
      BY <1>2, <2>1
    <2>2. CASE k # sid
      <3>1. PICK d \in Controllers : Served(w, d) /\ w.sessions[d].sid = k
        BY <2>2 DEF Good, RegistryFits
      <3>2. d # c
        BY <3>1 DEF Served
      <3> QED  BY <1>2, <1>3, <3>1, <3>2
    <2> QED  BY <2>1, <2>2
  <1>8. ClientFits(v)
    BY <1>1 DEF Good, ClientFits
  <1>9. PreparationFits(v)
    BY DEF Good, PreparationFits, Frame
  <1> QED  BY <1>4, <1>6, <1>7, <1>8, <1>9 DEF Good, Frame

\* A session id that nothing uses.
LEMMA FreshSession ==
    ASSUME NEW w, Good(w)
    PROVE  LET used == DOMAIN w.registry \cup {w.sessions[d].sid : d \in Controllers}
           IN  /\ Fresh(used \ {NoSid}) \in Ids
               /\ Fresh(used \ {NoSid}) \notin DOMAIN w.registry
  <1> DEFINE sids == {w.sessions[d].sid : d \in Controllers}
             used == DOMAIN w.registry \cup sids
             f == [d \in Controllers |-> w.sessions[d].sid]
  <1>1. DOMAIN w.registry \subseteq sids
    BY DEF Good, RegistryFits
  <1>2. IsFiniteSet(sids)
    <2>1. f = [d \in Controllers |-> f[d]] /\ IsFiniteSet(Controllers)
      BY MacAssumption
    <2>2. sids = {f[d] : d \in Controllers}
      OBVIOUS
    <2> HIDE DEF f, sids
    <2> QED  BY <2>1, <2>2, FiniteRange
  <1>3. used \ {NoSid} = sids \ {NoSid}
    BY <1>1
  <1> HIDE DEF sids
  <1>4. IsFiniteSet(sids \ {NoSid})
    BY <1>2, FS_RemoveElement
  <1> DEFINE rest == used \ {NoSid}
  <1>5. IsFiniteSet(rest)
    BY <1>3, <1>4
  <1>6. DOMAIN w.registry \subseteq rest
    <2>1. w.registry \in Registries
      BY DEF Good, Worlds
    <2> QED  BY <2>1, RegistryType DEF Ids, NoSid
  <1> HIDE DEF rest
  <1>7. Fresh(rest) \in Ids /\ Fresh(rest) \notin rest
    BY <1>5, FreshIsUnused
  <1>8. Fresh(rest) \in Ids /\ Fresh(rest) \notin DOMAIN w.registry
    BY <1>6, <1>7
  <1> QED  BY <1>8 DEF rest, sids

\* start sends StartSession: the controller has a session of its own that shows
\* nothing, or no session and no connection.
LEMMA OpenGood ==
    ASSUME NEW w, Good(w), NEW c \in Controllers, w.sessions[c].sid = NoSid,
           w.client.open, NEW r \in Open(w, c)
    PROVE  /\ Good(r.w) /\ r.ok \in BOOLEAN
           /\ r.ok => Engaged(r.w, c)
           /\ ~r.ok => r.w.sessions[c].sid = NoSid
           /\ r.w.sessions[c].client = w.sessions[c].client
  <1> DEFINE used == DOMAIN w.registry \cup {w.sessions[d].sid : d \in Controllers}
             sid == Fresh(used \ {NoSid})
             x == w.sessions[c]
             y == [[[x EXCEPT !.generation = w.generation] EXCEPT !.sid = sid]
                      EXCEPT !.next = 1]
             fresh == [w EXCEPT !.sessions[c].generation = w.generation,
                                !.sessions[c].sid = sid,
                                !.sessions[c].next = 1]
             request == Plain("Start")
  <1>1. PICK o \in Request(fresh, c, request) :
               r = IF o.reply.kind = "state"
                   THEN [w |-> [o.w EXCEPT !.sessions[c].state = o.reply.shows], ok |-> TRUE]
                   ELSE [w |-> Fail(o.w, c), ok |-> FALSE]
    BY DEF Open
  <1>2. sid \in Ids /\ sid \notin DOMAIN w.registry
    BY FreshSession
  <1> HIDE DEF sid, request
  <1>3. /\ w \in Worlds /\ x \in InputSessions /\ w.generation \in Nat /\ ~w.outdated
        /\ w.preparation = "idle" /\ ~Engaged(w, c)
    BY DEF Good, Worlds, PreparationFits, Engaged
  <1>4. /\ x.state = Nothing /\ x.panel = Nothing /\ x.typos = 0
        /\ x.marked = x.state.text
    BY DEF Good, Settled
  <1>5. /\ y \in InputSessions /\ y.sid = sid /\ y.next = 1
        /\ y.generation = w.generation /\ y.state = x.state /\ y.panel = x.panel
        /\ y.typos = x.typos /\ y.client = x.client /\ y.marked = x.marked
    BY <1>2, <1>3 DEF InputSessions, Ids
  <1>6. fresh.sessions = [w.sessions EXCEPT ![c] = y]
    BY <1>3 DEF Worlds
  <1> HIDE DEF y
  <1>7. /\ fresh.sessions \in [Controllers -> InputSessions] /\ fresh.sessions[c] = y
        /\ \A d \in Controllers \ {c} : fresh.sessions[d] = w.sessions[d]
    BY <1>3, <1>5, <1>6 DEF Worlds
  <1>8. /\ fresh \in Worlds /\ fresh.client = w.client /\ fresh.registry = w.registry
        /\ fresh.generation = w.generation /\ fresh.outdated = w.outdated
        /\ fresh.preparation = w.preparation /\ fresh.expected = w.expected
    BY <1>3, <1>7 DEF Worlds
  <1> HIDE DEF fresh, x
  <1> DEFINE all == Handle(w.registry, sid, 1, request)
  <1>9. ASSUME NEW a \in all
        PROVE  /\ a.registry \in Registries
               /\ a.reply \in Replies /\ ~Misaddressed(request, a.reply.code)
               /\ \/ /\ a.reply.kind = "state" /\ a.reply.shows = Nothing
                     /\ DOMAIN a.registry = DOMAIN w.registry \cup {sid}
                     /\ a.registry[sid] = [last |-> 1, shows |-> Nothing, typos |-> 0]
                     /\ \A k \in DOMAIN w.registry : a.registry[k] = w.registry[k]
                  \/ a.reply.kind = "error" /\ a.registry = w.registry
    <2>1. w.registry \in Registries
      BY <1>3 DEF Worlds
    <2> QED  BY <1>2, <2>1, HandleStarts DEF request
  <1>10. \A a \in all : /\ Accepts(a)
                        /\ sid \in DOMAIN a.registry => a.registry[sid].last \in 0..1
    <2> SUFFICES ASSUME NEW a \in all
                 PROVE  /\ Accepts(a)
                        /\ sid \in DOMAIN a.registry => a.registry[sid].last \in 0..1
      OBVIOUS
    <2>1. Accepts(a)
      BY <1>9 DEF Accepts, Misaddressed
    <2>2. sid \in DOMAIN a.registry => a.registry[sid].last = 1
      BY <1>2, <1>9
    <2> QED  BY <2>1, <2>2
  <1>11. fresh.sessions[c].sid = sid /\ fresh.sessions[c].next = 1
    BY <1>5, <1>7
  <1>12. /\ Frame(fresh, c, o.w) /\ Kept(y, o.w.sessions[c])
         /\ \/ o.reply.kind = "error" /\ Dead(o.w)
            \/ /\ w.client.alive
               /\ \E a \in all : Answered(fresh, c, a, o.w, o.reply)
    <2>1. fresh.client.alive =>
            \A a \in Handle(fresh.registry, fresh.sessions[c].sid,
                            fresh.sessions[c].next, request) :
               /\ Accepts(a)
               /\ fresh.sessions[c].sid \in DOMAIN a.registry =>
                     a.registry[fresh.sessions[c].sid].last \in 0..fresh.sessions[c].next
      BY <1>8, <1>10, <1>11
    <2>2. all = Handle(fresh.registry, fresh.sessions[c].sid, fresh.sessions[c].next, request)
      BY <1>8, <1>11
    <2>3. fresh.client.open
      BY <1>8
    <2> HIDE DEF all
    <2> QED  BY <1>1, <1>7, <1>8, <2>1, <2>2, <2>3, RequestFacts
  <1>13. /\ o.w.sessions[c].sid = sid /\ o.w.sessions[c].generation = w.generation
         /\ o.w.sessions[c].state = Nothing /\ o.w.sessions[c].panel = Nothing
         /\ o.w.sessions[c].typos = 0 /\ o.w.sessions[c].client = x.client
         /\ o.w.sessions[c].marked = Nothing.text
    BY <1>4, <1>5, <1>12 DEF Kept
  <1>14. Settled(o.w.sessions[c])
    BY <1>13, NothingShown DEF Settled
  <1>15. /\ Frame(w, c, o.w) /\ o.w \in Worlds /\ ~o.w.outdated
         /\ o.w.preparation = "idle"
         /\ \A d \in Controllers : Settled(o.w.sessions[d])
    BY <1>3, <1>7, <1>8, <1>12, <1>14 DEF Frame, Good
  <1>16. CASE o.reply.kind # "state"
    <2>1. r = [w |-> Fail(o.w, c), ok |-> FALSE]
      BY <1>1, <1>16
    <2>2. r.w = Fail(o.w, c) /\ r.ok = FALSE
      BY <2>1
    <2> QED  BY ZenonT(30), <1>13, <1>15, <2>2, FailGood DEF x
  <1>17. CASE o.reply.kind = "state"
    <2>1. PICK a \in all : w.client.alive /\ Answered(fresh, c, a, o.w, o.reply)
      BY <1>12, <1>17
    <2>2. /\ a.reply = o.reply /\ o.reply.shows = Nothing
          /\ DOMAIN a.registry = DOMAIN w.registry \cup {sid}
          /\ a.registry[sid].last = 1 /\ a.registry[sid].shows = Nothing
          /\ a.registry[sid].typos = 0
          /\ \A k \in DOMAIN w.registry : a.registry[k] = w.registry[k]
      BY <1>9, <1>17, <2>1 DEF Answered
    <2>3. /\ o.w.client = w.client /\ o.w.generation = w.generation
          /\ Renumbered(a.registry, sid, o.w.registry)
          /\ o.w.sessions[c].next = 1
      BY <1>8, <1>11, <2>1, <2>2 DEF Answered
    <2>4. /\ DOMAIN o.w.registry = DOMAIN w.registry \cup {sid}
          /\ \A k \in DOMAIN w.registry : o.w.registry[k] = w.registry[k]
          /\ o.w.registry[sid].last = 0 /\ o.w.registry[sid].shows = Nothing
          /\ o.w.registry[sid].typos = 0
      BY <1>2, <2>2, <2>3 DEF Renumbered
    <2> DEFINE v == [o.w EXCEPT !.sessions[c].state = o.reply.shows]
               z == [o.w.sessions[c] EXCEPT !.state = Nothing]
    <2>5. r.w = v /\ r.ok = TRUE
      <3>1. r = [w |-> v, ok |-> TRUE]
        BY <1>1, <1>17
      <3> HIDE DEF v
      <3> QED  BY <3>1
    <2>6. v.sessions = [o.w.sessions EXCEPT ![c] = z]
      BY <1>15, <2>2 DEF Worlds
    <2>7. /\ z \in InputSessions /\ z.sid = sid /\ z.generation = w.generation
          /\ z.next = 1 /\ z.state = Nothing /\ z.panel = Nothing /\ z.typos = 0
          /\ z.client = x.client /\ z.marked = Nothing.text
      <3>1. o.w.sessions[c] \in InputSessions
        BY <1>15 DEF Worlds
      <3> QED  BY <1>13, <2>3, <3>1, NothingShown DEF InputSessions
    <2> HIDE DEF z
    <2>8. /\ v.sessions \in [Controllers -> InputSessions] /\ v.sessions[c] = z
          /\ \A d \in Controllers \ {c} : v.sessions[d] = o.w.sessions[d]
      BY <1>15, <2>6, <2>7 DEF Worlds
    <2>9. /\ v \in Worlds /\ v.client = o.w.client /\ v.registry = o.w.registry
          /\ v.generation = o.w.generation /\ v.outdated = o.w.outdated
          /\ v.preparation = o.w.preparation /\ v.expected = o.w.expected
      BY <1>15, <2>8 DEF Worlds
    <2> HIDE DEF v
    <2>10. Frame(w, c, v)
      BY <1>15, <2>8, <2>9 DEF Frame
    <2>11. InSync(v.sessions[c], v.registry[sid])
      BY <2>4, <2>7, <2>8, <2>9 DEF InSync
    <2>12. Settled(v.sessions[c])
      BY <2>7, <2>8, NothingShown DEF Settled
    <2>13. /\ v.client = w.client /\ v.generation = w.generation
           /\ DOMAIN v.registry = DOMAIN w.registry \cup {sid}
           /\ \A k \in DOMAIN w.registry : v.registry[k] = w.registry[k]
           /\ v.sessions[c].sid = sid /\ v.sessions[c].generation = w.generation
           /\ v.sessions[c].client = x.client
      BY <2>3, <2>4, <2>7, <2>8, <2>9
    <2>14. Good(v)
      BY <1>2, <1>3, <2>1, <2>10, <2>11, <2>12, <2>13, GoodOpened
    <2>15. Engaged(v, c)
      BY <1>2, <2>13 DEF Engaged, Ids, NoSid
    <2> QED  BY <2>5, <2>13, <2>14, <2>15 DEF x
  <1> QED  BY <1>16, <1>17

\* start: on success the controller has a session of this generation, else none.
LEMMA StartGood ==
    ASSUME NEW w, Good(w), NEW c \in Controllers, NEW s \in Start(w, c)
    PROVE  /\ Good(s.w) /\ s.ok \in BOOLEAN
           /\ s.ok => Engaged(s.w, c)
           /\ ~s.ok => s.w.sessions[c].sid = NoSid
           /\ s.w.sessions[c].client = w.sessions[c].client
  <1> DEFINE v == Current(w, c)
  <1>1. /\ Good(v) /\ v.sessions[c].client = w.sessions[c].client
        /\ v.sessions[c].sid # NoSid => Engaged(v, c)
    <2>1. CASE w.sessions[c].generation # w.generation
      <3>1. v = Clear(w, c) /\ ~Engaged(w, c)
        BY <2>1 DEF Current, Engaged
      <3> HIDE DEF v
      <3>2. /\ Good(Clear(w, c)) /\ Blank(Clear(w, c).sessions[c])
            /\ Clear(w, c).sessions[c].client = w.sessions[c].client
        BY <3>1, ClearGood
      <3> QED  BY <3>1, <3>2 DEF Blank
    <2>2. CASE w.sessions[c].generation = w.generation
      <3>1. v = w
        BY <2>2 DEF Current
      <3> HIDE DEF v
      <3> QED  BY <2>2, <3>1 DEF Engaged
    <2> QED  BY <2>1, <2>2
  <1>2. CASE v.sessions[c].sid # NoSid
    <2>1. s = [w |-> v, ok |-> TRUE]
      BY <1>2 DEF Start
    <2> HIDE DEF v
    <2>2. s.w = v /\ s.ok = TRUE
      BY <2>1
    <2> QED  BY <1>1, <1>2, <2>2
  <1>3. CASE v.sessions[c].sid = NoSid /\ ~v.client.open
    <2> DEFINE u == Prepare(v)
    <2>1. s = [w |-> u, ok |-> FALSE]
      BY <1>3 DEF Start
    <2> HIDE DEF v
    <2>2. Good(u) /\ Alike(v, u)
      BY <1>1, PrepareGood
    <2> HIDE DEF u
    <2>3. s.w = u /\ s.ok = FALSE
      BY <2>1
    <2> QED  BY <1>1, <1>3, <2>2, <2>3 DEF Alike
  <1>4. CASE v.sessions[c].sid = NoSid /\ v.client.open
    <2>1. s \in Open(v, c)
      BY <1>4 DEF Start
    <2> HIDE DEF v
    <2> QED  BY <1>1, <1>4, <2>1, OpenGood
  <1> QED  BY <1>2, <1>3, <1>4

-----------------------------------------------------------------------------
(* The handlers                                                            *)

SetClient(w, c, b) == [w EXCEPT !.sessions[c].client = b]

\* Taking or dropping the text client changes nothing else.
LEMMA SetClientFacts ==
    ASSUME NEW w \in Worlds, NEW c \in Controllers, NEW b \in BOOLEAN
    PROVE  LET v == SetClient(w, c, b)
               x == w.sessions[c]
               y == v.sessions[c]
           IN  /\ Frame(w, c, v) /\ v.client = w.client /\ v.registry = w.registry
               /\ v.generation = w.generation
               /\ y.sid = x.sid /\ y.next = x.next /\ y.generation = x.generation
               /\ y.state = x.state /\ y.panel = x.panel /\ y.typos = x.typos
               /\ y.marked = x.marked /\ y.client = b
  <1> DEFINE v == SetClient(w, c, b)
             x == w.sessions[c]
             y == [x EXCEPT !.client = b]
  <1>1. x \in InputSessions
    BY DEF Worlds
  <1>2. /\ y \in InputSessions
        /\ y.sid = x.sid /\ y.next = x.next /\ y.generation = x.generation
        /\ y.state = x.state /\ y.panel = x.panel /\ y.typos = x.typos
        /\ y.marked = x.marked /\ y.client = b
    BY <1>1 DEF InputSessions
  <1>3. v.sessions = [w.sessions EXCEPT ![c] = y]
    BY DEF Worlds, SetClient
  <1> HIDE DEF y
  <1>4. /\ v.sessions \in [Controllers -> InputSessions] /\ v.sessions[c] = y
        /\ \A d \in Controllers \ {c} : v.sessions[d] = w.sessions[d]
    BY <1>2, <1>3 DEF Worlds
  <1>5. /\ v \in Worlds /\ v.client = w.client /\ v.registry = w.registry
        /\ v.generation = w.generation /\ v.outdated = w.outdated
        /\ v.preparation = w.preparation /\ v.expected = w.expected
    BY <1>4 DEF Worlds, SetClient
  <1> QED  BY <1>2, <1>4, <1>5 DEF Frame

\* An event brings its text client, and the world stays good.
LEMMA TakeClientGood ==
    ASSUME NEW w, Good(w), NEW c \in Controllers
    PROVE  LET v == SetClient(w, c, TRUE)
           IN  /\ Good(v) /\ v.sessions[c].client
               /\ v.sessions[c].sid = w.sessions[c].sid
               /\ v.sessions[c].generation = w.sessions[c].generation
               /\ v.generation = w.generation
  <1> DEFINE v == SetClient(w, c, TRUE)
             x == w.sessions[c]
             y == v.sessions[c]
  <1>1. w \in Worlds /\ Settled(x)
    BY DEF Good
  <1>2. /\ Frame(w, c, v) /\ v.client = w.client /\ v.registry = w.registry
        /\ v.generation = w.generation
        /\ y.sid = x.sid /\ y.next = x.next /\ y.generation = x.generation
        /\ y.state = x.state /\ y.panel = x.panel /\ y.typos = x.typos
        /\ y.marked = x.marked /\ y.client = TRUE
    BY <1>1, SetClientFacts
  <1> HIDE DEF v
  <1>3. Settled(y)
    BY <1>1, <1>2 DEF Settled
  <1>4. Served(w, c) => InSync(y, v.registry[x.sid])
    BY <1>2 DEF Good, SessionsFit, InSync
  <1>5. ~w.client.alive => v.registry = NoSessions
    BY <1>2 DEF Good, ClientFits
  <1>6. Good(v)
    BY <1>2, <1>3, <1>4, <1>5, GoodKept
  <1> QED  BY <1>2, <1>6 DEF v

\* reset of the panel: activateServer shows no list.
LEMMA PanelResetGood ==
    ASSUME NEW w, Good(w), NEW c \in Controllers
    PROVE  Good(PanelReset(w, c))
  <1> DEFINE v == PanelReset(w, c)
             x == w.sessions[c]
             y == v.sessions[c]
  <1>1. w \in Worlds /\ Settled(x)
    BY DEF Good
  <1>2. /\ Frame(w, c, v) /\ v.client = w.client /\ v.registry = w.registry
        /\ v.generation = w.generation
        /\ y.sid = x.sid /\ y.next = x.next /\ y.generation = x.generation
        /\ y.state = x.state /\ y.client = x.client /\ y.marked = x.marked
        /\ y.panel = Nothing /\ y.typos = 0
    BY <1>1, PanelResetFacts
  <1> HIDE DEF v
  <1>3. Settled(y)
    BY <1>1, <1>2 DEF Settled
  <1>4. Served(w, c) => InSync(y, v.registry[x.sid])
    BY <1>2 DEF Good, SessionsFit, InSync
  <1>5. ~w.client.alive => v.registry = NoSessions
    BY <1>2 DEF Good, ClientFits
  <1>6. Good(v)
    BY <1>2, <1>3, <1>4, <1>5, GoodKept
  <1> QED  BY <1>6 DEF v

\* A request without an index.
LEMMA PlainRequest ==
    ASSUME NEW kind \in SessionKinds
    PROVE  Plain(kind) \in Requests
  BY DEF Plain, Requests

\* A request with an index.
LEMMA IndexRequest ==
    ASSUME NEW kind \in SessionKinds, NEW i \in Nat
    PROVE  At(kind, i) \in Requests
  BY DEF At, Requests

\* Any request after start, over a text client.
LEMMA SendStartedGood ==
    ASSUME NEW w, Good(w), NEW c \in Controllers, w.sessions[c].client,
           NEW request \in Requests, NEW z \in SendStarted(w, c, request)
    PROVE  Good(z)
  <1>1. PICK s \in Start(w, c) : z \in (IF s.ok THEN Send(s.w, c, request) ELSE {s.w})
    BY DEF SendStarted
  <1>2. /\ Good(s.w) /\ s.ok \in BOOLEAN /\ (s.ok => Engaged(s.w, c))
        /\ s.w.sessions[c].client = w.sessions[c].client
    BY <1>1, StartGood
  <1>3. CASE s.ok
    BY <1>1, <1>2, <1>3, SendGood
  <1>4. CASE ~s.ok
    BY <1>1, <1>2, <1>4
  <1> QED  BY <1>3, <1>4

\* select leaves a good world.
LEMMA SelectGood ==
    ASSUME NEW w, Good(w), NEW c \in Controllers, w.sessions[c].client,
           NEW i \in Nat, NEW z \in Select(w, c, i)
    PROVE  Good(z)
  <1>1. PICK s \in Start(w, c) :
               z \in (IF ~s.ok THEN {s.w}
                      ELSE Send(s.w, c, At(IF s.w.sessions[c].typos > 0
                                           THEN "SelectTypo" ELSE "Select", i)))
    BY DEF Select
  <1>2. /\ Good(s.w) /\ s.ok \in BOOLEAN /\ (s.ok => Engaged(s.w, c))
        /\ s.w.sessions[c].client = w.sessions[c].client
    BY <1>1, StartGood
  <1>3. CASE ~s.ok
    BY <1>1, <1>2, <1>3
  <1>4. CASE s.ok
    <2> DEFINE kind == IF s.w.sessions[c].typos > 0 THEN "SelectTypo" ELSE "Select"
    <2>1. z \in Send(s.w, c, At(kind, i))
      BY <1>1, <1>4
    <2>2. kind \in SessionKinds
      BY DEF SessionKinds
    <2> HIDE DEF kind
    <2>3. At(kind, i) \in Requests
      BY <2>2, IndexRequest
    <2> QED  BY <1>2, <1>4, <2>1, <2>3, SendGood
  <1> QED  BY <1>3, <1>4

\* The indices of what is listed are natural numbers.
LEMMA ListedFacts ==
    ASSUME NEW w, Good(w), NEW c \in Controllers
    PROVE  /\ Listed(w.sessions[c].panel) \subseteq Nat
           /\ 0..(w.sessions[c].typos - 1) \subseteq Nat
  <1>1. w.sessions[c] \in InputSessions
    BY DEF Good, Worlds
  <1>2. w.sessions[c].panel.cands \in Nat /\ w.sessions[c].typos \in Nat
    BY <1>1, RegistryAssumption DEF InputSessions, Presentations
  <1> QED  BY <1>2 DEF Listed

\* handleEvent: every key leaves a good world.
LEMMA HandleEventGood ==
    ASSUME NEW w, Good(w), NEW c \in Controllers, NEW z \in HandleEvent(w, c)
    PROVE  Good(z)
  <1> DEFINE v == SetClient(w, c, TRUE)
             me(s) == s.w.sessions[c]
             A(s) == UNION {Select(s.w, c, i) : i \in RowDigits(me(s))}
             B(s) == IF me(s).typos > 0 THEN {s.w} ELSE {}
             C(s) == Send(s.w, c, Plain("Key"))
             D(s) == UNION {Send(s.w, c, At("Digit", n)) : n \in Digits \ RowDigits(me(s))}
  <1>1. PICK s \in Start(v, c) :
               z \in (IF ~s.ok THEN {Clear(s.w, c)} ELSE A(s) \cup B(s) \cup D(s) \cup C(s))
    BY DEF HandleEvent, SetClient
  <1>2. Good(v) /\ v.sessions[c].client
    BY TakeClientGood
  <1> HIDE DEF v
  <1>3. /\ Good(s.w) /\ s.ok \in BOOLEAN /\ (s.ok => Engaged(s.w, c))
        /\ ~s.ok => s.w.sessions[c].sid = NoSid
        /\ s.w.sessions[c].client = v.sessions[c].client
    BY <1>1, <1>2, StartGood
  <1>4. CASE ~s.ok
    <2>1. z = Clear(s.w, c) /\ ~Engaged(s.w, c)
      BY <1>1, <1>3, <1>4 DEF Engaged
    <2> QED  BY <1>3, <2>1, ClearGood
  <1>5. CASE s.ok
    <2>1. z \in A(s) \/ z \in B(s) \/ z \in C(s) \/ z \in D(s)
      <3> HIDE DEF A, B, C, D
      <3> QED  BY <1>1, <1>5
    <2>2. ASSUME z \in A(s) PROVE Good(z)
      <3>1. PICK i \in RowDigits(me(s)) : z \in Select(s.w, c, i)
        BY <2>2
      <3>2. i \in Nat
        <4>1. /\ Listed(me(s).panel) \subseteq Nat /\ 0..(me(s).typos - 1) \subseteq Nat
          BY <1>3, ListedFacts
        <4> QED  BY <3>1, <4>1 DEF RowDigits
      <3> QED  BY <1>2, <1>3, <3>1, <3>2, SelectGood
    <2>3. ASSUME z \in B(s) PROVE Good(z)
      BY <1>3, <2>3
    <2>4. ASSUME z \in C(s) PROVE Good(z)
      <3>1. Plain("Key") \in Requests
        BY PlainRequest DEF SessionKinds
      <3> QED  BY <1>2, <1>3, <1>5, <2>4, <3>1, SendGood
    <2>5. ASSUME z \in D(s) PROVE Good(z)
      <3>1. PICK n \in Digits : z \in Send(s.w, c, At("Digit", n))
        BY <2>5
      <3>2. At("Digit", n) \in Requests
        BY <3>1, IndexRequest, RegistryAssumption DEF SessionKinds, Digits
      <3> QED  BY <1>2, <1>3, <1>5, <3>1, <3>2, SendGood
    <2> HIDE DEF A, B, C, D
    <2> QED  BY <2>1, <2>2, <2>3, <2>4, <2>5
  <1> QED  BY <1>4, <1>5

\* requestTypos: the panel lists the corrections instead of the candidates, or
\* the state again when there are none.
LEMMA ShowTyposFacts ==
    ASSUME NEW w \in Worlds, NEW c \in Controllers, NEW n \in Nat
    PROVE  LET v == ShowTypos(w, c, n)
               x == w.sessions[c]
               y == v.sessions[c]
           IN  /\ Frame(w, c, v) /\ v.client = w.client /\ v.registry = w.registry
               /\ v.generation = w.generation
               /\ y.sid = x.sid /\ y.next = x.next /\ y.generation = x.generation
               /\ y.state = x.state /\ y.client = x.client /\ y.marked = x.marked
               /\ y.panel \in {Nothing, x.state} /\ y.typos = n
  <1> DEFINE v == ShowTypos(w, c, n)
             x == w.sessions[c]
             y == [[x EXCEPT !.typos = n] EXCEPT !.panel = Nothing]
  <1>1. CASE n = 0
    <2>1. v = ShowState(w, c)
      BY <1>1 DEF ShowTypos
    <2> HIDE DEF v
    <2> DEFINE u == ShowState(w, c)
    <2>2. /\ Frame(w, c, u) /\ u.client = w.client /\ u.registry = w.registry
          /\ u.generation = w.generation
          /\ u.sessions[c].sid = x.sid /\ u.sessions[c].next = x.next
          /\ u.sessions[c].generation = x.generation
          /\ u.sessions[c].state = x.state /\ u.sessions[c].client = x.client
          /\ u.sessions[c].marked = x.marked
          /\ u.sessions[c].panel = x.state /\ u.sessions[c].typos = 0
      BY ShowStateFacts
    <2> HIDE DEF u
    <2> QED  BY <1>1, <2>1, <2>2 DEF u, v
  <1>2. CASE n # 0
    <2>1. x \in InputSessions
      BY DEF Worlds
    <2>2. /\ y \in InputSessions
          /\ y.sid = x.sid /\ y.next = x.next /\ y.generation = x.generation
          /\ y.state = x.state /\ y.client = x.client /\ y.marked = x.marked
          /\ y.panel = Nothing /\ y.typos = n
      BY <2>1, NothingShown DEF InputSessions
    <2>3. v.sessions = [w.sessions EXCEPT ![c] = y]
      BY <1>2 DEF Worlds, ShowTypos
    <2> HIDE DEF y
    <2>4. /\ v.sessions \in [Controllers -> InputSessions] /\ v.sessions[c] = y
          /\ \A d \in Controllers \ {c} : v.sessions[d] = w.sessions[d]
      BY <2>2, <2>3 DEF Worlds
    <2>5. /\ v \in Worlds /\ v.client = w.client /\ v.registry = w.registry
          /\ v.generation = w.generation /\ v.outdated = w.outdated
          /\ v.preparation = w.preparation /\ v.expected = w.expected
      BY <1>2, <2>4 DEF Worlds, ShowTypos
    <2> QED  BY <2>2, <2>4, <2>5 DEF Frame
  <1> QED  BY <1>1, <1>2

\* requestTypos: the corrections listed are those the session keeps.
LEMMA AskTyposGood ==
    ASSUME NEW w, Good(w), NEW c \in Controllers, w.sessions[c].client,
           NEW z \in AskTypos(w, c)
    PROVE  Good(z)
  <1> DEFINE request == Plain("RequestTypos")
  <1>1. PICK s \in Start(w, c) :
               z \in (IF ~s.ok THEN {s.w}
                      ELSE {IF o.reply.kind = "typos" THEN ShowTypos(o.w, c, o.reply.typos)
                            ELSE Fail(o.w, c) : o \in Request(s.w, c, request)})
    BY DEF AskTypos
  <1>2. /\ Good(s.w) /\ s.ok \in BOOLEAN /\ (s.ok => Engaged(s.w, c))
    BY <1>1, StartGood
  <1>3. CASE ~s.ok
    BY <1>1, <1>2, <1>3
  <1>4. CASE s.ok
    <2> DEFINE x == s.w.sessions[c]
               sid == x.sid
    <2>1. PICK o \in Request(s.w, c, request) :
                 z = IF o.reply.kind = "typos" THEN ShowTypos(o.w, c, o.reply.typos)
                     ELSE Fail(o.w, c)
      BY <1>1, <1>4
    <2>2. request \in Requests
      BY PlainRequest DEF SessionKinds
    <2>3. /\ Frame(s.w, c, o.w) /\ Kept(x, o.w.sessions[c])
          /\ \/ o.reply.kind = "error" /\ Dead(o.w)
             \/ /\ s.w.client.alive /\ Exchanged(s.w, c, o.w)
                /\ Tells(s.w.registry[sid], request, o.w.registry[sid], o.reply)
      <3> HIDE DEF request
      <3> QED  BY <1>2, <1>4, <2>1, <2>2, SessionRequestFacts
    <2>4. /\ o.w \in Worlds /\ ~o.w.outdated /\ o.w.preparation = "idle"
          /\ \A d \in Controllers : Settled(o.w.sessions[d])
      <3>1. s.w.preparation = "idle"
        BY <1>2, <1>4, EngagedFacts
      <3> QED  BY <1>2, <2>3, <3>1, RequestSettled
    <2>5. CASE o.reply.kind # "typos"
      BY <2>1, <2>4, <2>5, FailGood
    <2>6. CASE o.reply.kind = "typos"
      <3> DEFINE n == o.reply.typos
      <3>1. z = ShowTypos(o.w, c, n)
        BY <2>1, <2>6
      <3>2. /\ s.w.client.alive /\ Exchanged(s.w, c, o.w)
            /\ o.w.registry[sid].shows = s.w.registry[sid].shows
            /\ o.w.registry[sid].typos = n /\ n \in Nat
        BY <2>3, <2>6 DEF Tells, Replies
      <3>3. Served(s.w, c) /\ sid # NoSid
        BY <1>2, <1>4, <3>2 DEF Engaged, Served
      <3>4. InSync(x, s.w.registry[sid])
        BY <1>2, <3>3 DEF Good, SessionsFit
      <3>5. /\ Frame(o.w, c, z) /\ z.client = o.w.client /\ z.registry = o.w.registry
            /\ z.generation = o.w.generation
            /\ z.sessions[c].sid = o.w.sessions[c].sid
            /\ z.sessions[c].next = o.w.sessions[c].next
            /\ z.sessions[c].generation = o.w.sessions[c].generation
            /\ z.sessions[c].state = o.w.sessions[c].state
            /\ z.sessions[c].client = o.w.sessions[c].client
            /\ z.sessions[c].marked = o.w.sessions[c].marked
            /\ z.sessions[c].panel \in {Nothing, o.w.sessions[c].state}
            /\ z.sessions[c].typos = n
        <4>1. o.w \in Worlds /\ n \in Nat
          BY <2>4, <3>2
        <4> DEFINE u == o.w
                   v == ShowTypos(u, c, n)
        <4> HIDE DEF u, n
        <4>2. /\ Frame(u, c, v) /\ v.client = u.client /\ v.registry = u.registry
              /\ v.generation = u.generation
              /\ v.sessions[c].sid = u.sessions[c].sid
              /\ v.sessions[c].next = u.sessions[c].next
              /\ v.sessions[c].generation = u.sessions[c].generation
              /\ v.sessions[c].state = u.sessions[c].state
              /\ v.sessions[c].client = u.sessions[c].client
              /\ v.sessions[c].marked = u.sessions[c].marked
              /\ v.sessions[c].panel \in {Nothing, u.sessions[c].state}
              /\ v.sessions[c].typos = n
          <5>1. u \in Worlds
            BY <4>1 DEF u
          <5> QED  BY <4>1, <5>1, ShowTyposFacts
        <4>3. z = v
          BY <3>1 DEF u
        <4> HIDE DEF v
        <4> QED  BY <4>2, <4>3 DEF u
      <3>6. o.w.sessions[c].state = o.w.registry[sid].shows
        <4>1. x.state = s.w.registry[sid].shows
          BY <3>4 DEF InSync
        <4>2. o.w.sessions[c].state = x.state
          BY <2>3 DEF Kept
        <4> QED  BY <3>2, <4>1, <4>2
      <3>7. InSync(z.sessions[c], z.registry[sid])
        <4> DEFINE t == o.w.registry[sid]
        <4>1. t.last = 0 /\ z.sessions[c].next = 1
          BY <3>2, <3>5 DEF Exchanged
        <4>2. /\ z.sessions[c].state = t.shows /\ z.sessions[c].panel \in {Nothing, t.shows}
              /\ z.sessions[c].typos = t.typos
          BY <3>2, <3>5, <3>6
        <4> HIDE DEF t
        <4>3. InSync(z.sessions[c], t)
          BY <4>1, <4>2 DEF InSync
        <4> QED  BY <3>5, <4>3 DEF t
      <3>8. Frame(s.w, c, z)
        BY <2>3, <3>5 DEF Frame
      <3>9. /\ z.client = s.w.client /\ z.generation = s.w.generation
            /\ DOMAIN z.registry = DOMAIN s.w.registry
            /\ \A k \in DOMAIN s.w.registry \ {sid} : z.registry[k] = s.w.registry[k]
        BY <3>2, <3>5 DEF Exchanged
      <3>10. z.sessions[c].sid = sid /\ z.sessions[c].generation = x.generation
        BY <2>3, <3>5 DEF Kept
      <3>11. Settled(z.sessions[c])
        <4>1. Settled(o.w.sessions[c])
          BY <2>4
        <4> QED  BY <3>3, <3>5, <3>10, <4>1 DEF Settled
      <3>12. Good(z)
        BY <1>2, <1>4, <3>2, <3>7, <3>8, <3>9, <3>10, <3>11, GoodKept
      <3> QED  BY <3>12
    <2> QED  BY <2>5, <2>6
  <1> QED  BY <1>3, <1>4

\* commit: a session of an older generation is cleared, else its text is
\* committed.
LEMMA CommitGood ==
    ASSUME NEW w, Good(w), NEW c \in Controllers, NEW z \in Commit(w, c)
    PROVE  Good(z) /\ (z.sessions[c].sid # NoSid => Engaged(z, c))
  <1> DEFINE v == SetClient(w, c, TRUE)
             old == v.sessions[c].sid = NoSid \/ v.sessions[c].generation # v.generation
  <1>1. Good(v) /\ v.sessions[c].client
    BY TakeClientGood
  <1>2. z \in (IF old THEN {Clear(v, c)} ELSE Send(v, c, Plain("Commit")))
    BY DEF Commit, SetClient
  <1> HIDE DEF v
  <1>3. CASE old
    <2>1. z = Clear(v, c) /\ ~Engaged(v, c)
      BY <1>2, <1>3 DEF Engaged
    <2>2. Good(Clear(v, c)) /\ Blank(Clear(v, c).sessions[c])
      BY <1>1, <2>1, ClearGood
    <2> QED  BY <2>1, <2>2 DEF Blank
  <1>4. CASE ~old
    <2>1. z \in Send(v, c, Plain("Commit")) /\ Engaged(v, c)
      BY <1>2, <1>4 DEF Engaged
    <2>2. Plain("Commit") \in Requests
      BY PlainRequest DEF SessionKinds
    <2> QED  BY <1>1, <2>1, <2>2, SendGood
  <1> QED  BY <1>3, <1>4

\* The session of c is gone, on both sides.
LEMMA GoodDropped ==
    ASSUME NEW w, Good(w), NEW c \in Controllers, Served(w, c),
           NEW v, Frame(w, c, v), v.client = w.client, v.generation = w.generation,
           DOMAIN v.registry = DOMAIN w.registry \ {w.sessions[c].sid},
           \A k \in DOMAIN v.registry : v.registry[k] = w.registry[k],
           Settled(v.sessions[c]), ~Engaged(v, c)
    PROVE  Good(v)
  <1>1. \A d \in Controllers \ {c} : Engaged(v, d) <=> Engaged(w, d)
    BY DEF Engaged, Frame
  <1>2. ~Served(v, c) /\ \A d \in Controllers \ {c} : Served(v, d) <=> Served(w, d)
    BY <1>1 DEF Served
  <1>3. \A d \in Controllers \ {c} : v.sessions[d] = w.sessions[d]
    BY DEF Frame
  <1>4. \A d \in Controllers : Settled(v.sessions[d])
    BY <1>3 DEF Good
  <1>5. SessionsFit(v)
    <2> SUFFICES ASSUME NEW d \in Controllers, Served(v, d)
                 PROVE  /\ v.sessions[d].sid \in DOMAIN v.registry
                        /\ InSync(v.sessions[d], v.registry[v.sessions[d].sid])
                        /\ \A e \in Controllers \ {d} :
                              Served(v, e) => v.sessions[e].sid # v.sessions[d].sid
      BY DEF SessionsFit
    <2>1. d # c /\ Served(w, d) /\ v.sessions[d] = w.sessions[d]
      BY <1>2, <1>3
    <2>2. /\ w.sessions[d].sid \in DOMAIN w.registry
          /\ InSync(w.sessions[d], w.registry[w.sessions[d].sid])
          /\ \A e \in Controllers \ {d} :
                Served(w, e) => w.sessions[e].sid # w.sessions[d].sid
      BY <2>1 DEF Good, SessionsFit
    <2>3. w.sessions[d].sid \in DOMAIN v.registry
      BY <2>1, <2>2
    <2>4. \A e \in Controllers \ {d} :
             Served(v, e) => v.sessions[e].sid # v.sessions[d].sid
      BY <1>2, <1>3, <2>1, <2>2
    <2> QED  BY <2>1, <2>2, <2>3, <2>4
  <1>6. RegistryFits(v)
    <2> SUFFICES ASSUME NEW k \in DOMAIN v.registry
                 PROVE  \E d \in Controllers : Served(v, d) /\ v.sessions[d].sid = k
      BY DEF RegistryFits
    <2>1. PICK d \in Controllers : Served(w, d) /\ w.sessions[d].sid = k
      BY DEF Good, RegistryFits
    <2>2. d # c
      BY <2>1
    <2> QED  BY <1>2, <1>3, <2>1, <2>2
  <1>7. ClientFits(v)
    BY <1>1 DEF Good, ClientFits, Served
  <1>8. PreparationFits(v)
    BY DEF Good, PreparationFits, Frame
  <1> QED  BY <1>4, <1>5, <1>6, <1>7, <1>8 DEF Good, Frame

Left(w, c) == SetClient(Clear(w, c), c, FALSE)

\* deactivate forgets the session and the text client at the end.
LEMMA LeftFacts ==
    ASSUME NEW w \in Worlds, NEW c \in Controllers, Settled(w.sessions[c])
    PROVE  LET v == Left(w, c)
           IN  /\ Frame(w, c, v) /\ v.client = w.client /\ v.registry = w.registry
               /\ v.generation = w.generation
               /\ v.sessions[c].generation = w.sessions[c].generation
               /\ Settled(v.sessions[c]) /\ ~Engaged(v, c)
  <1> DEFINE u == Clear(w, c)
             no == FALSE
             v == SetClient(u, c, no)
  <1>1. /\ Frame(w, c, u) /\ u.client = w.client /\ u.registry = w.registry
        /\ u.generation = w.generation /\ Blank(u.sessions[c])
        /\ u.sessions[c].generation = w.sessions[c].generation
    BY ClearFacts
  <1>2. Left(w, c) = v
    BY DEF Left
  <1>3. u \in Worlds /\ no \in BOOLEAN
    BY <1>1 DEF Frame
  <1> HIDE DEF u, no
  <1>4. /\ Frame(u, c, v) /\ v.client = u.client /\ v.registry = u.registry
        /\ v.generation = u.generation
        /\ v.sessions[c].sid = u.sessions[c].sid
        /\ v.sessions[c].generation = u.sessions[c].generation
        /\ v.sessions[c].state = u.sessions[c].state
        /\ v.sessions[c].panel = u.sessions[c].panel
        /\ v.sessions[c].typos = u.sessions[c].typos
        /\ v.sessions[c].marked = u.sessions[c].marked
    BY <1>3, SetClientFacts
  <1> HIDE DEF v
  <1>5. Blank(v.sessions[c])
    <2> DEFINE x == u.sessions[c]
               y == v.sessions[c]
    <2>1. /\ y.sid = x.sid /\ y.state = x.state /\ y.panel = x.panel
          /\ y.typos = x.typos /\ y.marked = x.marked /\ Blank(x)
      BY <1>1, <1>4
    <2> HIDE DEF x, y
    <2>2. Blank(y)
      BY <2>1 DEF Blank
    <2> QED  BY <2>2 DEF y
  <1>6. Settled(v.sessions[c]) /\ ~Engaged(v, c)
    BY <1>5, BlankFacts
  <1>7. Frame(w, c, v)
    BY <1>1, <1>4 DEF Frame
  <1> QED  BY <1>1, <1>2, <1>4, <1>6, <1>7

\* The end of the session: it is gone on both sides, or the connection is over.
LEMMA EndRequestGood ==
    ASSUME NEW w, Good(w), NEW c \in Controllers, Engaged(w, c),
           NEW o \in Request(w, c, Plain("End"))
    PROVE  Good(Left(o.w, c))
  <1> DEFINE s == w.sessions[c]
             r == w.registry
             request == Plain("End")
             all == Handle(r, s.sid, s.next, request)
             v == Left(o.w, c)
             Known(a) == /\ Accepts(a)
                         /\ DOMAIN a.registry = DOMAIN r \ {s.sid}
                         /\ \A k \in DOMAIN a.registry : a.registry[k] = r[k]
  <1>1. /\ w \in Worlds /\ ~w.outdated /\ w.client.open /\ w.preparation = "idle"
        /\ s \in InputSessions /\ r \in Registries /\ s.next \in Nat
        /\ w.client.alive => s.sid \in DOMAIN r /\ s.next > r[s.sid].last
    BY EngagedFacts
  <1>2. ASSUME w.client.alive, NEW a \in all PROVE Known(a)
    <2> HIDE DEF s, r
    <2>1. /\ a.registry \in Registries
          /\ DOMAIN a.registry = DOMAIN r \ {s.sid}
          /\ \A k \in DOMAIN a.registry : a.registry[k] = r[k]
          /\ a.reply \in Replies /\ ~Misaddressed(Plain("End"), a.reply.code)
      BY <1>1, <1>2, HandleEnds
    <2> QED  BY <2>1 DEF Accepts, Misaddressed
  <1>3. w.client.alive =>
          \A a \in all : /\ Accepts(a)
                         /\ s.sid \in DOMAIN a.registry =>
                               a.registry[s.sid].last \in 0..s.next
    <2> SUFFICES ASSUME w.client.alive, NEW a \in all
                 PROVE  Accepts(a) /\ s.sid \notin DOMAIN a.registry
      OBVIOUS
    <2>1. Known(a)
      BY <1>2
    <2> HIDE DEF all
    <2> QED  BY <2>1
  <1>4. /\ Frame(w, c, o.w) /\ Kept(s, o.w.sessions[c])
        /\ \/ o.reply.kind = "error" /\ Dead(o.w)
           \/ /\ w.client.alive
              /\ \E a \in all : Answered(w, c, a, o.w, o.reply)
    <2> HIDE DEF request
    <2>1. o \in Request(w, c, request)
      BY DEF request
    <2> QED  BY <1>1, <1>3, <2>1, RequestFacts
  <1>5. /\ o.w \in Worlds /\ ~o.w.outdated /\ o.w.preparation = "idle"
        /\ \A d \in Controllers : Settled(o.w.sessions[d])
    BY <1>1, <1>4, RequestSettled
  <1>6. /\ Frame(o.w, c, v) /\ v.client = o.w.client /\ v.registry = o.w.registry
        /\ v.generation = o.w.generation
        /\ v.sessions[c].generation = o.w.sessions[c].generation
        /\ Settled(v.sessions[c]) /\ ~Engaged(v, c)
    BY <1>5, LeftFacts
  <1> HIDE DEF v
  <1>7. Frame(w, c, v)
    BY <1>4, <1>6 DEF Frame
  <1>8. CASE Dead(o.w)
    <2>1. Dead(v)
      BY <1>6, <1>8 DEF Dead, Frame
    <2>2. v \in Worlds /\ ~v.outdated /\ v.preparation = "idle"
      BY <1>5, <1>6 DEF Frame
    <2>3. \A d \in Controllers : Settled(v.sessions[d])
      BY <1>5, <1>6 DEF Frame
    <2> QED  BY <2>1, <2>2, <2>3, GoodDead DEF v
  <1>9. ASSUME w.client.alive, NEW a \in all, Answered(w, c, a, o.w, o.reply)
        PROVE  Good(v)
    <2>1. Known(a)
      BY <1>2, <1>9
    <2>2. /\ v.client = w.client /\ v.generation = w.generation
          /\ DOMAIN v.registry = DOMAIN r \ {s.sid}
          /\ \A k \in DOMAIN v.registry : v.registry[k] = r[k]
      BY <1>6, <1>9, <2>1 DEF Answered, Renumbered
    <2>3. Served(w, c)
      BY <1>9 DEF Served
    <2> QED  BY <1>6, <1>7, <2>2, <2>3, GoodDropped
  <1> QED  BY <1>4, <1>8, <1>9 DEF v

\* deactivate leaves a good world.
LEMMA LeaveGood ==
    ASSUME NEW w, Good(w), NEW c \in Controllers, NEW z \in Leave(w, c)
    PROVE  Good(z)
  <1> DEFINE ended(v) == IF v.sessions[c].sid # NoSid /\ v.client.open
                         THEN {o.w : o \in Request(v, c, Plain("End"))} ELSE {v}
  <1>1. PICK v \in Commit(w, c) : \E u \in ended(v) : z = Left(u, c)
    BY DEF Leave, Left, SetClient
  <1>2. Good(v) /\ (v.sessions[c].sid # NoSid => Engaged(v, c))
    BY <1>1, CommitGood
  <1>3. CASE v.sessions[c].sid # NoSid /\ v.client.open
    <2>1. PICK o \in Request(v, c, Plain("End")) : z = Left(o.w, c)
      BY <1>1, <1>3
    <2> QED  BY <1>2, <1>3, <2>1, EndRequestGood
  <1>4. CASE ~(v.sessions[c].sid # NoSid /\ v.client.open)
    <2>1. z = Left(v, c)
      BY <1>1, <1>4
    <2>2. ~Engaged(v, c) /\ v \in Worlds /\ Settled(v.sessions[c])
      BY <1>2, <1>4 DEF Good, ClientFits, Engaged
    <2>3. /\ Frame(v, c, z) /\ z.client = v.client /\ z.registry = v.registry
          /\ z.generation = v.generation
          /\ Settled(z.sessions[c]) /\ ~Engaged(z, c)
      BY <2>1, <2>2, LeftFacts
    <2> QED  BY <1>2, <2>2, <2>3, GoodUnserved
  <1> QED  BY <1>3, <1>4

-----------------------------------------------------------------------------
(* The steps                                                               *)

\* Taking over a good world keeps the invariant.
LEMMA BecomeGood ==
    ASSUME NEW w, Good(w), Become(w)
    PROVE  FrontEndInv'
  <1>1. w \in Worlds
    BY DEF Good
  <1>2. w = [client |-> w.client, registry |-> w.registry, generation |-> w.generation,
             preparation |-> w.preparation, expected |-> w.expected, daemon |-> w.daemon,
             sessions |-> w.sessions, faults |-> w.faults, outdated |-> w.outdated]
    BY <1>1 DEF Worlds
  <1>3. World' = w
    BY <1>2 DEF Become, World
  <1>4. Good(World')
    BY <1>3
  <1> QED  BY <1>4 DEF FrontEndInv

\* The fields of the world are the variables.
LEMMA WorldFields ==
    /\ World.client = client /\ World.registry = registry
    /\ World.generation = generation /\ World.preparation = preparation
    /\ World.expected = expected /\ World.daemon = daemon
    /\ World.sessions = sessions /\ World.faults = faults /\ World.outdated = outdated
  BY DEF World

\* The input method starts without a connection and without sessions.
LEMMA InitGood == Init => FrontEndInv
  <1> SUFFICES ASSUME Init PROVE FrontEndInv
    OBVIOUS
  <1>1. NewSession \in InputSessions /\ NewSession.sid = NoSid
    BY NothingShown DEF NewSession, InputSessions, NoSid
  <1>2. Settled(NewSession)
    <2>1. Nothing.text = FALSE
      BY DEF Nothing
    <2>2. /\ NewSession.marked = FALSE /\ NewSession.state = Nothing
          /\ NewSession.panel = Nothing /\ NewSession.typos = 0
      BY DEF NewSession
    <2>3. NewSession.marked = NewSession.state.text
      BY <2>1, <2>2
    <2>4. ~NewSession.state.text
      BY <2>1, <2>2
    <2> QED  BY <2>2, <2>3, <2>4 DEF Settled
  <1>3. /\ sessions \in [Controllers -> InputSessions]
        /\ \A c \in Controllers : Settled(sessions[c]) /\ sessions[c].sid = NoSid
    BY <1>1, <1>2 DEF Init
  <1>4. Closed \in Clients /\ ~Closed.alive
    BY DEF Closed, Clients
  <1>5. World \in Worlds
    BY <1>3, <1>4, NoSessionsType DEF Init, World, Worlds, Preparations
  <1>6. /\ ~World.outdated /\ ~World.client.alive /\ World.registry = NoSessions
        /\ World.preparation = "idle"
        /\ \A c \in Controllers : Settled(World.sessions[c]) /\ World.sessions[c].sid = NoSid
    BY <1>3, <1>4, WorldFields DEF Init
  <1>7. \A c \in Controllers : ~Engaged(World, c) /\ ~Served(World, c)
    BY <1>6 DEF Engaged, Served
  <1>8. ClientFits(World) /\ PreparationFits(World)
    BY <1>6, <1>7 DEF ClientFits, PreparationFits
  <1>9. SessionsFit(World) /\ RegistryFits(World)
    BY <1>6, <1>7, NoSessionsType DEF SessionsFit, RegistryFits
  <1> QED  BY <1>5, <1>6, <1>8, <1>9 DEF Good, FrontEndInv

\* A handler of the main thread keeps the invariant.
LEMMA HandlersKeep ==
    ASSUME FrontEndInv, NEW c \in Controllers,
           \/ ActivateServer(c) \/ Key(c) \/ ClickCandidate(c) \/ ForgetCandidate(c)
           \/ RequestTypos(c) \/ ResetLearning(c) \/ CommitComposition(c)
           \/ DeactivateServer(c)
    PROVE  FrontEndInv'
  <1> DEFINE w == World
  <1>1. Good(w) /\ w.sessions = sessions
    BY WorldFields DEF FrontEndInv
  <1> HIDE DEF w
  <1>2. Listed(sessions[c].panel) \subseteq Nat /\ 0..(sessions[c].typos - 1) \subseteq Nat
    <2>1. /\ Listed(w.sessions[c].panel) \subseteq Nat
          /\ 0..(w.sessions[c].typos - 1) \subseteq Nat
      BY <1>1, ListedFacts
    <2> QED  BY <1>1, <2>1
  <1>3. SUFFICES \E v : Good(v) /\ Become(v)
    BY <1>3, BecomeGood
  <1>4. CASE ActivateServer(c)
    <2> DEFINE u == PanelReset(w, c)
               v == Prepare(u)
    <2>1. Become(v)
      BY <1>4 DEF ActivateServer, Do, w
    <2>2. Good(u)
      BY <1>1, PanelResetGood
    <2> HIDE DEF u
    <2>3. Good(v)
      BY <2>2, PrepareGood
    <2> HIDE DEF v
    <2> QED  BY <2>1, <2>3
  <1>5. CASE Key(c)
    <2>1. PICK v \in HandleEvent(w, c) : Become(v)
      BY <1>5 DEF Key, Do, w
    <2>2. Good(v)
      BY <1>1, <2>1, HandleEventGood
    <2> QED  BY <2>1, <2>2
  <1>6. CASE ClickCandidate(c)
    <2> DEFINE indices == IF sessions[c].typos > 0 THEN 0..(sessions[c].typos - 1)
                          ELSE Listed(sessions[c].panel)
    <2>1. PICK i \in indices : \E v \in Select(w, c, i) : Become(v)
      BY <1>6 DEF ClickCandidate, Do, w
    <2>2. i \in Nat
      BY <1>2, <2>1
    <2>3. PICK v \in Select(w, c, i) : Become(v)
      BY <2>1
    <2>4. w.sessions[c].client
      BY <1>1, <1>6 DEF ClickCandidate
    <2>5. Good(v)
      BY <1>1, <2>2, <2>3, <2>4, SelectGood
    <2> QED  BY <2>3, <2>5
  <1>7. CASE ForgetCandidate(c)
    <2>1. PICK i \in Listed(sessions[c].panel) :
                 \E v \in SendStarted(w, c, At("Forget", i)) : Become(v)
      BY <1>7 DEF ForgetCandidate, Do, w
    <2>2. PICK v \in SendStarted(w, c, At("Forget", i)) : Become(v)
      BY <2>1
    <2>3. At("Forget", i) \in Requests
      <3>1. i \in Nat /\ "Forget" \in SessionKinds
        BY <1>2, <2>1 DEF SessionKinds
      <3> QED  BY <3>1, IndexRequest
    <2>4. w.sessions[c].client
      BY <1>1, <1>7 DEF ForgetCandidate
    <2>5. Good(v)
      BY <1>1, <2>2, <2>3, <2>4, SendStartedGood
    <2> QED  BY <2>2, <2>5
  <1>8. CASE RequestTypos(c)
    <2>1. PICK v \in AskTypos(w, c) : Become(v)
      BY <1>8 DEF RequestTypos, Do, w
    <2>2. w.sessions[c].client
      BY <1>1, <1>8 DEF RequestTypos
    <2>3. Good(v)
      BY <1>1, <2>1, <2>2, AskTyposGood
    <2> QED  BY <2>1, <2>3
  <1>9. CASE ResetLearning(c)
    <2>1. PICK v \in SendStarted(w, c, Plain("ResetLearning")) : Become(v)
      BY <1>9 DEF ResetLearning, Do, w
    <2>2. w.sessions[c].client /\ Plain("ResetLearning") \in Requests
      BY <1>1, <1>9, PlainRequest DEF ResetLearning, SessionKinds
    <2>3. Good(v)
      BY <1>1, <2>1, <2>2, SendStartedGood
    <2> QED  BY <2>1, <2>3
  <1>10. CASE CommitComposition(c)
    <2>1. PICK v \in Commit(w, c) : Become(v)
      BY <1>10 DEF CommitComposition, Do, w
    <2>2. Good(v)
      BY <1>1, <2>1, CommitGood
    <2> QED  BY <2>1, <2>2
  <1>11. CASE DeactivateServer(c)
    <2>1. PICK v \in Leave(w, c) : Become(v)
      BY <1>11 DEF DeactivateServer, Do, w
    <2>2. Good(v)
      BY <1>1, <2>1, LeaveGood
    <2> QED  BY <2>1, <2>2
  <1> QED  BY <1>4, <1>5, <1>6, <1>7, <1>8, <1>9, <1>10, <1>11

\* A connection nobody believes to have a session on is good without sessions.
LEMMA GoodUnused ==
    ASSUME NEW w \in Worlds, ~w.outdated, \A c \in Controllers : Settled(w.sessions[c]),
           w.registry = NoSessions, w.client.alive => w.client.open, PreparationFits(w),
           \A c \in Controllers : Engaged(w, c) => w.client.open,
           w.client.alive => \A c \in Controllers : ~Engaged(w, c)
    PROVE  Good(w)
  <1>1. \A c \in Controllers : ~Served(w, c)
    BY DEF Served
  <1> QED  BY <1>1, NoSessionsType DEF Good, ClientFits, SessionsFit, RegistryFits

\* The main queue's block: the client that was prepared is taken over.
LEMMA HandOverKeeps ==
    ASSUME FrontEndInv, HandOver
    PROVE  FrontEndInv'
  <1> DEFINE w == World
             taken == expected = generation /\ preparation # "failed"
             up == preparation = "ready"
             v == [w EXCEPT !.preparation = "idle",
                            !.registry = IF taken THEN NoSessions ELSE @,
                            !.client = IF taken THEN [open |-> TRUE, alive |-> up] ELSE @]
  <1>1. /\ Good(w) /\ w \in Worlds /\ w.preparation = preparation
        /\ w.expected = expected /\ w.generation = generation
    BY WorldFields DEF FrontEndInv, Good
  <1>2. Become(v) /\ preparation \in {"ready", "broken", "failed"}
    BY DEF HandOver
  <1> HIDE DEF w
  <1>3. w.expected = w.generation /\ ~w.client.open
    BY <1>1, <1>2 DEF Good, PreparationFits
  <1>4. SUFFICES Good(v)
    <2> HIDE DEF v
    <2> QED  BY <1>2, <1>4, BecomeGood
  <1>5. CASE ~taken
    <2> DEFINE u == [w EXCEPT !.preparation = "idle"]
    <2>1. v = u
      BY <1>1, <1>5 DEF Worlds
    <2>2. Alike(w, u) /\ u.preparation = "idle"
      BY <1>1 DEF Alike, Worlds, Preparations
    <2> HIDE DEF u, v
    <2>3. PreparationFits(u)
      BY <2>2 DEF PreparationFits
    <2> QED  BY <1>1, <2>1, <2>2, <2>3, GoodAlike
  <1>6. CASE taken
    <2> DEFINE now == [open |-> TRUE, alive |-> up]
               u == [w EXCEPT !.preparation = "idle", !.registry = NoSessions,
                              !.client = now]
    <2>1. v = u
      BY <1>1, <1>6 DEF Worlds
    <2>2. up \in BOOLEAN
      OBVIOUS
    <2> HIDE DEF up
    <2>3. now \in Clients /\ now.open = TRUE
      BY <2>2 DEF Clients
    <2> HIDE DEF now
    <2>4. /\ u \in Worlds /\ u.preparation = "idle" /\ u.registry = NoSessions
          /\ u.client = now /\ u.outdated = w.outdated /\ u.sessions = w.sessions
          /\ u.generation = w.generation
      BY <1>1, <2>3, NoSessionsType DEF Worlds, Preparations
    <2> HIDE DEF u, v
    <2>5. \A c \in Controllers : ~Engaged(w, c)
      BY <1>1, <1>3 DEF Good, ClientFits
    <2>6. \A c \in Controllers : ~Engaged(u, c)
      BY <2>4, <2>5 DEF Engaged
    <2>7. /\ PreparationFits(u) /\ ~u.outdated
          /\ \A c \in Controllers : Settled(u.sessions[c])
      BY <1>1, <2>4 DEF PreparationFits, Good
    <2>8. u.client.open
      BY <2>3, <2>4
    <2>9. Good(u)
      BY <2>4, <2>6, <2>7, <2>8, GoodUnused
    <2> QED  BY <2>1, <2>9
  <1> QED  BY <1>5, <1>6

\* The end of the daemon: a client that waited on the main queue is broken, and
\* the sessions are gone.
LEMMA DaemonDiesKeeps ==
    ASSUME FrontEndInv, DaemonDies
    PROVE  FrontEndInv'
  <1> DEFINE w == World
             f == Fault(w)
             v == [f EXCEPT !.daemon = "down", !.client.alive = FALSE,
                            !.registry = NoSessions,
                            !.preparation = IF @ = "ready" THEN "broken" ELSE @]
             p == IF f.preparation = "ready" THEN "broken" ELSE f.preparation
  <1>1. Good(w) /\ w \in Worlds
    BY DEF FrontEndInv, Good
  <1>2. Become(v)
    BY DEF DaemonDies
  <1> HIDE DEF w
  <1>3. /\ Alike(w, f) /\ f \in Worlds /\ f.preparation = w.preparation
        /\ f.expected = w.expected
    BY <1>1, FaultFacts DEF Alike
  <1> HIDE DEF f
  <1>4. p \in Preparations /\ (p # "idle" => w.preparation # "idle")
    BY <1>3 DEF Worlds, Preparations
  <1>5. v = [f EXCEPT !.daemon = "down", !.client.alive = FALSE,
                      !.registry = NoSessions, !.preparation = p]
    BY <1>3 DEF Worlds
  <1> HIDE DEF p, v
  <1>6. v.client = [f.client EXCEPT !.alive = FALSE]
    BY <1>3, <1>5 DEF Worlds
  <1>7. v.client \in Clients /\ ~v.client.alive /\ v.client.open = f.client.open
    <2>1. f.client \in Clients
      BY <1>3 DEF Worlds
    <2> QED  BY <1>6, <2>1 DEF Clients
  <1>8. /\ v \in Worlds /\ v.registry = NoSessions /\ v.preparation = p
        /\ v.outdated = f.outdated /\ v.sessions = f.sessions
        /\ v.generation = f.generation /\ v.expected = f.expected
    BY <1>3, <1>4, <1>5, <1>7, NoSessionsType DEF Worlds
  <1>9. \A c \in Controllers : Engaged(v, c) => v.client.open
    BY <1>1, <1>3, <1>7, <1>8 DEF Engaged, Alike, Good, ClientFits
  <1>10. PreparationFits(v)
    BY <1>1, <1>3, <1>4, <1>7, <1>8 DEF PreparationFits, Alike, Good
  <1>11. ~v.outdated /\ \A c \in Controllers : Settled(v.sessions[c])
    BY <1>1, <1>3, <1>8 DEF Alike, Good
  <1>12. Good(v)
    BY <1>7, <1>8, <1>9, <1>10, <1>11, GoodUnused
  <1> QED  BY <1>2, <1>12, BecomeGood

\* The background block, the clock and the daemon's other steps keep the
\* invariant: they change nothing about the sessions, and a preparation that
\* goes on is still one for the current generation.
LEMMA SurroundingsKeep ==
    ASSUME FrontEndInv,
           \/ Connects \/ Launches \/ TimesOut \/ DaemonReady \/ DaemonRetires
    PROVE  FrontEndInv'
  <1> DEFINE w == World
  <1>1. /\ Good(w) /\ w \in Worlds /\ w.preparation = preparation /\ w.daemon = daemon
    BY WorldFields DEF FrontEndInv, Good
  <1> HIDE DEF w
  <1>2. ASSUME NEW v, Alike(w, v), Become(v), v.expected = w.expected,
               v.preparation # "idle" => w.preparation # "idle"
        PROVE  FrontEndInv'
    <2>1. PreparationFits(v)
      BY <1>1, <1>2 DEF PreparationFits, Alike, Good
    <2>2. Good(v)
      BY <1>1, <1>2, <2>1, GoodAlike
    <2> QED  BY <1>2, <2>2, BecomeGood
  <1>3. CASE Connects
    <2> DEFINE v == [w EXCEPT !.preparation = "ready", !.daemon = "serving"]
    <2>1. Become(v) /\ preparation \in {"working", "launched"}
      BY <1>3 DEF Connects, w
    <2>2. Alike(w, v) /\ v.expected = w.expected
      BY <1>1 DEF Alike, Worlds, Preparations
    <2> HIDE DEF v
    <2> QED  BY <1>1, <1>2, <2>1, <2>2
  <1>4. CASE Launches
    <2> DEFINE d == IF w.daemon = "down" THEN "starting" ELSE w.daemon
               v == [w EXCEPT !.preparation = "launched",
                              !.daemon = IF @ = "down" THEN "starting" ELSE @]
    <2>1. Become(v) /\ preparation = "working"
      BY <1>4 DEF Launches, w
    <2>2. v = [w EXCEPT !.preparation = "launched", !.daemon = d]
      BY <1>1 DEF Worlds
    <2>3. d \in {"down", "starting", "fresh", "serving"}
      BY <1>1 DEF Worlds
    <2> HIDE DEF d, v
    <2>4. Alike(w, v) /\ v.expected = w.expected
      BY <1>1, <2>2, <2>3 DEF Alike, Worlds, Preparations
    <2> QED  BY <1>1, <1>2, <2>1, <2>4
  <1>5. CASE TimesOut
    <2> DEFINE n == IF daemon = "down" THEN w.faults ELSE w.faults + 1
               v == [w EXCEPT !.preparation = "failed",
                              !.faults = IF daemon = "down" THEN @ ELSE @ + 1]
    <2>1. Become(v) /\ preparation = "launched"
      BY <1>5 DEF TimesOut, w
    <2>2. v = [w EXCEPT !.preparation = "failed", !.faults = n]
      BY <1>1 DEF Worlds
    <2>3. n \in Nat
      BY <1>1 DEF Worlds
    <2> HIDE DEF n, v
    <2>4. Alike(w, v) /\ v.expected = w.expected
      BY <1>1, <2>2, <2>3 DEF Alike, Worlds, Preparations
    <2> QED  BY <1>1, <1>2, <2>1, <2>4
  <1>6. CASE DaemonReady
    <2> DEFINE v == [w EXCEPT !.daemon = "fresh"]
    <2>1. Become(v)
      BY <1>6 DEF DaemonReady, w
    <2>2. Alike(w, v) /\ v.expected = w.expected /\ v.preparation = w.preparation
      BY <1>1 DEF Alike, Worlds
    <2> HIDE DEF v
    <2> QED  BY <1>2, <2>1, <2>2
  <1>7. CASE DaemonRetires
    <2> DEFINE v == [w EXCEPT !.daemon = "down"]
    <2>1. Become(v)
      BY <1>7 DEF DaemonRetires, w
    <2>2. Alike(w, v) /\ v.expected = w.expected /\ v.preparation = w.preparation
      BY <1>1 DEF Alike, Worlds
    <2> HIDE DEF v
    <2> QED  BY <1>2, <2>1, <2>2
  <1> QED  BY <1>3, <1>4, <1>5, <1>6, <1>7

-----------------------------------------------------------------------------
(* The theorems                                                            *)

\* Good holds between two events of the main thread, whatever the order in which
\* the controllers, the background block, the main queue and the daemon take
\* their steps.
THEOREM FrontEndIsInductive == Spec => []FrontEndInv
  <1>1. FrontEndInv /\ [Next]_vars => FrontEndInv'
    <2> SUFFICES ASSUME FrontEndInv, [Next]_vars PROVE FrontEndInv'
      OBVIOUS
    <2>1. CASE Next
      BY <2>1, HandlersKeep, HandOverKeeps, SurroundingsKeep, DaemonDiesKeeps DEF Next
    <2>2. CASE UNCHANGED vars
      BY <2>2 DEF vars, FrontEndInv, World
    <2> QED  BY <2>1, <2>2
  <1> QED  BY <1>1, InitGood, PTL DEF Spec

\* The daemon is never asked about a session of an older connection, nor with a
\* number it has seen (start, commit and deactivate against
\* _connection.generation).
THEOREM UsesNoOldSession == Spec => []OldSessionUnused
  <1>1. FrontEndInv => OldSessionUnused
    BY WorldFields DEF FrontEndInv, Good, OldSessionUnused
  <1> QED  BY <1>1, FrontEndIsInductive, PTL

\* An index picked from the panel means the same to the session (showState,
\* showTypos and reset of the panel).
THEOREM ListsWhatItHolds == Spec => []PanelWithinSession
  <1>1. FrontEndInv => PanelWithinSession
    <2> SUFFICES ASSUME Good(World), NEW c \in Controllers, Live(c)
                 PROVE  /\ sessions[c].sid \in DOMAIN registry
                        /\ LET s == registry[sessions[c].sid]
                           IN  /\ sessions[c].state = s.shows
                               /\ sessions[c].panel \in {Nothing, s.shows}
                               /\ sessions[c].typos \in {0, s.typos}
      BY DEF FrontEndInv, PanelWithinSession
    <2>1. Served(World, c)
      BY WorldFields DEF Live, Served, Engaged
    <2>2. /\ World.sessions[c].sid \in DOMAIN World.registry
          /\ InSync(World.sessions[c], World.registry[World.sessions[c].sid])
      BY <2>1 DEF Good, SessionsFit
    <2>3. sessions[c].sid \in DOMAIN registry
          /\ InSync(sessions[c], registry[sessions[c].sid])
      BY <2>2, WorldFields
    <2> QED  BY <2>3 DEF InSync
  <1> QED  BY <1>1, FrontEndIsInductive, PTL

\* No marked text is left behind, and none is missing (clear, applyText).
THEOREM MarksWhatIsComposed == Spec => []MarkedWhileComposing
  <1>1. FrontEndInv => MarkedWhileComposing
    <2> SUFFICES ASSUME Good(World), NEW c \in Controllers
                 PROVE  sessions[c].marked = sessions[c].state.text
      BY DEF FrontEndInv, MarkedWhileComposing
    <2>1. Settled(World.sessions[c])
      BY DEF Good
    <2>2. Settled(sessions[c])
      BY <2>1, WorldFields
    <2> QED  BY <2>2 DEF Settled
  <1> QED  BY <1>1, FrontEndIsInductive, PTL

\* The result of a preparation is never thrown away for its generation, and a
\* connection is prepared only while there is none (prepare, start).
THEOREM UsesWhatItPrepares == Spec => []PreparationUsed
  <1>1. FrontEndInv => PreparationUsed
    BY WorldFields DEF FrontEndInv, Good, PreparationFits, PreparationUsed
  <1> QED  BY <1>1, FrontEndIsInductive, PTL

=============================================================================
