------------------------- MODULE FcitxFrontEndProofs -------------------------
(***************************************************************************)
(* Proofs about FcitxFrontEnd, for every finite set of input contexts, any *)
(* length of the lists and any number of faults: a request of the addon    *)
(* reaches its session and its list, what a context shows is what its      *)
(* session holds, no session is left behind and no commit is inserted      *)
(* twice.                                                                  *)
(*                                                                         *)
(* The invariant Good is a predicate on worlds, as the handlers are        *)
(* operators on worlds.  It holds between two handlers; in the middle of   *)
(* one the context it serves may be in between, so each part a handler is  *)
(* made of has a lemma that says what it leaves of the world.              *)
(***************************************************************************)
EXTENDS FcitxFrontEnd, SessionRegistryProofs

Clients == [open : BOOLEAN, alive : BOOLEAN]
States ==
    [started : BOOLEAN, sid : Nat, next : Nat, generation : Nat,
     normal : Presentations, normalCommits : BOOLEAN,
     shows : Presentations, typos : Nat, owed : Nat]
Worlds ==
    [client : Clients, registry : Registries, generation : Nat,
     preparation : {"idle", "polling", "ready", "broken", "failed"},
     cooling : BOOLEAN, daemon : {"down", "starting", "fresh", "serving"},
     contexts : [Contexts -> States], faults : Nat, misaddressed : BOOLEAN]

-----------------------------------------------------------------------------
(* The invariant                                                           *)

\* The worker behind the connection serves the session of c
Served(w, c) ==
    /\ w.contexts[c].started
    /\ w.contexts[c].generation = w.generation
    /\ w.client.alive

\* A context between two handlers: it has a session id exactly while it has a
\* session, and the state it keeps for a redraw commits nothing
Settled(x) ==
    /\ x.started <=> x.sid # NoSid
    /\ ~x.normalCommits

\* The context x and its session s agree: the next request number is new to the
\* session, and what is shown, or would be redrawn, is what the session holds
InSync(x, s) ==
    /\ s.last < x.next
    /\ x.normal = s.shows
    /\ IF x.typos > 0 THEN x.typos = s.typos /\ x.shows = Nothing
       ELSE x.shows = x.normal

\* Without a worker there are no sessions
ClientFits(w) ==
    /\ w.client.alive => w.client.open
    /\ ~w.client.alive => w.registry = NoSessions

\* Every served context is in sync with a session of its own
ContextsFit(w) ==
    \A c \in Contexts : Served(w, c) =>
        /\ w.contexts[c].sid \in DOMAIN w.registry
        /\ InSync(w.contexts[c], w.registry[w.contexts[c].sid])
        /\ \A d \in Contexts \ {c} :
              Served(w, d) => w.contexts[d].sid # w.contexts[c].sid

\* Every session is that of a served context
RegistryFits(w) ==
    \A k \in DOMAIN w.registry :
        \E c \in Contexts : Served(w, c) /\ w.contexts[c].sid = k

Good(w) ==
    /\ w \in Worlds
    /\ ~w.misaddressed
    /\ \A c \in Contexts : Settled(w.contexts[c])
    /\ ClientFits(w) /\ ContextsFit(w) /\ RegistryFits(w)

FrontEndInv == Good(World) /\ resetAnswered \in BOOLEAN

-----------------------------------------------------------------------------
(* Frames                                                                  *)

\* v has what w has, except for the client, its sessions and the context c
Around1(w, c, v) ==
    /\ v \in Worlds
    /\ v.generation = w.generation /\ v.misaddressed = w.misaddressed
    /\ \A d \in Contexts \ {c} : v.contexts[d] = w.contexts[d]

\* y has what x has, except for the next request number and what is owed
Kept(x, y) ==
    /\ y.started = x.started /\ y.sid = x.sid /\ y.generation = x.generation
    /\ y.normal = x.normal /\ y.normalCommits = x.normalCommits
    /\ y.shows = x.shows /\ y.typos = x.typos

\* Nothing is shown and there is no session
Blank(x) ==
    /\ ~x.started /\ x.sid = NoSid
    /\ x.normal = Nothing /\ ~x.normalCommits /\ x.shows = Nothing /\ x.typos = 0

\* A world without a connection is good when its contexts are settled.
LEMMA GoodClosed ==
    ASSUME NEW w \in Worlds, ~w.misaddressed, ~w.client.alive, w.registry = NoSessions,
           \A c \in Contexts : Settled(w.contexts[c])
    PROVE  Good(w)
  BY NoSessionsType DEF Good, ClientFits, ContextsFit, RegistryFits, Served

-----------------------------------------------------------------------------
(* The parts of the handlers                                               *)

\* Client::disconnect closes the socket and ends the worker's sessions.
LEMMA DisconnectFacts ==
    ASSUME NEW w \in Worlds
    PROVE  /\ Disconnect(w) \in Worlds
           /\ Disconnect(w).client = Closed /\ Disconnect(w).registry = NoSessions
           /\ Disconnect(w).generation = w.generation
           /\ Disconnect(w).preparation = w.preparation
           /\ Disconnect(w).cooling = w.cooling /\ Disconnect(w).daemon = w.daemon
           /\ Disconnect(w).contexts = w.contexts
           /\ Disconnect(w).faults = w.faults /\ Disconnect(w).misaddressed = w.misaddressed
  <1>1. Closed \in Clients
    BY DEF Closed, Clients
  <1> QED  BY <1>1, NoSessionsType DEF Disconnect, Worlds

\* clearUi forgets what a context shows.
LEMMA ClearUiFacts ==
    ASSUME NEW w \in Worlds, NEW c \in Contexts
    PROVE  /\ Around1(w, c, ClearUi(w, c))
           /\ ClearUi(w, c).client = w.client /\ ClearUi(w, c).registry = w.registry
           /\ LET x == w.contexts[c]
                  y == ClearUi(w, c).contexts[c]
              IN  /\ y.started = x.started /\ y.sid = x.sid
                  /\ y.next = x.next /\ y.generation = x.generation /\ y.owed = x.owed
                  /\ y.normal = Nothing /\ ~y.normalCommits
                  /\ y.shows = Nothing /\ y.typos = 0
  <1> DEFINE v == ClearUi(w, c)
             x == w.contexts[c]
             y == [[[[x EXCEPT !.normal = Nothing] EXCEPT !.normalCommits = FALSE]
                       EXCEPT !.shows = Nothing] EXCEPT !.typos = 0]
  <1>1. x \in States
    BY DEF Worlds
  <1>2. /\ y \in States /\ y.started = x.started /\ y.sid = x.sid
        /\ y.next = x.next /\ y.generation = x.generation /\ y.owed = x.owed
        /\ y.normal = Nothing /\ ~y.normalCommits /\ y.shows = Nothing /\ y.typos = 0
    BY <1>1, NothingShown DEF States
  <1>3. v.contexts = [w.contexts EXCEPT ![c] = y]
    BY DEF Worlds, ClearUi
  <1> HIDE DEF y
  <1>4. /\ v.contexts \in [Contexts -> States] /\ v.contexts[c] = y
        /\ \A d \in Contexts \ {c} : v.contexts[d] = w.contexts[d]
    BY <1>2, <1>3 DEF Worlds
  <1>5. /\ v \in Worlds /\ v.client = w.client /\ v.registry = w.registry
        /\ v.generation = w.generation /\ v.misaddressed = w.misaddressed
    BY <1>4 DEF Worlds, ClearUi
  <1> QED  BY <1>2, <1>4, <1>5 DEF Around1

\* A session that ended leaves a blank context.
LEMMA EndedFacts ==
    ASSUME NEW w \in Worlds, NEW c \in Contexts
    PROVE  /\ Around1(w, c, Ended(w, c))
           /\ Ended(w, c).client = w.client /\ Ended(w, c).registry = w.registry
           /\ Blank(Ended(w, c).contexts[c])
  <1> DEFINE v == [w EXCEPT !.contexts[c].started = FALSE, !.contexts[c].sid = NoSid]
             x == w.contexts[c]
             y == [[x EXCEPT !.started = FALSE] EXCEPT !.sid = NoSid]
  <1>1. x \in States
    BY DEF Worlds
  <1>2. y \in States /\ ~y.started /\ y.sid = NoSid
    BY <1>1 DEF States, NoSid
  <1>3. v.contexts = [w.contexts EXCEPT ![c] = y]
    BY DEF Worlds
  <1>4. /\ v.contexts \in [Contexts -> States] /\ v.contexts[c] = y
        /\ \A d \in Contexts \ {c} : v.contexts[d] = w.contexts[d]
    <2> HIDE DEF y
    <2> QED  BY <1>2, <1>3 DEF Worlds
  <1>5. /\ v \in Worlds /\ v.client = w.client /\ v.registry = w.registry
        /\ v.generation = w.generation /\ v.misaddressed = w.misaddressed
    BY <1>4 DEF Worlds
  <1>6. Ended(w, c) = ClearUi(v, c)
    BY DEF Ended
  <1> HIDE DEF v, y
  <1> QED  BY <1>2, <1>4, <1>5, <1>6, ClearUiFacts DEF Around1, Blank

\* failSession disconnects and leaves a blank context: whatever the context was
\* in the middle of, the world is good again.
LEMMA FailSessionGood ==
    ASSUME NEW w \in Worlds, NEW c \in Contexts, ~w.misaddressed,
           \A d \in Contexts \ {c} : Settled(w.contexts[d])
    PROVE  Good(FailSession(w, c)) /\ ~FailSession(w, c).contexts[c].started
  <1> DEFINE u == Disconnect(w)
             v == Ended(u, c)
  <1>1. u \in Worlds /\ u.contexts = w.contexts /\ u.misaddressed = w.misaddressed
        /\ u.client = Closed /\ u.registry = NoSessions
    BY DisconnectFacts
  <1> HIDE DEF u
  <1>2. /\ Around1(u, c, v) /\ v.client = Closed /\ v.registry = NoSessions
        /\ Blank(v.contexts[c])
    BY <1>1, EndedFacts
  <1>3. v = FailSession(w, c)
    BY DEF FailSession, u
  <1> HIDE DEF v
  <1>4. v \in Worlds /\ ~v.misaddressed
    BY <1>1, <1>2 DEF Around1
  <1>5. \A d \in Contexts : Settled(v.contexts[d])
    BY <1>1, <1>2 DEF Around1, Blank, Settled
  <1>6. ~v.client.alive
    BY <1>2 DEF Closed
  <1>7. Good(v)
    BY <1>2, <1>4, <1>5, <1>6, GoodClosed
  <1> QED  BY <1>2, <1>3, <1>7 DEF Blank

\* A context that was not served and has no session now does not matter to the
\* connection.
LEMMA GoodUnserved ==
    ASSUME NEW w, Good(w), NEW c \in Contexts, ~Served(w, c),
           NEW v, Around1(w, c, v), v.client = w.client, v.registry = w.registry,
           ~v.contexts[c].started, Settled(v.contexts[c])
    PROVE  Good(v)
  <1>1. ~Served(v, c) /\ \A d \in Contexts \ {c} : Served(v, d) <=> Served(w, d)
    BY DEF Served, Around1
  <1>2. \A d \in Contexts : Settled(v.contexts[d])
    BY DEF Around1, Good
  <1>3. ContextsFit(v)
    BY <1>1 DEF Good, ContextsFit, Around1
  <1>4. RegistryFits(v)
    BY <1>1 DEF Good, RegistryFits, Around1
  <1> QED  BY <1>2, <1>3, <1>4 DEF Good, Around1, ClientFits

\* invalidateStaleSession leaves a good world, in which a session that is still
\* there is one of this connection.
LEMMA InvalidateGood ==
    ASSUME NEW w, Good(w), NEW c \in Contexts
    PROVE  /\ Good(Invalidate(w, c))
           /\ LET v == Invalidate(w, c)
              IN  v.contexts[c].started =>
                      v.contexts[c].generation = v.generation /\ v.client.open
  <1> DEFINE stale == /\ w.contexts[c].started
                      /\ w.contexts[c].generation # w.generation \/ ~w.client.open
  <1>1. CASE ~stale
    <2>1. Invalidate(w, c) = w
      BY <1>1 DEF Invalidate
    <2> QED  BY <1>1, <2>1
  <1>2. CASE stale
    <2> DEFINE v == Ended(w, c)
    <2>1. Invalidate(w, c) = v
      BY <1>2 DEF Invalidate
    <2>2. w \in Worlds /\ ~w.misaddressed
      BY DEF Good
    <2>3. /\ Around1(w, c, v) /\ v.client = w.client /\ v.registry = w.registry
          /\ Blank(v.contexts[c])
      BY <2>2, EndedFacts
    <2> HIDE DEF v
    <2>4. ~Served(w, c)
      BY <1>2 DEF Served, Good, ClientFits
    <2>5. ~v.contexts[c].started /\ Settled(v.contexts[c])
      BY <2>3 DEF Blank, Settled
    <2>6. Good(v)
      BY <2>3, <2>4, <2>5, GoodUnserved
    <2> QED  BY <2>1, <2>3, <2>6 DEF Blank
  <1> QED  BY <1>1, <1>2

-----------------------------------------------------------------------------
(* A request and its reply                                                 *)

\* v is w but for the number of faults
Alike(w, v) ==
    /\ v \in Worlds
    /\ v.client = w.client /\ v.registry = w.registry /\ v.generation = w.generation
    /\ v.contexts = w.contexts /\ v.misaddressed = w.misaddressed

Owing(w, c, n) == [w EXCEPT !.contexts[c].owed = n]

\* A fault is counted and changes nothing else.
LEMMA FaultFacts ==
    ASSUME NEW w \in Worlds
    PROVE  Alike(w, Fault(w))
  BY DEF Fault, Worlds, Alike

\* What is owed to a context is noted in that context only.
LEMMA OwingFacts ==
    ASSUME NEW w \in Worlds, NEW c \in Contexts, NEW n \in Nat
    PROVE  /\ Around1(w, c, Owing(w, c, n))
           /\ Owing(w, c, n).client = w.client /\ Owing(w, c, n).registry = w.registry
           /\ Kept(w.contexts[c], Owing(w, c, n).contexts[c])
           /\ Owing(w, c, n).contexts[c].next = w.contexts[c].next
           /\ Owing(w, c, n).contexts[c].owed = n
  <1> DEFINE v == Owing(w, c, n)
             x == w.contexts[c]
             y == [x EXCEPT !.owed = n]
  <1>1. x \in States
    BY DEF Worlds
  <1>2. y \in States /\ Kept(x, y) /\ y.next = x.next /\ y.owed = n
    BY <1>1 DEF States, Kept
  <1>3. v.contexts = [w.contexts EXCEPT ![c] = y]
    BY DEF Worlds, Owing
  <1> HIDE DEF y
  <1>4. /\ v.contexts \in [Contexts -> States] /\ v.contexts[c] = y
        /\ \A d \in Contexts \ {c} : v.contexts[d] = w.contexts[d]
    BY <1>2, <1>3 DEF Worlds
  <1>5. /\ v \in Worlds /\ v.client = w.client /\ v.registry = w.registry
        /\ v.generation = w.generation /\ v.misaddressed = w.misaddressed
    BY <1>4 DEF Worlds, Owing
  <1> QED  BY <1>2, <1>4, <1>5 DEF Around1

\* The request reached its session, in its turn, and its list
Accepts(request, a) ==
    /\ a.registry \in Registries /\ a.reply \in Replies
    /\ ~Misaddressed(request, a.reply.code)

\* The request got no reply, and there is no worker any more
Lost(w, v, reply) ==
    /\ reply = NoReply
    /\ \/ v.client = Closed /\ v.registry = NoSessions
       \/ ~w.client.open /\ v.client = w.client /\ v.registry = w.registry

\* Client::request, when the request would not be misaddressed: the connection is
\* lost, or the worker's answer arrives and a commit in it is owed.
LEMMA ClientRequestFacts ==
    ASSUME NEW w \in Worlds, NEW c \in Contexts, NEW sid, NEW rid, NEW request,
           w.client.alive => \A a \in Handle(w.registry, sid, rid, request) : Accepts(request, a),
           NEW o \in ClientRequest(w, c, sid, rid, request)
    PROVE  /\ o = [w |-> o.w, reply |-> o.reply]
           /\ Around1(w, c, o.w)
           /\ Kept(w.contexts[c], o.w.contexts[c])
           /\ o.w.contexts[c].next = w.contexts[c].next
           /\ \/ Lost(w, o.w, o.reply)
              \/ /\ w.client.alive /\ o.w.client = w.client
                 /\ \E a \in Handle(w.registry, sid, rid, request) :
                       /\ o.reply = a.reply /\ o.w.registry = a.registry
                       /\ o.w.contexts[c].owed = IF a.reply.commit THEN 1 ELSE 0
  <1> DEFINE gone == Owing(Disconnect(w), c, 1)
             lost == [w |-> gone, reply |-> NoReply]
             faulty == [w |-> Fault(gone), reply |-> NoReply]
             base(a) == IF Faulty(a.reply) THEN Fault(w) ELSE w
             seen(a) == [base(a) EXCEPT !.registry = a.registry,
                                        !.misaddressed =
                                          @ \/ Misaddressed(request, a.reply.code)]
             owed(a) == IF a.reply.commit THEN 1 ELSE 0
             answered(a) == [w |-> Owing(seen(a), c, owed(a)), reply |-> a.reply]
             Claim(v) == /\ Around1(w, c, v)
                         /\ Kept(w.contexts[c], v.contexts[c])
                         /\ v.contexts[c].next = w.contexts[c].next
  <1>1. /\ Claim(gone) /\ gone.client = Closed /\ gone.registry = NoSessions
    <2> DEFINE u == Disconnect(w)
    <2>1. u \in Worlds /\ u.contexts = w.contexts /\ u.misaddressed = w.misaddressed
          /\ u.client = Closed /\ u.registry = NoSessions /\ u.generation = w.generation
      BY DisconnectFacts
    <2> HIDE DEF u
    <2>2. /\ Around1(u, c, Owing(u, c, 1))
          /\ Owing(u, c, 1).client = u.client /\ Owing(u, c, 1).registry = u.registry
          /\ Kept(u.contexts[c], Owing(u, c, 1).contexts[c])
          /\ Owing(u, c, 1).contexts[c].next = u.contexts[c].next
      BY <2>1, OwingFacts
    <2>3. gone = Owing(u, c, 1)
      BY DEF u
    <2> HIDE DEF gone
    <2> QED  BY <2>1, <2>2, <2>3 DEF Around1
  <1>2. /\ Claim(Fault(gone)) /\ Fault(gone).client = Closed
        /\ Fault(gone).registry = NoSessions
    <2> HIDE DEF gone
    <2>1. gone \in Worlds
      BY <1>1 DEF Around1
    <2>2. Alike(gone, Fault(gone))
      BY <2>1, FaultFacts
    <2> QED  BY <1>1, <2>2 DEF Around1, Alike
  <1>3. \/ ~w.client.open /\ o = [w |-> w, reply |-> NoReply]
        \/ o = lost
        \/ o = faulty
        \/ /\ w.client.alive
           /\ \E a \in Handle(w.registry, sid, rid, request) : o = answered(a)
    BY DEF ClientRequest, Owing, IfFault, Counted
  <1>4. o = [w |-> o.w, reply |-> o.reply]
    <2> HIDE DEF gone, seen, owed
    <2> QED  BY <1>3
  <1>5. CASE ~w.client.open /\ o = [w |-> w, reply |-> NoReply]
    BY <1>4, <1>5 DEF Around1, Kept, Lost
  <1>6. CASE o = lost
    <2> HIDE DEF gone
    <2>1. o.w = gone /\ o.reply = NoReply
      BY <1>6
    <2> QED  BY <1>1, <1>4, <2>1 DEF Lost
  <1>7. CASE o = faulty
    <2> HIDE DEF gone
    <2>1. o.w = Fault(gone) /\ o.reply = NoReply
      BY <1>7
    <2> QED  BY <1>2, <1>4, <2>1 DEF Lost
  <1>8. ASSUME w.client.alive,
               NEW a \in Handle(w.registry, sid, rid, request), o = answered(a)
        PROVE  /\ Claim(o.w) /\ o.reply = a.reply /\ o.w.registry = a.registry
               /\ o.w.client = w.client /\ o.w.contexts[c].owed = owed(a)
    <2> DEFINE b == base(a)
               u == seen(a)
    <2>1. Alike(w, b)
      BY FaultFacts DEF Alike
    <2>2. Accepts(request, a)
      BY <1>8
    <2> HIDE DEF base
    <2>3. /\ u \in Worlds /\ u.client = w.client /\ u.registry = a.registry
          /\ u.generation = w.generation /\ u.contexts = w.contexts
          /\ u.misaddressed = w.misaddressed
      <3> HIDE DEF b
      <3> DEFINE missed == Misaddressed(request, a.reply.code)
      <3>1. u = [b EXCEPT !.registry = a.registry, !.misaddressed = @ \/ missed]
        BY DEF b
      <3>2. b.misaddressed = w.misaddressed /\ w.misaddressed \in BOOLEAN /\ b \in Worlds
        BY <2>1 DEF Alike, Worlds
      <3>3. (b.misaddressed \/ missed) = w.misaddressed
        BY <2>2, <3>2 DEF Accepts
      <3> HIDE DEF missed
      <3> QED  BY <2>1, <2>2, <3>1, <3>2, <3>3 DEF Alike, Accepts, Worlds
    <2> HIDE DEF seen
    <2>4. owed(a) \in Nat
      OBVIOUS
    <2> HIDE DEF owed
    <2> DEFINE v == Owing(u, c, owed(a))
    <2>5. /\ Around1(u, c, v) /\ v.client = u.client /\ v.registry = u.registry
          /\ Kept(u.contexts[c], v.contexts[c])
          /\ v.contexts[c].next = u.contexts[c].next /\ v.contexts[c].owed = owed(a)
      BY <2>3, <2>4, OwingFacts
    <2>6. o.w = v /\ o.reply = a.reply
      BY <1>8
    <2> HIDE DEF v
    <2> QED  BY <2>3, <2>5, <2>6 DEF Around1
  <1> HIDE DEF lost, faulty, answered
  <1> QED  BY <1>3, <1>4, <1>5, <1>6, <1>7, <1>8

\* q is r but for the request number of sid, which starts again
Renumbered(r, sid, q) ==
    /\ DOMAIN q = DOMAIN r
    /\ \A k \in DOMAIN r \ {sid} : q[k] = r[k]
    /\ sid \in DOMAIN r => /\ q[sid].last = 0
                           /\ q[sid].shows = r[sid].shows /\ q[sid].typos = r[sid].typos

\* Counting from the last accepted number changes the two numbers only.
LEMMA RebasedFacts ==
    ASSUME NEW w \in Worlds, NEW c \in Contexts, NEW sid,
           sid \in DOMAIN w.registry => w.registry[sid].last <= w.contexts[c].next
    PROVE  LET v == Rebased(w, c, sid)
           IN  /\ Around1(w, c, v) /\ v.client = w.client
               /\ Kept(w.contexts[c], v.contexts[c])
               /\ v.contexts[c].owed = w.contexts[c].owed
               /\ Renumbered(w.registry, sid, v.registry)
               /\ sid \in DOMAIN w.registry =>
                     v.contexts[c].next = w.contexts[c].next - w.registry[sid].last
  <1> DEFINE v == Rebased(w, c, sid)
             x == w.contexts[c]
             r == w.registry
             y == [x EXCEPT !.next = @ - r[sid].last]
             s == [r[sid] EXCEPT !.last = 0]
             q == [r EXCEPT ![sid] = s]
  <1>1. x \in States /\ r \in Registries
    BY DEF Worlds
  <1>2. CASE sid \notin DOMAIN r
    <2>1. v = w
      BY <1>2 DEF Rebased
    <2> QED  BY <1>2, <2>1 DEF Around1, Kept, Renumbered
  <1>3. CASE sid \in DOMAIN r
    <2>1. DOMAIN r \subseteq Ids /\ r \in [DOMAIN r -> Sessions]
      BY <1>1, RegistryType
    <2>2. r[sid] \in Sessions
      BY <1>3, <2>1
    <2>3. s \in Sessions /\ s.last = 0 /\ s.shows = r[sid].shows /\ s.typos = r[sid].typos
      BY <2>2 DEF Sessions
    <2>4. r[sid].last \in Nat /\ x.next - r[sid].last \in Nat
      BY <1>1, <1>3, <2>2 DEF Sessions, States
    <2>5. /\ y \in States /\ Kept(x, y) /\ y.owed = x.owed
          /\ y.next = x.next - r[sid].last
      BY <1>1, <2>4 DEF States, Kept
    <2>6. q \in [DOMAIN r -> Sessions] /\ Renumbered(r, sid, q)
      <3> HIDE DEF s
      <3> QED  BY <1>3, <2>1, <2>3 DEF Renumbered
    <2>7. q \in Registries
      BY <2>1, <2>6 DEF Registries
    <2>8. v.contexts = [w.contexts EXCEPT ![c] = y] /\ v.registry = q
      BY <1>3 DEF Worlds, Rebased
    <2> HIDE DEF y, s, q
    <2>9. /\ v.contexts \in [Contexts -> States] /\ v.contexts[c] = y
          /\ \A d \in Contexts \ {c} : v.contexts[d] = w.contexts[d]
      BY <2>5, <2>8 DEF Worlds
    <2>10. /\ v \in Worlds /\ v.client = w.client
           /\ v.generation = w.generation /\ v.misaddressed = w.misaddressed
      <3>1. v.registry \in Registries
        BY <2>7, <2>8
      <3> QED  BY <1>3, <2>9, <3>1 DEF Worlds, Rebased
    <2> QED  BY <2>5, <2>6, <2>8, <2>9, <2>10 DEF Around1
  <1> QED  BY <1>2, <1>3

\* The reply to a request is that of answer a, and the world v is what it left
Answered(w, c, a, v, reply) ==
    /\ v.client = w.client /\ reply = a.reply
    /\ v.contexts[c].owed = IF a.reply.commit THEN 1 ELSE 0
    /\ Renumbered(a.registry, w.contexts[c].sid, v.registry)
    /\ w.contexts[c].sid \in DOMAIN a.registry =>
          v.contexts[c].next
            = (w.contexts[c].next + 1) - a.registry[w.contexts[c].sid].last

\* A request of a context, when the request would not be misaddressed: there is no
\* reply and no worker any more, or the worker's answer is the reply.
LEMMA RequestFacts ==
    ASSUME NEW w \in Worlds, ClientFits(w), NEW c \in Contexts, NEW request,
           w.client.alive =>
             \A a \in Handle(w.registry, w.contexts[c].sid, w.contexts[c].next, request) :
                /\ Accepts(request, a)
                /\ w.contexts[c].sid \in DOMAIN a.registry =>
                      a.registry[w.contexts[c].sid].last \in 0..w.contexts[c].next,
           NEW o \in Request(w, c, request)
    PROVE  /\ Around1(w, c, o.w)
           /\ Kept(w.contexts[c], o.w.contexts[c])
           /\ \/ o.reply = NoReply /\ ~o.w.client.alive /\ o.w.registry = NoSessions
              \/ /\ w.client.alive
                 /\ \E a \in Handle(w.registry, w.contexts[c].sid, w.contexts[c].next, request) :
                       Answered(w, c, a, o.w, o.reply)
  <1> DEFINE s == w.contexts[c]
             y == [s EXCEPT !.next = @ + 1]
             u == [w EXCEPT !.contexts[c].next = @ + 1]
             all == Handle(w.registry, s.sid, s.next, request)
  <1>1. s \in States
    BY DEF Worlds
  <1>2. y \in States /\ Kept(s, y) /\ y.next = s.next + 1 /\ s.next \in Nat
    BY <1>1 DEF States, Kept
  <1>3. u.contexts = [w.contexts EXCEPT ![c] = y]
    BY DEF Worlds
  <1>4. /\ u.contexts \in [Contexts -> States] /\ u.contexts[c] = y
        /\ \A d \in Contexts \ {c} : u.contexts[d] = w.contexts[d]
    <2> HIDE DEF y
    <2> QED  BY <1>2, <1>3 DEF Worlds
  <1>5. /\ u \in Worlds /\ u.client = w.client /\ u.registry = w.registry
        /\ u.generation = w.generation /\ u.misaddressed = w.misaddressed
    BY <1>4 DEF Worlds
  <1>6. PICK p \in ClientRequest(u, c, s.sid, s.next, request) :
               o = [p EXCEPT !.w = Rebased(@, c, s.sid)]
    BY DEF Request
  <1> HIDE DEF y, u, s
  <1> DEFINE v == Rebased(p.w, c, s.sid)
  <1>7. /\ p = [w |-> p.w, reply |-> p.reply]
        /\ Around1(u, c, p.w) /\ Kept(u.contexts[c], p.w.contexts[c])
        /\ p.w.contexts[c].next = u.contexts[c].next
        /\ \/ Lost(u, p.w, p.reply)
           \/ /\ u.client.alive /\ p.w.client = u.client
              /\ \E a \in all :
                    /\ p.reply = a.reply /\ p.w.registry = a.registry
                    /\ p.w.contexts[c].owed = IF a.reply.commit THEN 1 ELSE 0
    <2>1. u.client.alive =>
             \A a \in Handle(u.registry, s.sid, s.next, request) : Accepts(request, a)
      BY <1>5 DEF s
    <2>2. all = Handle(u.registry, s.sid, s.next, request)
      BY <1>5
    <2> HIDE DEF all
    <2> QED  BY <1>5, <1>6, <2>1, <2>2, ClientRequestFacts
  <1>8. o.w = v /\ o.reply = p.reply
    <2> HIDE DEF v
    <2> QED  BY <1>6, <1>7 DEF v
  <1>9. p.w \in Worlds
    BY <1>7 DEF Around1
  <1>10. CASE Lost(u, p.w, p.reply)
    <2>1. ~p.w.client.alive /\ p.w.registry = NoSessions /\ p.reply = NoReply
      BY <1>5, <1>10 DEF Lost, Closed, ClientFits
    <2>2. Around1(p.w, c, v) /\ v.client = p.w.client /\ Kept(p.w.contexts[c], v.contexts[c])
          /\ v = p.w
      BY <1>9, <2>1, NoSessionsType DEF Rebased, Around1, Kept
    <2> HIDE DEF v
    <2> QED  BY <1>2, <1>4, <1>5, <1>8, <1>7, <2>1, <2>2 DEF Around1, Kept, s
  <1>11. ASSUME u.client.alive, p.w.client = u.client,
                NEW a \in all, p.reply = a.reply, p.w.registry = a.registry,
                p.w.contexts[c].owed = IF a.reply.commit THEN 1 ELSE 0
         PROVE  /\ Around1(w, c, o.w) /\ Kept(s, o.w.contexts[c])
                /\ w.client.alive /\ Answered(w, c, a, o.w, o.reply)
    <2>1. s.sid \in DOMAIN a.registry => a.registry[s.sid].last \in 0..s.next
      BY <1>5, <1>11 DEF s
    <2>2. p.w.contexts[c].next = s.next + 1
      BY <1>2, <1>4, <1>7
    <2>3. s.sid \in DOMAIN p.w.registry =>
             p.w.registry[s.sid].last <= p.w.contexts[c].next
      BY <1>2, <1>11, <2>1, <2>2
    <2>4. /\ Around1(p.w, c, v) /\ v.client = p.w.client
          /\ Kept(p.w.contexts[c], v.contexts[c])
          /\ v.contexts[c].owed = p.w.contexts[c].owed
          /\ Renumbered(p.w.registry, s.sid, v.registry)
          /\ s.sid \in DOMAIN p.w.registry =>
                v.contexts[c].next = p.w.contexts[c].next - p.w.registry[s.sid].last
      BY <1>9, <2>3, RebasedFacts
    <2> HIDE DEF v
    <2>5. Around1(w, c, v) /\ Kept(s, v.contexts[c])
      BY SMTT(30), <1>2, <1>4, <1>5, <1>7, <2>4 DEF Around1, Kept
    <2>6. Answered(w, c, a, v, p.reply)
      BY <1>5, <1>11, <2>2, <2>4 DEF Answered, s
    <2> QED  BY <1>5, <1>8, <1>11, <2>5, <2>6
  <1>12. CASE ~Lost(u, p.w, p.reply)
    <2>1. PICK a \in all : /\ u.client.alive /\ p.w.client = u.client
                           /\ p.reply = a.reply /\ p.w.registry = a.registry
                           /\ p.w.contexts[c].owed = IF a.reply.commit THEN 1 ELSE 0
      BY <1>7, <1>12
    <2> QED  BY <1>11, <2>1 DEF s
  <1> QED  BY <1>10, <1>12

-----------------------------------------------------------------------------
(* A state response becomes what the context shows                         *)

\* apply takes over the state of a response and inserts its commit once.
LEMMA ApplyFacts ==
    ASSUME NEW w \in Worlds, NEW c \in Contexts, NEW reply, reply.shows \in Presentations,
           reply.commit \in BOOLEAN,
           w.contexts[c].owed >= IF reply.commit THEN 1 ELSE 0
    PROVE  LET v == Apply(w, c, reply)
               x == w.contexts[c]
               y == v.contexts[c]
           IN  /\ Around1(w, c, v) /\ v.client = w.client /\ v.registry = w.registry
               /\ y.started = x.started /\ y.sid = x.sid
               /\ y.next = x.next /\ y.generation = x.generation
               /\ y.normal = reply.shows /\ ~y.normalCommits
               /\ y.shows = reply.shows /\ y.typos = 0
  <1> DEFINE v == Apply(w, c, reply)
             x == w.contexts[c]
             p == reply.shows
             n == IF reply.commit THEN 1 ELSE 0
             y == [[[[[x EXCEPT !.typos = 0] EXCEPT !.normal = p]
                        EXCEPT !.normalCommits = FALSE] EXCEPT !.shows = p]
                        EXCEPT !.owed = x.owed - n]
  <1>1. x \in States /\ x.owed - n \in Nat /\ p \in Presentations
    BY DEF Worlds, States
  <1>2. v = [w EXCEPT !.contexts[c].typos = 0,
                      !.contexts[c].normal = p,
                      !.contexts[c].normalCommits = FALSE,
                      !.contexts[c].shows = p,
                      !.contexts[c].owed = @ - n]
    BY DEF Apply
  <1> HIDE DEF n, p, v
  <1>3. /\ y \in States /\ y.started = x.started /\ y.sid = x.sid
        /\ y.next = x.next /\ y.generation = x.generation
        /\ y.normal = p /\ ~y.normalCommits /\ y.shows = p /\ y.typos = 0
    BY <1>1 DEF States
  <1>4. v.contexts = [w.contexts EXCEPT ![c] = y]
    BY <1>2 DEF Worlds
  <1> HIDE DEF y
  <1>5. /\ v.contexts \in [Contexts -> States] /\ v.contexts[c] = y
        /\ \A d \in Contexts \ {c} : v.contexts[d] = w.contexts[d]
    BY <1>3, <1>4 DEF Worlds
  <1>6. /\ v \in Worlds /\ v.client = w.client /\ v.registry = w.registry
        /\ v.generation = w.generation /\ v.misaddressed = w.misaddressed
    BY <1>2, <1>5 DEF Worlds
  <1> QED  BY <1>3, <1>5, <1>6 DEF Around1, v, p

\* The context c has a session of this connection, as far as it knows
Engaged(w, c) ==
    w.contexts[c].started /\ w.contexts[c].generation = w.generation

\* Only the session of c changed from w to v, and its numbers start again
Exchanged(w, c, v) ==
    /\ v.client = w.client
    /\ DOMAIN v.registry = DOMAIN w.registry
    /\ \A k \in DOMAIN w.registry \ {w.contexts[c].sid} : v.registry[k] = w.registry[k]
    /\ v.registry[w.contexts[c].sid].last = 0
    /\ v.contexts[c].next = 1

\* A request on the session of a context, with an index of what it shows, is
\* answered with what the session holds then, or the connection is lost.
LEMMA SessionRequestFacts ==
    ASSUME NEW w, Good(w), NEW c \in Contexts, Engaged(w, c), NEW request \in Requests,
           w.client.alive => Chooses(w.registry[w.contexts[c].sid], request),
           NEW o \in Request(w, c, request)
    PROVE  /\ Around1(w, c, o.w)
           /\ Kept(w.contexts[c], o.w.contexts[c])
           /\ \/ o.reply = NoReply /\ ~o.w.client.alive /\ o.w.registry = NoSessions
              \/ /\ w.client.alive /\ Exchanged(w, c, o.w)
                 /\ Tells(w.registry[w.contexts[c].sid], request,
                          o.w.registry[w.contexts[c].sid], o.reply)
                 /\ o.w.contexts[c].owed = IF o.reply.commit THEN 1 ELSE 0
  <1> DEFINE s == w.contexts[c]
             r == w.registry
             all == Handle(r, s.sid, s.next, request)
             answers == \A a \in all :
                           /\ Accepts(request, a)
                           /\ a.registry \in Registries
                           /\ DOMAIN a.registry = DOMAIN r
                           /\ \A k \in DOMAIN r \ {s.sid} : a.registry[k] = r[k]
                           /\ a.registry[s.sid].last = s.next
                           /\ Tells(r[s.sid], request, a.registry[s.sid], a.reply)
  <1>1. w \in Worlds /\ ClientFits(w) /\ s \in States /\ r \in Registries
    BY DEF Good, Worlds
  <1>2. s.next \in Nat
    BY <1>1 DEF States
  <1>3. w.client.alive => s.sid \in DOMAIN r /\ r[s.sid].last < s.next
    BY DEF Engaged, Good, ContextsFit, Served, InSync
  <1>4. w.client.alive => answers
    <2> SUFFICES ASSUME w.client.alive, NEW a \in all
                 PROVE  /\ Accepts(request, a)
                        /\ a.registry \in Registries
                        /\ DOMAIN a.registry = DOMAIN r
                        /\ \A k \in DOMAIN r \ {s.sid} : a.registry[k] = r[k]
                        /\ a.registry[s.sid].last = s.next
                        /\ Tells(r[s.sid], request, a.registry[s.sid], a.reply)
      OBVIOUS
    <2> HIDE DEF s, r
    <2>1. r[s.sid] \in Sessions
      BY <1>1, <1>3, RegistryType
    <2>2. s.next > r[s.sid].last
      BY <1>2, <1>3, <2>1 DEF Sessions
    <2>3. /\ a.registry \in Registries
          /\ DOMAIN a.registry = DOMAIN r
          /\ \A k \in DOMAIN r \ {s.sid} : a.registry[k] = r[k]
          /\ a.registry[s.sid].last = s.next
          /\ Tells(r[s.sid], request, a.registry[s.sid], a.reply)
      BY <1>1, <1>2, <1>3, <2>2, HandleAnswers
    <2>4. Chooses(r[s.sid], request)
      BY DEF r, s
    <2>5. Accepts(request, a)
      BY <2>3, <2>4 DEF Accepts, Tells
    <2> QED  BY <2>3, <2>5
  <1>5. w.client.alive =>
          \A a \in all : /\ Accepts(request, a)
                         /\ s.sid \in DOMAIN a.registry =>
                               a.registry[s.sid].last \in 0..s.next
    BY <1>2, <1>4
  <1>6. /\ Around1(w, c, o.w)
        /\ Kept(s, o.w.contexts[c])
        /\ \/ o.reply = NoReply /\ ~o.w.client.alive /\ o.w.registry = NoSessions
           \/ /\ w.client.alive
              /\ \E a \in all : Answered(w, c, a, o.w, o.reply)
    BY <1>1, <1>5, RequestFacts
  <1>7. ASSUME w.client.alive, NEW a \in all, Answered(w, c, a, o.w, o.reply)
        PROVE  /\ Exchanged(w, c, o.w)
               /\ Tells(r[s.sid], request, o.w.registry[s.sid], o.reply)
               /\ o.w.contexts[c].owed = IF o.reply.commit THEN 1 ELSE 0
    <2> DEFINE t == o.w.registry[s.sid]
               b == a.registry[s.sid]
    <2>1. /\ DOMAIN a.registry = DOMAIN r /\ s.sid \in DOMAIN r
          /\ \A k \in DOMAIN r \ {s.sid} : a.registry[k] = r[k]
          /\ b.last = s.next /\ Tells(r[s.sid], request, b, a.reply)
      BY <1>3, <1>4, <1>7
    <2>2. /\ Renumbered(a.registry, s.sid, o.w.registry)
          /\ o.w.client = w.client /\ o.reply = a.reply
          /\ o.w.contexts[c].owed = IF o.reply.commit THEN 1 ELSE 0
          /\ o.w.contexts[c].next = (s.next + 1) - b.last
      BY <1>7, <2>1 DEF Answered
    <2>3. t.last = 0 /\ t.shows = b.shows /\ t.typos = b.typos
      BY <2>1, <2>2 DEF Renumbered
    <2>4. t \in Sessions
      <3>1. o.w.registry \in Registries /\ s.sid \in DOMAIN o.w.registry
        BY <1>6, <2>1, <2>2 DEF Around1, Worlds, Renumbered
      <3> QED  BY <3>1, RegistryType
    <2>5. Tells(r[s.sid], request, t, o.reply)
      BY <2>1, <2>2, <2>3, <2>4 DEF Tells
    <2>6. o.w.contexts[c].next = 1
      BY <1>2, <2>1, <2>2
    <2>7. Exchanged(w, c, o.w)
      BY <2>1, <2>2, <2>3, <2>6 DEF Exchanged, Renumbered
    <2> QED  BY <2>2, <2>5, <2>7
  <1> QED  BY <1>6, <1>7

\* The served context c and its session changed together, and agree.
LEMMA GoodInSync ==
    ASSUME NEW w, Good(w), NEW c \in Contexts, Served(w, c),
           NEW v, Around1(w, c, v), v.client = w.client,
           DOMAIN v.registry = DOMAIN w.registry,
           \A k \in DOMAIN w.registry \ {w.contexts[c].sid} : v.registry[k] = w.registry[k],
           v.contexts[c].started = w.contexts[c].started,
           v.contexts[c].sid = w.contexts[c].sid,
           v.contexts[c].generation = w.contexts[c].generation,
           ~v.contexts[c].normalCommits,
           InSync(v.contexts[c], v.registry[w.contexts[c].sid])
    PROVE  Good(v)
  <1>1. \A d \in Contexts : Served(v, d) <=> Served(w, d)
    BY DEF Served, Around1
  <1>2. \A d \in Contexts : v.contexts[d].sid = w.contexts[d].sid
    BY DEF Around1
  <1>3. \A d \in Contexts : Settled(v.contexts[d])
    BY DEF Around1, Good, Settled
  <1>4. ContextsFit(v)
    <2> SUFFICES ASSUME NEW d \in Contexts, Served(v, d)
                 PROVE  /\ v.contexts[d].sid \in DOMAIN v.registry
                        /\ InSync(v.contexts[d], v.registry[v.contexts[d].sid])
                        /\ \A e \in Contexts \ {d} :
                              Served(v, e) => v.contexts[e].sid # v.contexts[d].sid
      BY DEF ContextsFit
    <2>1. /\ w.contexts[d].sid \in DOMAIN w.registry
          /\ InSync(w.contexts[d], w.registry[w.contexts[d].sid])
          /\ \A e \in Contexts \ {d} :
                Served(w, e) => w.contexts[e].sid # w.contexts[d].sid
      BY <1>1 DEF Good, ContextsFit
    <2>2. CASE d = c
      BY <1>1, <1>2, <2>1, <2>2
    <2>3. CASE d # c
      <3>1. w.contexts[d].sid # w.contexts[c].sid
        BY <2>1, <2>3
      <3>2. v.contexts[d] = w.contexts[d]
        BY <2>3 DEF Around1
      <3> QED  BY <1>1, <1>2, <2>1, <3>1, <3>2
    <2> QED  BY <2>2, <2>3
  <1>5. RegistryFits(v)
    BY <1>1, <1>2 DEF Good, RegistryFits
  <1>6. ClientFits(v)
    BY DEF Good, ClientFits, Served
  <1> QED  BY <1>3, <1>4, <1>5, <1>6 DEF Good, Around1

\* send: the reply's state becomes the context's, or the session is given up.
LEMMA SendGood ==
    ASSUME NEW w, Good(w), NEW c \in Contexts, Engaged(w, c), NEW request \in Requests,
           w.client.alive => Chooses(w.registry[w.contexts[c].sid], request),
           NEW r \in Send(w, c, request)
    PROVE  /\ Good(r.w) /\ r.answered \in BOOLEAN
           /\ r.w.contexts[c].started => Engaged(r.w, c)
           /\ r = [w |-> r.w, ok |-> r.ok, answered |-> r.answered]
  <1> DEFINE sid == w.contexts[c].sid
  <1>1. PICK o \in Request(w, c, request) :
               r = IF o.reply.kind = "state"
                   THEN [w |-> Apply(o.w, c, o.reply), ok |-> o.reply.consumed,
                         answered |-> TRUE]
                   ELSE [w |-> FailSession(o.w, c), ok |-> FALSE, answered |-> FALSE]
    BY DEF Send
  <1>2. /\ Around1(w, c, o.w) /\ Kept(w.contexts[c], o.w.contexts[c])
        /\ \/ o.reply = NoReply /\ ~o.w.client.alive /\ o.w.registry = NoSessions
           \/ /\ w.client.alive /\ Exchanged(w, c, o.w)
              /\ Tells(w.registry[sid], request, o.w.registry[sid], o.reply)
              /\ o.w.contexts[c].owed = IF o.reply.commit THEN 1 ELSE 0
    BY <1>1, SessionRequestFacts
  <1>3. o.w \in Worlds /\ ~o.w.misaddressed
    BY <1>2 DEF Around1, Good
  <1>4. CASE o.reply.kind # "state"
    <2>1. r = [w |-> FailSession(o.w, c), ok |-> FALSE, answered |-> FALSE]
      BY <1>1, <1>4
    <2>2. r.w = FailSession(o.w, c) /\ r.answered = FALSE
          /\ r = [w |-> r.w, ok |-> r.ok, answered |-> r.answered]
      BY <2>1
    <2>3. \A d \in Contexts \ {c} : Settled(o.w.contexts[d])
      BY <1>2 DEF Around1, Good
    <2> QED  BY <1>3, <2>2, <2>3, FailSessionGood
  <1>5. CASE o.reply.kind = "state"
    <2> DEFINE v == Apply(o.w, c, o.reply)
    <2>1. r = [w |-> v, ok |-> o.reply.consumed, answered |-> TRUE]
      BY <1>1, <1>5
    <2>2. r.w = v /\ r.answered = TRUE
          /\ r = [w |-> r.w, ok |-> r.ok, answered |-> r.answered]
      <3> HIDE DEF v
      <3> QED  BY <2>1
    <2>3. NoReply.kind = "error"
      BY DEF NoReply, ErrorReply
    <2>4. /\ w.client.alive /\ Exchanged(w, c, o.w)
          /\ o.reply.shows \in Presentations /\ o.reply.commit \in BOOLEAN
          /\ o.w.registry[sid].shows = o.reply.shows
          /\ o.w.contexts[c].owed >= IF o.reply.commit THEN 1 ELSE 0
      BY <1>2, <1>5, <2>3 DEF Tells, Replies
    <2>5. /\ Around1(o.w, c, v) /\ v.client = o.w.client /\ v.registry = o.w.registry
          /\ v.contexts[c].started = o.w.contexts[c].started
          /\ v.contexts[c].sid = o.w.contexts[c].sid
          /\ v.contexts[c].next = o.w.contexts[c].next
          /\ v.contexts[c].generation = o.w.contexts[c].generation
          /\ v.contexts[c].normal = o.reply.shows /\ ~v.contexts[c].normalCommits
          /\ v.contexts[c].shows = o.reply.shows /\ v.contexts[c].typos = 0
      BY <1>3, <2>4, ApplyFacts
    <2> HIDE DEF v
    <2>6. InSync(v.contexts[c], v.registry[sid])
      BY SMTT(30), <2>4, <2>5 DEF InSync, Exchanged
    <2>7. Served(w, c)
      BY <2>4 DEF Served, Engaged
    <2>8. Around1(w, c, v)
      BY <1>2, <2>5 DEF Around1
    <2>9. /\ v.client = w.client /\ DOMAIN v.registry = DOMAIN w.registry
          /\ \A k \in DOMAIN w.registry \ {sid} : v.registry[k] = w.registry[k]
      BY <2>4, <2>5 DEF Exchanged
    <2>10. /\ v.contexts[c].started = w.contexts[c].started
           /\ v.contexts[c].sid = sid
           /\ v.contexts[c].generation = w.contexts[c].generation
      BY <1>2, <2>5 DEF Kept
    <2>11. Good(v)
      BY <2>5, <2>6, <2>7, <2>8, <2>9, <2>10, GoodInSync
    <2>12. Engaged(v, c)
      BY <2>8, <2>10 DEF Engaged, Around1
    <2> QED  BY <2>2, <2>11, <2>12
  <1> QED  BY <1>4, <1>5

\* A request without an index is never one for a list.
LEMMA PlainRequest ==
    ASSUME NEW kind \in SessionKinds \ {"Select", "Forget", "SelectTypo"}, NEW s
    PROVE  Plain(kind) \in Requests /\ Chooses(s, Plain(kind))
  BY DEF Plain, Requests, Chooses, SessionKinds

-----------------------------------------------------------------------------
(* Redrawing and the corrections                                           *)

\* A redraw from normalState_ shows its state and commits nothing.
LEMMA RedrawFacts ==
    ASSUME NEW w \in Worlds, NEW c \in Contexts, ~w.contexts[c].normalCommits
    PROVE  LET v == Redraw(w, c)
               x == w.contexts[c]
               y == v.contexts[c]
           IN  /\ Around1(w, c, v) /\ v.client = w.client /\ v.registry = w.registry
               /\ y.started = x.started /\ y.sid = x.sid
               /\ y.next = x.next /\ y.generation = x.generation
               /\ y.normal = x.normal /\ ~y.normalCommits
               /\ y.shows = x.normal /\ y.typos = 0
  <1> DEFINE x == w.contexts[c]
             reply == StateReply(x.normal, FALSE, x.normalCommits)
  <1>1. x \in States
    BY DEF Worlds
  <1>2. /\ reply.shows = x.normal /\ reply.commit = x.normalCommits
        /\ x.normal \in Presentations /\ x.normalCommits = FALSE /\ x.owed >= 0
    BY <1>1 DEF StateReply, States
  <1>3. Redraw(w, c) = Apply(w, c, reply)
    BY DEF Redraw
  <1> HIDE DEF reply
  <1>4. /\ reply.shows \in Presentations /\ reply.commit \in BOOLEAN
        /\ w.contexts[c].owed >= IF reply.commit THEN 1 ELSE 0
    BY <1>2
  <1> DEFINE v == Apply(w, c, reply)
  <1>5. /\ Around1(w, c, v) /\ v.client = w.client /\ v.registry = w.registry
        /\ v.contexts[c].started = x.started /\ v.contexts[c].sid = x.sid
        /\ v.contexts[c].next = x.next /\ v.contexts[c].generation = x.generation
        /\ v.contexts[c].normal = reply.shows /\ ~v.contexts[c].normalCommits
        /\ v.contexts[c].shows = reply.shows /\ v.contexts[c].typos = 0
    BY <1>4, ApplyFacts
  <1> HIDE DEF v
  <1>6. Redraw(w, c) = v
    BY <1>3 DEF v
  <1> QED  BY <1>2, <1>5, <1>6

\* Focus on a context that lists corrections brings its candidates back.
LEMMA RedrawGood ==
    ASSUME NEW w, Good(w), NEW c \in Contexts, Engaged(w, c)
    PROVE  Good(Redraw(w, c))
  <1> DEFINE v == Redraw(w, c)
             sid == w.contexts[c].sid
  <1>1. w \in Worlds /\ Settled(w.contexts[c]) /\ ~w.misaddressed
    BY DEF Good
  <1>2. /\ Around1(w, c, v) /\ v.client = w.client /\ v.registry = w.registry
        /\ v.contexts[c].started = w.contexts[c].started /\ v.contexts[c].sid = sid
        /\ v.contexts[c].next = w.contexts[c].next
        /\ v.contexts[c].generation = w.contexts[c].generation
        /\ v.contexts[c].normal = w.contexts[c].normal /\ ~v.contexts[c].normalCommits
        /\ v.contexts[c].shows = w.contexts[c].normal /\ v.contexts[c].typos = 0
    BY <1>1, RedrawFacts DEF Settled
  <1> HIDE DEF v
  <1>3. CASE Served(w, c)
    <2>1. InSync(w.contexts[c], w.registry[sid])
      BY <1>3 DEF Good, ContextsFit
    <2>2. InSync(v.contexts[c], v.registry[sid])
      BY <1>2, <2>1 DEF InSync
    <2> QED  BY <1>2, <1>3, <2>2, GoodInSync DEF v
  <1>4. CASE ~Served(w, c)
    <2>1. ~w.client.alive /\ w.registry = NoSessions
      BY <1>4 DEF Served, Engaged, Good, ClientFits
    <2>2. \A d \in Contexts : Settled(v.contexts[d])
      BY <1>1, <1>2 DEF Good, Around1, Settled
    <2>3. v \in Worlds /\ ~v.misaddressed
      BY <1>1, <1>2 DEF Around1
    <2> QED  BY <1>2, <2>1, <2>2, <2>3, GoodClosed DEF v
  <1> QED  BY <1>3, <1>4

\* showTypoCorrections lists the corrections the session keeps, or brings the
\* candidates back when there are none.
LEMMA ShowTyposFacts ==
    ASSUME NEW w \in Worlds, NEW c \in Contexts, ~w.contexts[c].normalCommits, NEW n \in Nat
    PROVE  LET v == ShowTypos(w, c, n)
               x == w.contexts[c]
               y == v.contexts[c]
           IN  /\ Around1(w, c, v) /\ v.client = w.client /\ v.registry = w.registry
               /\ y.started = x.started /\ y.sid = x.sid
               /\ y.next = x.next /\ y.generation = x.generation
               /\ y.normal = x.normal /\ ~y.normalCommits /\ y.typos = n
               /\ y.shows = IF n = 0 THEN x.normal ELSE Nothing
  <1>1. CASE n = 0
    <2>1. ShowTypos(w, c, n) = Redraw(w, c)
      BY <1>1 DEF ShowTypos
    <2> QED  BY <1>1, <2>1, RedrawFacts
  <1>2. CASE n # 0
    <2> DEFINE v == ShowTypos(w, c, n)
               x == w.contexts[c]
               y == [[x EXCEPT !.typos = n] EXCEPT !.shows = Nothing]
    <2>1. x \in States
      BY DEF Worlds
    <2>2. /\ y \in States /\ y.started = x.started /\ y.sid = x.sid
          /\ y.next = x.next /\ y.generation = x.generation
          /\ y.normal = x.normal /\ ~y.normalCommits /\ y.typos = n /\ y.shows = Nothing
      BY <2>1, NothingShown DEF States
    <2>3. v = [w EXCEPT !.contexts[c].typos = n, !.contexts[c].shows = Nothing]
      BY <1>2 DEF ShowTypos
    <2> HIDE DEF v
    <2>4. v.contexts = [w.contexts EXCEPT ![c] = y]
      BY <2>3 DEF Worlds
    <2> HIDE DEF y
    <2>5. /\ v.contexts \in [Contexts -> States] /\ v.contexts[c] = y
          /\ \A d \in Contexts \ {c} : v.contexts[d] = w.contexts[d]
      BY <2>2, <2>4 DEF Worlds
    <2>6. /\ v \in Worlds /\ v.client = w.client /\ v.registry = w.registry
          /\ v.generation = w.generation /\ v.misaddressed = w.misaddressed
      BY <2>3, <2>5 DEF Worlds
    <2> QED  BY <1>2, <2>2, <2>5, <2>6 DEF Around1, v
  <1> QED  BY <1>1, <1>2

-----------------------------------------------------------------------------
(* Connecting                                                              *)

\* v is w but for the connection and what prepares it
Connecting(w, v) ==
    v.contexts = w.contexts /\ v.misaddressed = w.misaddressed /\ v \in Worlds

\* A new connection has a generation no context has: it serves no session yet.
LEMMA ConnectGood ==
    ASSUME NEW w, Good(w)
    PROVE  /\ Good(Connect(w)) /\ Connecting(w, Connect(w))
           /\ Connect(w).client = Connected /\ Connect(w).registry = NoSessions
           /\ \A c \in Contexts : Connect(w).generation # w.contexts[c].generation
  <1> DEFINE used == {w.generation} \cup {w.contexts[c].generation : c \in Contexts}
             g == Fresh(used)
             v == [w EXCEPT !.client = Connected, !.registry = NoSessions,
                            !.daemon = "serving", !.generation = g]
  <1>1. w \in Worlds
    BY DEF Good
  <1>2. IsFiniteSet(used)
    <2> DEFINE f == [c \in Contexts |-> w.contexts[c].generation]
    <2>1. f = [c \in Contexts |-> f[c]] /\ IsFiniteSet(Contexts)
      BY FcitxAssumption
    <2> HIDE DEF f
    <2>2. IsFiniteSet({f[c] : c \in Contexts})
      BY <2>1, FiniteRange
    <2>3. {w.contexts[c].generation : c \in Contexts} = {f[c] : c \in Contexts}
      BY DEF f
    <2>4. used = {f[c] : c \in Contexts} \cup {w.generation}
      BY <2>3
    <2> QED  BY <2>2, <2>4, FS_AddElement
  <1> HIDE DEF used
  <1>3. g \in Nat /\ g \notin used
    BY <1>2, FreshIsUnused DEF Ids
  <1> HIDE DEF g
  <1>4. Connect(w) = v
    BY DEF Connect, g, used
  <1>5. Connected \in Clients
    BY DEF Connected, Clients
  <1>6. /\ v \in Worlds /\ v.client = Connected /\ v.registry = NoSessions
        /\ v.generation = g /\ v.contexts = w.contexts /\ v.misaddressed = w.misaddressed
    BY <1>1, <1>3, <1>5, NoSessionsType DEF Worlds
  <1> HIDE DEF v
  <1>7. \A c \in Contexts : w.contexts[c].generation # g
    BY <1>3 DEF used
  <1>8. \A c \in Contexts : ~Served(v, c)
    BY <1>6, <1>7 DEF Served
  <1>9. DOMAIN v.registry = {}
    BY <1>6, NoSessionsType
  <1>10. ClientFits(v)
    BY <1>6 DEF ClientFits, Connected
  <1>11. Good(v)
    BY <1>6, <1>8, <1>9, <1>10 DEF Good, ContextsFit, RegistryFits
  <1> QED  BY <1>4, <1>6, <1>7, <1>11 DEF Connecting

\* The number of faults, and what prepares a connection, do not matter to it.
LEMMA GoodAlike ==
    ASSUME NEW w, Good(w), NEW v, Alike(w, v)
    PROVE  Good(v)
  <1>1. \A c \in Contexts : Served(v, c) <=> Served(w, c)
    BY DEF Served, Alike
  <1> QED  BY <1>1 DEF Good, Alike, ClientFits, ContextsFit, RegistryFits

\* Launching the daemon changes nothing about the connection.
LEMMA LaunchFacts ==
    ASSUME NEW w \in Worlds
    PROVE  Alike(w, Launch(w))
  BY DEF Launch, Worlds, Alike

\* ensureConnected: on success the socket is open; the contexts are untouched.
LEMMA EnsureConnectedGood ==
    ASSUME NEW w, Good(w), NEW e \in EnsureConnected(w)
    PROVE  /\ Good(e.w) /\ Connecting(w, e.w)
           /\ e.ok \in BOOLEAN /\ (e.ok => e.w.client.open)
  <1>1. w \in Worlds
    BY DEF Good
  <1>2. CASE e = [w |-> w, ok |-> TRUE] /\ w.client.open
    BY <1>1, <1>2 DEF Connecting
  <1>3. CASE e = [w |-> w, ok |-> FALSE]
    BY <1>1, <1>3 DEF Connecting
  <1>4. CASE e = [w |-> Launch(w), ok |-> FALSE]
    <2>1. e.w = Launch(w) /\ e.ok = FALSE
      BY <1>4
    <2>2. Alike(w, e.w)
      BY <1>1, <2>1, LaunchFacts
    <2> QED  BY <2>1, <2>2, GoodAlike DEF Connecting, Alike
  <1>5. CASE e = [w |-> Connect(w), ok |-> TRUE]
    <2>1. e.w = Connect(w) /\ e.ok = TRUE
      BY <1>5
    <2>2. Connected.open
      BY DEF Connected
    <2> QED  BY <2>1, <2>2, ConnectGood
  <1>6. CASE e = [w |-> Launch(Fault(w)), ok |-> FALSE]
    <2>1. e.w = Launch(Fault(w)) /\ e.ok = FALSE
      BY <1>6
    <2>2. Alike(w, Fault(w)) /\ Fault(w) \in Worlds
      BY <1>1, FaultFacts DEF Alike
    <2>3. Alike(Fault(w), e.w)
      BY <2>1, <2>2, LaunchFacts
    <2>4. Alike(w, e.w)
      BY <2>2, <2>3 DEF Alike
    <2> QED  BY <2>1, <2>4, GoodAlike DEF Connecting, Alike
  <1> QED  BY <1>2, <1>3, <1>4, <1>5, <1>6 DEF EnsureConnected, IfFault

\* A context that had no session got a new one, and agrees with it.
LEMMA GoodOpened ==
    ASSUME NEW w, Good(w), NEW c \in Contexts, ~Served(w, c), w.client.alive,
           NEW v, Around1(w, c, v), v.client = w.client, NEW sid \in Ids,
           sid \notin DOMAIN w.registry,
           DOMAIN v.registry = DOMAIN w.registry \cup {sid},
           \A k \in DOMAIN w.registry : v.registry[k] = w.registry[k],
           v.contexts[c].started, v.contexts[c].sid = sid,
           v.contexts[c].generation = w.generation, ~v.contexts[c].normalCommits,
           InSync(v.contexts[c], v.registry[sid])
    PROVE  Good(v)
  <1>1. Served(v, c) /\ \A d \in Contexts \ {c} : Served(v, d) <=> Served(w, d)
    BY DEF Served, Around1
  <1>2. \A d \in Contexts \ {c} : v.contexts[d] = w.contexts[d]
    BY DEF Around1
  <1>3. \A d \in Contexts : Settled(v.contexts[d])
    BY <1>2 DEF Good, Settled, Ids, NoSid
  <1>4. \A d \in Contexts \ {c} : Served(w, d) => w.contexts[d].sid \in DOMAIN w.registry
    BY DEF Good, ContextsFit
  <1>5. ContextsFit(v)
    <2> SUFFICES ASSUME NEW d \in Contexts, Served(v, d)
                 PROVE  /\ v.contexts[d].sid \in DOMAIN v.registry
                        /\ InSync(v.contexts[d], v.registry[v.contexts[d].sid])
                        /\ \A e \in Contexts \ {d} :
                              Served(v, e) => v.contexts[e].sid # v.contexts[d].sid
      BY DEF ContextsFit
    <2>1. CASE d = c
      BY <1>1, <1>2, <1>4, <2>1
    <2>2. CASE d # c
      <3>1. Served(w, d) /\ v.contexts[d] = w.contexts[d]
        BY <1>1, <1>2, <2>2
      <3>2. /\ w.contexts[d].sid \in DOMAIN w.registry
            /\ InSync(w.contexts[d], w.registry[w.contexts[d].sid])
            /\ \A e \in Contexts \ {d} :
                  Served(w, e) => w.contexts[e].sid # w.contexts[d].sid
        BY <3>1 DEF Good, ContextsFit
      <3>3. \A e \in Contexts \ {d} :
               Served(v, e) => v.contexts[e].sid # v.contexts[d].sid
        BY <1>1, <1>2, <3>1, <3>2
      <3> QED  BY <3>1, <3>2, <3>3
    <2> QED  BY <2>1, <2>2
  <1>6. RegistryFits(v)
    <2> SUFFICES ASSUME NEW k \in DOMAIN v.registry
                 PROVE  \E d \in Contexts : Served(v, d) /\ v.contexts[d].sid = k
      BY DEF RegistryFits
    <2>1. CASE k = sid
      BY <1>1, <2>1
    <2>2. CASE k # sid
      <3>1. PICK d \in Contexts : Served(w, d) /\ w.contexts[d].sid = k
        BY <2>2 DEF Good, RegistryFits
      <3> QED  BY <1>1, <1>2, <3>1
    <2> QED  BY <2>1, <2>2
  <1>7. ClientFits(v)
    BY DEF Good, ClientFits
  <1> QED  BY <1>3, <1>5, <1>6, <1>7 DEF Good, Around1

\* A session id that nothing uses.
LEMMA FreshSession ==
    ASSUME NEW w, Good(w)
    PROVE  LET used == DOMAIN w.registry \cup {w.contexts[d].sid : d \in Contexts}
           IN  /\ Fresh(used \ {NoSid}) \in Ids
               /\ Fresh(used \ {NoSid}) \notin DOMAIN w.registry
  <1> DEFINE sids == {w.contexts[d].sid : d \in Contexts}
             used == DOMAIN w.registry \cup sids
             f == [d \in Contexts |-> w.contexts[d].sid]
  <1>1. DOMAIN w.registry \subseteq sids
    BY DEF Good, RegistryFits
  <1>2. IsFiniteSet(sids)
    <2>1. f = [d \in Contexts |-> f[d]] /\ IsFiniteSet(Contexts)
      BY FcitxAssumption
    <2>2. sids = {f[d] : d \in Contexts}
      OBVIOUS
    <2> HIDE DEF f, sids
    <2> QED  BY <2>1, <2>2, FiniteRange
  <1>3. used \ {NoSid} = sids \ {NoSid}
    BY <1>1
  <1> HIDE DEF sids
  <1>4. IsFiniteSet(sids \ {NoSid})
    BY <1>2, FS_RemoveElement
  <1> DEFINE rest == used \ {NoSid}
  <1>5. IsFiniteSet(rest)
    BY <1>3, <1>4
  <1>6. DOMAIN w.registry \subseteq rest
    <2>1. w.registry \in Registries
      BY DEF Good, Worlds
    <2> QED  BY <2>1, RegistryType DEF Ids, NoSid
  <1> HIDE DEF rest
  <1>7. Fresh(rest) \in Ids /\ Fresh(rest) \notin rest
    BY <1>5, FreshIsUnused
  <1>8. Fresh(rest) \in Ids /\ Fresh(rest) \notin DOMAIN w.registry
    BY <1>6, <1>7
  <1> QED  BY <1>8 DEF rest, sids

\* The StartSession exchange: the context has a session of its own that shows
\* nothing, or no session and no connection.
LEMMA OpenGood ==
    ASSUME NEW w, Good(w), NEW c \in Contexts, ~w.contexts[c].started, NEW r \in Open(w, c)
    PROVE  /\ Good(r.w) /\ r.ok \in BOOLEAN
           /\ r.ok => Engaged(r.w, c)
  <1> DEFINE used == DOMAIN w.registry \cup {w.contexts[d].sid : d \in Contexts}
             sid == Fresh(used \ {NoSid})
             x == w.contexts[c]
             y == [[[x EXCEPT !.generation = w.generation] EXCEPT !.sid = sid]
                      EXCEPT !.next = 1]
             fresh == [w EXCEPT !.contexts[c].generation = w.generation,
                                !.contexts[c].sid = sid,
                                !.contexts[c].next = 1]
             request == Plain("Start")
  <1>1. PICK o \in Request(fresh, c, request) :
               r = IF o.reply.kind = "state"
                   THEN [w |-> Apply([o.w EXCEPT !.contexts[c].started = TRUE], c, o.reply),
                         ok |-> TRUE]
                   ELSE [w |-> [Disconnect(o.w) EXCEPT !.contexts[c].sid = NoSid],
                         ok |-> FALSE]
    BY DEF Open
  <1>2. sid \in Ids /\ sid \notin DOMAIN w.registry
    BY FreshSession
  <1> HIDE DEF sid, request
  <1>3. w \in Worlds /\ x \in States /\ w.generation \in Nat /\ ~w.misaddressed
    BY DEF Good, Worlds
  <1>4. /\ y \in States /\ y.started = x.started /\ y.sid = sid /\ y.next = 1
        /\ y.generation = w.generation /\ y.normalCommits = x.normalCommits
    BY <1>2, <1>3 DEF States, Ids
  <1>5. fresh.contexts = [w.contexts EXCEPT ![c] = y]
    BY <1>3 DEF Worlds
  <1> HIDE DEF y
  <1>6. /\ fresh.contexts \in [Contexts -> States] /\ fresh.contexts[c] = y
        /\ \A d \in Contexts \ {c} : fresh.contexts[d] = w.contexts[d]
    BY <1>3, <1>4, <1>5 DEF Worlds
  <1>7. /\ fresh \in Worlds /\ fresh.client = w.client /\ fresh.registry = w.registry
        /\ fresh.generation = w.generation /\ fresh.misaddressed = w.misaddressed
    BY <1>3, <1>6 DEF Worlds
  <1> HIDE DEF fresh, x
  <1> DEFINE all == Handle(w.registry, sid, 1, request)
  <1>8. ASSUME NEW a \in all
        PROVE  /\ a.registry \in Registries
               /\ a.reply \in Replies /\ ~a.reply.commit /\ ~Misaddressed(request, a.reply.code)
               /\ \/ /\ a.reply.kind = "state" /\ a.reply.shows = Nothing
                     /\ DOMAIN a.registry = DOMAIN w.registry \cup {sid}
                     /\ a.registry[sid] = [last |-> 1, shows |-> Nothing, typos |-> 0]
                     /\ \A k \in DOMAIN w.registry : a.registry[k] = w.registry[k]
                  \/ a.reply.kind = "error" /\ a.registry = w.registry
    <2>1. w.registry \in Registries
      BY <1>3 DEF Worlds
    <2> QED  BY <1>2, <2>1, HandleStarts DEF request
  <1>9. \A a \in all : /\ Accepts(request, a)
                       /\ sid \in DOMAIN a.registry => a.registry[sid].last \in 0..1
    <2> SUFFICES ASSUME NEW a \in all
                 PROVE  /\ Accepts(request, a)
                        /\ sid \in DOMAIN a.registry => a.registry[sid].last \in 0..1
      OBVIOUS
    <2>1. Accepts(request, a)
      BY <1>8 DEF Accepts
    <2>2. sid \in DOMAIN a.registry => a.registry[sid].last = 1
      BY <1>2, <1>8
    <2> QED  BY <2>1, <2>2
  <1>10. ClientFits(fresh)
    BY <1>7 DEF Good, ClientFits
  <1>11. fresh.contexts[c].sid = sid /\ fresh.contexts[c].next = 1
    BY <1>4, <1>6
  <1>12. /\ Around1(fresh, c, o.w) /\ Kept(y, o.w.contexts[c])
         /\ \/ o.reply = NoReply /\ ~o.w.client.alive /\ o.w.registry = NoSessions
            \/ /\ w.client.alive
               /\ \E a \in all : Answered(fresh, c, a, o.w, o.reply)
    <2>1. fresh.client.alive =>
            \A a \in Handle(fresh.registry, fresh.contexts[c].sid,
                            fresh.contexts[c].next, request) :
               /\ Accepts(request, a)
               /\ fresh.contexts[c].sid \in DOMAIN a.registry =>
                     a.registry[fresh.contexts[c].sid].last \in 0..fresh.contexts[c].next
      BY <1>7, <1>9, <1>11
    <2>2. all = Handle(fresh.registry, fresh.contexts[c].sid, fresh.contexts[c].next, request)
      BY <1>7, <1>11
    <2> HIDE DEF all
    <2> QED  BY <1>1, <1>6, <1>7, <1>10, <2>1, <2>2, RequestFacts
  <1>13. /\ Around1(w, c, o.w) /\ o.w \in Worlds /\ ~o.w.misaddressed
         /\ \A d \in Contexts \ {c} : Settled(o.w.contexts[d])
    BY <1>3, <1>6, <1>7, <1>12 DEF Around1, Good
  <1>14. /\ ~o.w.contexts[c].started /\ o.w.contexts[c].sid = sid
         /\ o.w.contexts[c].generation = w.generation /\ ~o.w.contexts[c].normalCommits
    <2>1. Settled(x)
      BY DEF Good, x
    <2>2. ~x.started
      BY DEF x
    <2> QED  BY <1>4, <1>12, <2>1, <2>2 DEF Kept, Settled
  <1>15. CASE o.reply.kind # "state"
    <2> DEFINE u == Disconnect(o.w)
               v == [u EXCEPT !.contexts[c].sid = NoSid]
               z == [u.contexts[c] EXCEPT !.sid = NoSid]
    <2>1. /\ u \in Worlds /\ u.contexts = o.w.contexts /\ u.misaddressed = o.w.misaddressed
          /\ u.client = Closed /\ u.registry = NoSessions
      BY <1>13, DisconnectFacts
    <2>2. r = [w |-> v, ok |-> FALSE]
      BY <1>1, <1>15
    <2> HIDE DEF u
    <2>3. z \in States /\ ~z.started /\ z.sid = NoSid /\ ~z.normalCommits
      <3>1. u.contexts[c] \in States
        BY <2>1 DEF Worlds
      <3>2. ~u.contexts[c].started /\ ~u.contexts[c].normalCommits
        BY <1>14, <2>1
      <3> QED  BY <3>1, <3>2 DEF States, NoSid
    <2>4. v.contexts = [u.contexts EXCEPT ![c] = z]
      BY <2>1 DEF Worlds
    <2> HIDE DEF z
    <2>5. /\ v.contexts \in [Contexts -> States] /\ v.contexts[c] = z
          /\ \A d \in Contexts \ {c} : v.contexts[d] = o.w.contexts[d]
      BY <2>1, <2>3, <2>4 DEF Worlds
    <2>6. /\ v \in Worlds /\ v.client = Closed /\ v.registry = NoSessions
          /\ v.misaddressed = o.w.misaddressed
      BY <2>1, <2>5 DEF Worlds
    <2> HIDE DEF v
    <2>7. \A d \in Contexts : Settled(v.contexts[d])
      BY <1>13, <2>3, <2>5 DEF Settled
    <2>8. ~v.client.alive
      BY <2>6 DEF Closed
    <2>9. Good(v)
      BY <1>13, <2>6, <2>7, <2>8, GoodClosed
    <2>10. r.w = v /\ r.ok = FALSE
      BY <2>2
    <2> QED  BY <2>9, <2>10
  <1>16. CASE o.reply.kind = "state"
    <2> DEFINE u == [o.w EXCEPT !.contexts[c].started = TRUE]
               v == Apply(u, c, o.reply)
               z == [o.w.contexts[c] EXCEPT !.started = TRUE]
    <2>1. r = [w |-> v, ok |-> TRUE]
      BY <1>1, <1>16
    <2>2. NoReply.kind = "error"
      BY DEF NoReply, ErrorReply
    <2>3. PICK a \in all : w.client.alive /\ Answered(fresh, c, a, o.w, o.reply)
      BY <1>12, <1>16, <2>2
    <2>4. /\ a.reply = o.reply /\ ~o.reply.commit /\ o.reply.commit \in BOOLEAN
          /\ o.reply.shows = Nothing
          /\ DOMAIN a.registry = DOMAIN w.registry \cup {sid}
          /\ a.registry[sid].last = 1 /\ a.registry[sid].shows = Nothing
          /\ \A k \in DOMAIN w.registry : a.registry[k] = w.registry[k]
      BY <1>8, <1>16, <2>3 DEF Answered, Replies
    <2>5. /\ o.w.client = w.client
          /\ Renumbered(a.registry, sid, o.w.registry)
          /\ o.w.contexts[c].next = 1
      BY <1>7, <1>11, <2>3, <2>4 DEF Answered
    <2>6. /\ DOMAIN o.w.registry = DOMAIN w.registry \cup {sid}
          /\ \A k \in DOMAIN w.registry : o.w.registry[k] = w.registry[k]
          /\ o.w.registry[sid].last = 0 /\ o.w.registry[sid].shows = Nothing
      BY <1>2, <2>4, <2>5 DEF Renumbered
    <2>7. /\ z \in States /\ z.started /\ z.sid = sid /\ z.generation = w.generation
          /\ z.next = 1 /\ z.owed \in Nat
      <3>1. o.w.contexts[c] \in States
        BY <1>13 DEF Worlds
      <3> QED  BY <1>14, <2>5, <3>1 DEF States
    <2>8. u.contexts = [o.w.contexts EXCEPT ![c] = z]
      BY <1>13 DEF Worlds
    <2> HIDE DEF z
    <2>9. /\ u.contexts \in [Contexts -> States] /\ u.contexts[c] = z
          /\ \A d \in Contexts \ {c} : u.contexts[d] = o.w.contexts[d]
      BY <1>13, <2>7, <2>8 DEF Worlds
    <2>10. /\ u \in Worlds /\ u.client = o.w.client /\ u.registry = o.w.registry
           /\ u.generation = o.w.generation /\ u.misaddressed = o.w.misaddressed
      BY <1>13, <2>9 DEF Worlds
    <2> HIDE DEF u
    <2>11. /\ o.reply.shows \in Presentations
           /\ u.contexts[c].owed >= IF o.reply.commit THEN 1 ELSE 0
      BY <2>4, <2>7, <2>9, NothingShown
    <2>12. /\ Around1(u, c, v) /\ v.client = u.client /\ v.registry = u.registry
           /\ v.contexts[c].started = z.started /\ v.contexts[c].sid = z.sid
           /\ v.contexts[c].next = z.next /\ v.contexts[c].generation = z.generation
           /\ v.contexts[c].normal = o.reply.shows /\ ~v.contexts[c].normalCommits
           /\ v.contexts[c].shows = o.reply.shows /\ v.contexts[c].typos = 0
      BY <2>4, <2>9, <2>10, <2>11, ApplyFacts
    <2> HIDE DEF v
    <2>13. Around1(w, c, v)
      BY <1>13, <2>9, <2>10, <2>12 DEF Around1
    <2>14. InSync(v.contexts[c], v.registry[sid])
      BY <2>4, <2>6, <2>7, <2>10, <2>12 DEF InSync
    <2>15. ~Served(w, c)
      BY DEF Served
    <2>16. /\ v.client = w.client
           /\ DOMAIN v.registry = DOMAIN w.registry \cup {sid}
           /\ \A k \in DOMAIN w.registry : v.registry[k] = w.registry[k]
           /\ v.contexts[c].started /\ v.contexts[c].sid = sid
           /\ v.contexts[c].generation = w.generation
      BY <2>5, <2>6, <2>7, <2>10, <2>12
    <2>17. Good(v)
      BY <1>2, <2>3, <2>12, <2>13, <2>14, <2>15, <2>16, GoodOpened
    <2>18. Engaged(v, c)
      BY <2>13, <2>16 DEF Engaged, Around1
    <2>19. r.w = v /\ r.ok = TRUE
      BY <2>1
    <2> QED  BY <2>17, <2>18, <2>19
  <1> QED  BY <1>15, <1>16

\* start: on success the context has a session of this connection.
LEMMA StartGood ==
    ASSUME NEW w, Good(w), NEW c \in Contexts, NEW s \in Start(w, c)
    PROVE  Good(s.w) /\ (s.ok => Engaged(s.w, c))
  <1> DEFINE v == Invalidate(w, c)
             u == ClearUi(v, c)
  <1>1. Good(v) /\ (v.contexts[c].started => v.contexts[c].generation = v.generation)
    BY InvalidateGood
  <1>2. CASE v.contexts[c].started
    <2>1. s = [w |-> v, ok |-> TRUE]
      BY <1>2 DEF Start
    <2> HIDE DEF v
    <2>2. s.w = v
      BY <2>1
    <2> QED  BY <1>1, <1>2, <2>2 DEF Engaged
  <1>3. CASE ~v.contexts[c].started
    <2>1. PICK e \in EnsureConnected(u) : s \in (IF e.ok THEN Open(e.w, c) ELSE {e})
      BY <1>3 DEF Start
    <2> HIDE DEF v
    <2>2. /\ Around1(v, c, u) /\ u.client = v.client /\ u.registry = v.registry
          /\ u.contexts[c].started = v.contexts[c].started
          /\ u.contexts[c].sid = v.contexts[c].sid /\ ~u.contexts[c].normalCommits
      <3>1. v \in Worlds
        BY <1>1 DEF Good
      <3> QED  BY <3>1, ClearUiFacts
    <2> HIDE DEF u
    <2>3. Settled(v.contexts[c]) /\ ~Served(v, c)
      BY <1>1, <1>3 DEF Good, Served
    <2>4. ~u.contexts[c].started /\ Settled(u.contexts[c])
      BY <1>3, <2>2, <2>3 DEF Settled
    <2>5. Good(u)
      BY <1>1, <2>2, <2>3, <2>4, GoodUnserved
    <2>6. Good(e.w) /\ Connecting(u, e.w) /\ e.ok \in BOOLEAN
      BY <2>1, <2>5, EnsureConnectedGood
    <2>7. CASE e.ok
      <3>1. ~e.w.contexts[c].started
        BY <2>4, <2>6 DEF Connecting
      <3>2. s \in Open(e.w, c)
        BY <2>1, <2>7
      <3> QED  BY <2>6, <3>1, <3>2, OpenGood
    <2>8. CASE ~e.ok
      BY <2>1, <2>6, <2>8
    <2> QED  BY <2>7, <2>8
  <1> QED  BY <1>2, <1>3

-----------------------------------------------------------------------------
(* The handlers                                                            *)

\* A handler that gives up leaves a good world.
LEMMA FailingGood ==
    ASSUME NEW w, Good(w), NEW c \in Contexts, NEW r \in Failing(w, c)
    PROVE  Good(r.w)
  <1>1. r.w = FailSession(w, c)
    BY DEF Failing
  <1>2. w \in Worlds /\ ~w.misaddressed /\ \A d \in Contexts \ {c} : Settled(w.contexts[d])
    BY DEF Good
  <1> QED  BY <1>1, <1>2, FailSessionGood

\* The number of candidates shown is a natural number.
LEMMA ShownFacts ==
    ASSUME NEW w, Good(w), NEW c \in Contexts
    PROVE  /\ w.contexts[c].shows.cands \in Nat /\ w.contexts[c].typos \in Nat
           /\ Listed(w.contexts[c].shows) \subseteq Nat
           /\ 0..(w.contexts[c].typos - 1) \subseteq Nat
  <1>1. w.contexts[c] \in States
    BY DEF Good, Worlds
  <1>2. w.contexts[c].shows.cands \in Nat /\ w.contexts[c].typos \in Nat
    BY <1>1, RegistryAssumption DEF States, Presentations
  <1> QED  BY <1>2 DEF Listed

\* selectCandidate and forgetCandidate send an index of the session's list.
LEMMA OnCandidateGood ==
    ASSUME NEW w, Good(w), NEW c \in Contexts, NEW kind \in {"Select", "Forget"},
           NEW i \in Nat, NEW r \in OnCandidate(w, c, kind, i)
    PROVE  Good(r.w)
  <1>1. PICK s \in Start(w, c) :
               r \in (IF s.ok /\ i < s.w.contexts[c].shows.cands
                      THEN Send(s.w, c, At(kind, i)) ELSE Failing(s.w, c))
    BY DEF OnCandidate
  <1>2. Good(s.w) /\ (s.ok => Engaged(s.w, c))
    BY <1>1, StartGood
  <1>3. CASE s.ok /\ i < s.w.contexts[c].shows.cands
    <2> DEFINE x == s.w.contexts[c]
    <2>1. At(kind, i) \in Requests
      BY DEF At, Requests, SessionKinds
    <2>2. ASSUME s.w.client.alive PROVE Chooses(s.w.registry[x.sid], At(kind, i))
      <3>1. InSync(x, s.w.registry[x.sid])
        BY <1>2, <1>3, <2>2 DEF Engaged, Good, ContextsFit, Served
      <3>2. x.typos \in Nat
        BY <1>2, ShownFacts
      <3>3. ~(x.typos > 0)
        <4>1. ASSUME x.typos > 0 PROVE FALSE
          <5>1. x.shows = Nothing
            BY <3>1, <4>1 DEF InSync
          <5>2. x.shows.cands = 0
            BY <5>1, NothingShown
          <5> QED  BY <1>3, <5>2
        <4> QED  BY <4>1
      <3>4. x.shows = s.w.registry[x.sid].shows
        BY <3>1, <3>3 DEF InSync
      <3> QED  BY <1>3, <3>4 DEF Chooses, At
    <2>3. r \in Send(s.w, c, At(kind, i))
      BY <1>1, <1>3
    <2> QED  BY <1>2, <1>3, <2>1, <2>2, <2>3, SendGood
  <1>4. CASE ~(s.ok /\ i < s.w.contexts[c].shows.cands)
    <2>1. r \in Failing(s.w, c)
      BY <1>1, <1>4
    <2> QED  BY <1>2, <2>1, FailingGood
  <1> QED  BY <1>3, <1>4

\* selectTypoCorrection sends an index of the session's corrections.
LEMMA OnTypoGood ==
    ASSUME NEW w, Good(w), NEW c \in Contexts, NEW i \in Nat, NEW r \in OnTypo(w, c, i)
    PROVE  Good(r.w)
  <1>1. PICK s \in Start(w, c) :
               r \in (IF s.ok /\ i < s.w.contexts[c].typos
                      THEN Send(s.w, c, At("SelectTypo", i)) ELSE Failing(s.w, c))
    BY DEF OnTypo
  <1>2. Good(s.w) /\ (s.ok => Engaged(s.w, c))
    BY <1>1, StartGood
  <1>3. CASE s.ok /\ i < s.w.contexts[c].typos
    <2> DEFINE x == s.w.contexts[c]
    <2>1. At("SelectTypo", i) \in Requests
      BY DEF At, Requests, SessionKinds
    <2>2. ASSUME s.w.client.alive PROVE Chooses(s.w.registry[x.sid], At("SelectTypo", i))
      <3>1. InSync(x, s.w.registry[x.sid])
        BY <1>2, <1>3, <2>2 DEF Engaged, Good, ContextsFit, Served
      <3>2. x.typos \in Nat
        BY <1>2, ShownFacts
      <3>3. x.typos = s.w.registry[x.sid].typos
        BY <1>3, <3>1, <3>2 DEF InSync
      <3> QED  BY <1>3, <3>3 DEF Chooses, At
    <2>3. r \in Send(s.w, c, At("SelectTypo", i))
      BY <1>1, <1>3
    <2> QED  BY <1>2, <1>3, <2>1, <2>2, <2>3, SendGood
  <1>4. CASE ~(s.ok /\ i < s.w.contexts[c].typos)
    <2>1. r \in Failing(s.w, c)
      BY <1>1, <1>4
    <2> QED  BY <1>2, <2>1, FailingGood
  <1> QED  BY <1>3, <1>4

\* A request without an index, after start.
LEMMA PlainSendGood ==
    ASSUME NEW w, Good(w), NEW c \in Contexts, Engaged(w, c),
           NEW kind \in SessionKinds \ {"Select", "Forget", "SelectTypo"},
           NEW r \in Send(w, c, Plain(kind))
    PROVE  /\ Good(r.w) /\ r.answered \in BOOLEAN
           /\ r.w.contexts[c].started => Engaged(r.w, c)
           /\ r = [w |-> r.w, ok |-> r.ok, answered |-> r.answered]
  BY PlainRequest, SendGood

\* processKey: every key leaves a good world.
LEMMA ProcessKeyGood ==
    ASSUME NEW w, Good(w), NEW c \in Contexts, NEW r \in ProcessKey(w, c)
    PROVE  Good(r.w)
  <1> DEFINE chosen(s) == {i \in Listed(s.w.contexts[c].shows) :
                             s.w.contexts[c].shows.window = "selecting"}
             A(s) == UNION {OnTypo(s.w, c, i) : i \in 0..(s.w.contexts[c].typos - 1)}
             B(s) == UNION {OnCandidate(s.w, c, "Select", i) : i \in chosen(s)}
             C(s) == IF s.w.contexts[c].typos > 0 THEN Handled(s.w) ELSE {}
             D(s) == Send(s.w, c, Plain("Key"))
             E(s) == UNION {Send(s.w, c, At("Digit", n)) :
                              n \in Digits \ RowDigits(s.w.contexts[c])}
  <1>1. PICK s \in Start(w, c) : 
               r \in (IF ~s.ok THEN Failing(s.w, c)
                      ELSE A(s) \cup B(s) \cup C(s) \cup E(s) \cup D(s))
    BY DEF ProcessKey
  <1>2. Good(s.w) /\ (s.ok => Engaged(s.w, c))
    BY <1>1, StartGood
  <1>3. CASE ~s.ok
    BY <1>1, <1>2, <1>3, FailingGood
  <1>4. CASE s.ok
    <2> DEFINE ctx == s.w.contexts[c]
    <2>1. /\ Listed(ctx.shows) \subseteq Nat
          /\ 0..(ctx.typos - 1) \subseteq Nat
      BY <1>2, ShownFacts
    <2>2. \/ \E i \in 0..(ctx.typos - 1) : r \in OnTypo(s.w, c, i)
          \/ \E i \in Listed(ctx.shows) : r \in OnCandidate(s.w, c, "Select", i)
          \/ r \in Handled(s.w)
          \/ r \in Send(s.w, c, Plain("Key"))
          \/ \E n \in Digits : r \in Send(s.w, c, At("Digit", n))
      <3>1. r \in A(s) \/ r \in B(s) \/ r \in C(s) \/ r \in E(s) \/ r \in D(s)
        <4> HIDE DEF A, B, C, D, E
        <4> QED  BY <1>1, <1>4
      <3>2. r \in A(s) => \E i \in 0..(ctx.typos - 1) : r \in OnTypo(s.w, c, i)
        OBVIOUS
      <3>3. r \in B(s) => \E i \in chosen(s) : r \in OnCandidate(s.w, c, "Select", i)
        OBVIOUS
      <3>4. r \in C(s) => r \in Handled(s.w)
        OBVIOUS
      <3>5. r \in E(s) => \E n \in Digits : r \in Send(s.w, c, At("Digit", n))
        OBVIOUS
      <3> HIDE DEF A, B, C, E
      <3> QED  BY <3>1, <3>2, <3>3, <3>4, <3>5
    <2>3. CASE \E i \in 0..(ctx.typos - 1) : r \in OnTypo(s.w, c, i)
      BY <1>2, <2>1, <2>3, OnTypoGood
    <2>4. CASE \E i \in Listed(ctx.shows) : r \in OnCandidate(s.w, c, "Select", i)
      BY <1>2, <2>1, <2>4, OnCandidateGood
    <2>5. CASE r \in Handled(s.w)
      BY <1>2, <2>5 DEF Handled
    <2>6. CASE r \in Send(s.w, c, Plain("Key"))
      <3>1. "Key" \in SessionKinds \ {"Select", "Forget", "SelectTypo"}
        BY DEF SessionKinds
      <3> QED  BY <1>2, <1>4, <2>6, <3>1, PlainSendGood
    <2>7. ASSUME NEW n \in Digits, r \in Send(s.w, c, At("Digit", n)) PROVE Good(r.w)
      <3> DEFINE digit == At("Digit", n)
      <3>1. digit \in Requests /\ \A x : Chooses(x, digit)
        BY RegistryAssumption DEF At, Requests, SessionKinds, Chooses, Digits
      <3>2. r \in Send(s.w, c, digit)
        BY <2>7
      <3> HIDE DEF digit
      <3> QED  BY <1>2, <1>4, <3>1, <3>2, SendGood
    <2> QED  BY <2>2, <2>3, <2>4, <2>5, <2>6, <2>7
  <1> QED  BY <1>3, <1>4

\* requestTypoCorrections: the corrections listed are those the session keeps.
LEMMA AskTyposGood ==
    ASSUME NEW w, Good(w), NEW c \in Contexts, NEW r \in AskTypos(w, c)
    PROVE  Good(r.w)
  <1> DEFINE request == Plain("RequestTypos")
  <1>1. PICK s \in Start(w, c) :
               r \in (IF ~s.ok THEN Failing(s.w, c)
                      ELSE UNION {IF o.reply.kind = "typos"
                                  THEN Handled(ShowTypos(o.w, c, o.reply.typos))
                                  ELSE Failing(o.w, c) : o \in Request(s.w, c, request)})
    BY DEF AskTypos
  <1>2. Good(s.w) /\ (s.ok => Engaged(s.w, c))
    BY <1>1, StartGood
  <1>3. CASE ~s.ok
    BY <1>1, <1>2, <1>3, FailingGood
  <1>4. CASE s.ok
    <2> DEFINE x == s.w.contexts[c]
               sid == x.sid
    <2>1. PICK o \in Request(s.w, c, request) :
                 r \in (IF o.reply.kind = "typos"
                        THEN Handled(ShowTypos(o.w, c, o.reply.typos))
                        ELSE Failing(o.w, c))
      BY <1>1, <1>4
    <2>2. request \in Requests /\ Chooses(s.w.registry[sid], request)
      BY PlainRequest DEF SessionKinds
    <2>3. /\ Around1(s.w, c, o.w) /\ Kept(x, o.w.contexts[c])
          /\ \/ o.reply = NoReply /\ ~o.w.client.alive /\ o.w.registry = NoSessions
             \/ /\ s.w.client.alive /\ Exchanged(s.w, c, o.w)
                /\ Tells(s.w.registry[sid], request, o.w.registry[sid], o.reply)
      <3> HIDE DEF request
      <3> QED  BY SMTT(30), <1>2, <1>4, <2>1, <2>2, SessionRequestFacts
    <2>4. /\ o.w \in Worlds /\ ~o.w.misaddressed
          /\ \A d \in Contexts \ {c} : Settled(o.w.contexts[d])
      BY <1>2, <2>3 DEF Around1, Good
    <2>5. CASE o.reply.kind # "typos"
      <3>1. r.w = FailSession(o.w, c)
        BY <2>1, <2>5 DEF Failing
      <3> QED  BY <2>4, <3>1, FailSessionGood
    <2>6. CASE o.reply.kind = "typos"
      <3> DEFINE n == o.reply.typos
                 v == ShowTypos(o.w, c, n)
      <3>1. r.w = v
        BY <2>1, <2>6 DEF Handled
      <3>2. NoReply.kind = "error"
        BY DEF NoReply, ErrorReply
      <3>3. /\ s.w.client.alive /\ Exchanged(s.w, c, o.w)
            /\ o.w.registry[sid].shows = s.w.registry[sid].shows
            /\ o.w.registry[sid].typos = n /\ n \in Nat
        BY <2>3, <2>6, <3>2 DEF Tells, Replies
      <3>4. Served(s.w, c)
        BY <1>2, <1>4, <3>3 DEF Engaged, Served
      <3>5. InSync(x, s.w.registry[sid]) /\ ~x.normalCommits
        BY <1>2, <3>4 DEF Good, ContextsFit, Settled
      <3>6. ~o.w.contexts[c].normalCommits
        BY <2>3, <3>5 DEF Kept
      <3>7. /\ Around1(o.w, c, v) /\ v.client = o.w.client /\ v.registry = o.w.registry
            /\ v.contexts[c].started = o.w.contexts[c].started
            /\ v.contexts[c].sid = o.w.contexts[c].sid
            /\ v.contexts[c].next = o.w.contexts[c].next
            /\ v.contexts[c].generation = o.w.contexts[c].generation
            /\ v.contexts[c].normal = o.w.contexts[c].normal
            /\ ~v.contexts[c].normalCommits /\ v.contexts[c].typos = n
            /\ v.contexts[c].shows = IF n = 0 THEN o.w.contexts[c].normal ELSE Nothing
        <4> DEFINE u == o.w
        <4>1. u \in Worlds /\ ~u.contexts[c].normalCommits /\ n \in Nat
          BY <2>4, <3>3, <3>6
        <4> HIDE DEF u, n
        <4>2. LET z == ShowTypos(u, c, n)
                  q == u.contexts[c]
                  y == z.contexts[c]
              IN  /\ Around1(u, c, z) /\ z.client = u.client /\ z.registry = u.registry
                  /\ y.started = q.started /\ y.sid = q.sid
                  /\ y.next = q.next /\ y.generation = q.generation
                  /\ y.normal = q.normal /\ ~y.normalCommits /\ y.typos = n
                  /\ y.shows = IF n = 0 THEN q.normal ELSE Nothing
          BY <4>1, ShowTyposFacts
        <4>3. v = ShowTypos(u, c, n)
          BY DEF u
        <4> HIDE DEF v
        <4> QED  BY <4>2, <4>3 DEF u
      <3> HIDE DEF v
      <3>8. o.w.contexts[c].normal = o.w.registry[sid].shows
        BY <2>3, <3>3, <3>5 DEF Kept, InSync
      <3>9. v.registry[sid].last < v.contexts[c].next
        BY SMTT(30), <3>3, <3>7 DEF Exchanged
      <3>10. InSync(v.contexts[c], v.registry[sid])
        <4> DEFINE y == v.contexts[c]
                   t == v.registry[sid]
        <4>1. t.last < y.next /\ y.normal = t.shows /\ y.typos = n /\ t.typos = n /\ n \in Nat
          BY <3>3, <3>7, <3>8, <3>9
        <4>2. y.shows = IF n = 0 THEN y.normal ELSE Nothing
          BY <3>7
        <4> HIDE DEF y, t, n
        <4>3. InSync(y, t)
          BY <4>1, <4>2 DEF InSync
        <4> QED  BY <4>3 DEF y, t
      <3>11. Around1(s.w, c, v)
        BY <2>3, <3>7 DEF Around1
      <3>12. /\ v.client = s.w.client /\ DOMAIN v.registry = DOMAIN s.w.registry
             /\ \A k \in DOMAIN s.w.registry \ {sid} : v.registry[k] = s.w.registry[k]
        BY <3>3, <3>7 DEF Exchanged
      <3>13. /\ v.contexts[c].started = x.started /\ v.contexts[c].sid = sid
             /\ v.contexts[c].generation = x.generation
        BY <2>3, <3>7 DEF Kept
      <3>14. Good(v)
        BY <1>2, <3>4, <3>7, <3>10, <3>11, <3>12, <3>13, GoodInSync
      <3> QED  BY <3>1, <3>14
    <2> QED  BY <2>5, <2>6
  <1> QED  BY <1>3, <1>4

\* resetLearning leaves a good world.
LEMMA ResetMemoryGood ==
    ASSUME NEW w, Good(w), NEW c \in Contexts, NEW r \in ResetMemory(w, c)
    PROVE  Good(r.w)
  <1>1. PICK s \in Start(w, c) :
               r \in (IF s.ok THEN Send(s.w, c, Plain("ResetLearning")) ELSE Failing(s.w, c))
    BY DEF ResetMemory
  <1>2. Good(s.w) /\ (s.ok => Engaged(s.w, c))
    BY <1>1, StartGood
  <1>3. CASE ~s.ok
    BY <1>1, <1>2, <1>3, FailingGood
  <1>4. CASE s.ok
    <2>1. "ResetLearning" \in SessionKinds \ {"Select", "Forget", "SelectTypo"}
      BY DEF SessionKinds
    <2> QED  BY <1>1, <1>2, <1>4, <2>1, PlainSendGood
  <1> QED  BY <1>3, <1>4

\* A context without a session forgets what it shows.
LEMMA ClearUiGood ==
    ASSUME NEW w, Good(w), NEW c \in Contexts, ~w.contexts[c].started
    PROVE  Good(ClearUi(w, c))
  <1> DEFINE v == ClearUi(w, c)
  <1>1. w \in Worlds /\ Settled(w.contexts[c]) /\ ~Served(w, c)
    BY DEF Good, Served
  <1>2. /\ Around1(w, c, v) /\ v.client = w.client /\ v.registry = w.registry
        /\ v.contexts[c].started = w.contexts[c].started
        /\ v.contexts[c].sid = w.contexts[c].sid /\ ~v.contexts[c].normalCommits
    BY <1>1, ClearUiFacts
  <1>3. ~v.contexts[c].started /\ Settled(v.contexts[c])
    BY <1>1, <1>2 DEF Settled
  <1> QED  BY <1>1, <1>2, <1>3, GoodUnserved

\* reset leaves a good world.
LEMMA ResetContextGood ==
    ASSUME NEW w, Good(w), NEW c \in Contexts, NEW r \in ResetContext(w, c)
    PROVE  Good(r.w) /\ r.answered \in BOOLEAN
  <1> DEFINE v == Invalidate(w, c)
  <1>1. Good(v) /\ (v.contexts[c].started => v.contexts[c].generation = v.generation)
    BY InvalidateGood
  <1>2. CASE ~v.contexts[c].started
    <2>1. r \in Handled(ClearUi(v, c))
      BY <1>2 DEF ResetContext
    <2>2. r.w = ClearUi(v, c) /\ r.answered = FALSE
      BY <2>1 DEF Handled
    <2> HIDE DEF v
    <2> QED  BY <1>1, <1>2, <2>2, ClearUiGood
  <1>3. CASE v.contexts[c].started
    <2>1. PICK o \in Send(v, c, Plain("Reset")) :
                 r = IF o.ok THEN o ELSE [o EXCEPT !.w = FailSession(@, c)]
      BY <1>3 DEF ResetContext
    <2> HIDE DEF v
    <2>2. "Reset" \in SessionKinds \ {"Select", "Forget", "SelectTypo"} /\ Engaged(v, c)
      BY <1>1, <1>3 DEF SessionKinds, Engaged
    <2>3. /\ Good(o.w) /\ o.answered \in BOOLEAN
          /\ o = [w |-> o.w, ok |-> o.ok, answered |-> o.answered]
      BY <1>1, <2>1, <2>2, PlainSendGood
    <2>4. CASE o.ok
      BY <2>1, <2>3, <2>4
    <2>5. CASE ~o.ok
      <3> DEFINE f == FailSession(o.w, c)
      <3>1. o.w \in Worlds /\ ~o.w.misaddressed /\ \A d \in Contexts \ {c} : Settled(o.w.contexts[d])
        BY <2>3 DEF Good
      <3>2. Good(f)
        BY <3>1, FailSessionGood
      <3>3. r = [o EXCEPT !.w = f]
        BY <2>1, <2>5
      <3> HIDE DEF f
      <3>4. r.w = f /\ r.answered = o.answered
        BY <2>3, <3>3
      <3> QED  BY <2>3, <3>2, <3>4
    <2> QED  BY <2>4, <2>5
  <1> QED  BY <1>2, <1>3

\* focusIn leaves a good world.
LEMMA EnterGood ==
    ASSUME NEW w, Good(w), NEW c \in Contexts, NEW v \in Enter(w, c)
    PROVE  Good(v)
  <1>1. PICK s \in Start(w, c) :
               v = IF s.ok /\ s.w.contexts[c].typos > 0 THEN Redraw(s.w, c) ELSE s.w
    BY DEF Enter
  <1>2. Good(s.w) /\ (s.ok => Engaged(s.w, c))
    BY <1>1, StartGood
  <1>3. CASE s.ok /\ s.w.contexts[c].typos > 0
    BY <1>1, <1>2, <1>3, RedrawGood
  <1>4. CASE ~(s.ok /\ s.w.contexts[c].typos > 0)
    BY <1>1, <1>2, <1>4
  <1> QED  BY <1>3, <1>4

\* The session of c is gone, on both sides.
LEMMA GoodDropped ==
    ASSUME NEW w, Good(w), NEW c \in Contexts, Served(w, c),
           NEW v, Around1(w, c, v), v.client = w.client,
           DOMAIN v.registry = DOMAIN w.registry \ {w.contexts[c].sid},
           \A k \in DOMAIN v.registry : v.registry[k] = w.registry[k],
           Blank(v.contexts[c])
    PROVE  Good(v)
  <1>1. ~Served(v, c) /\ \A d \in Contexts \ {c} : Served(v, d) <=> Served(w, d)
    BY DEF Served, Around1, Blank
  <1>2. \A d \in Contexts \ {c} : v.contexts[d] = w.contexts[d]
    BY DEF Around1
  <1>3. \A d \in Contexts : Settled(v.contexts[d])
    BY <1>2 DEF Good, Settled, Blank
  <1>4. ContextsFit(v)
    <2> SUFFICES ASSUME NEW d \in Contexts, Served(v, d)
                 PROVE  /\ v.contexts[d].sid \in DOMAIN v.registry
                        /\ InSync(v.contexts[d], v.registry[v.contexts[d].sid])
                        /\ \A e \in Contexts \ {d} :
                              Served(v, e) => v.contexts[e].sid # v.contexts[d].sid
      BY DEF ContextsFit
    <2>1. d # c /\ Served(w, d) /\ v.contexts[d] = w.contexts[d]
      BY <1>1, <1>2
    <2>2. /\ w.contexts[d].sid \in DOMAIN w.registry
          /\ InSync(w.contexts[d], w.registry[w.contexts[d].sid])
          /\ \A e \in Contexts \ {d} :
                Served(w, e) => w.contexts[e].sid # w.contexts[d].sid
      BY <2>1 DEF Good, ContextsFit
    <2>3. w.contexts[d].sid \in DOMAIN v.registry
      BY <2>1, <2>2
    <2>4. \A e \in Contexts \ {d} :
             Served(v, e) => v.contexts[e].sid # v.contexts[d].sid
      BY <1>1, <1>2, <2>1, <2>2
    <2> QED  BY <2>1, <2>2, <2>3, <2>4
  <1>5. RegistryFits(v)
    <2> SUFFICES ASSUME NEW k \in DOMAIN v.registry
                 PROVE  \E d \in Contexts : Served(v, d) /\ v.contexts[d].sid = k
      BY DEF RegistryFits
    <2>1. PICK d \in Contexts : Served(w, d) /\ w.contexts[d].sid = k
      BY DEF Good, RegistryFits
    <2>2. d # c
      BY <2>1
    <2> QED  BY <1>1, <1>2, <2>1, <2>2
  <1>6. ClientFits(v)
    BY DEF Good, ClientFits, Served
  <1> QED  BY <1>3, <1>4, <1>5, <1>6 DEF Good, Around1

\* The end of a session that the context believes to have: it is gone.
LEMMA EndRequestGood ==
    ASSUME NEW w, Good(w), NEW c \in Contexts, Engaged(w, c),
           NEW o \in Request(w, c, Plain("End"))
    PROVE  Good(Ended(o.w, c))
  <1> DEFINE s == w.contexts[c]
             r == w.registry
             request == Plain("End")
             all == Handle(r, s.sid, s.next, request)
             v == Ended(o.w, c)
  <1>1. w \in Worlds /\ ClientFits(w) /\ s \in States /\ r \in Registries /\ ~w.misaddressed
    BY DEF Good, Worlds
  <1>2. s.next \in Nat
    BY <1>1 DEF States
  <1>3. w.client.alive => s.sid \in DOMAIN r /\ r[s.sid].last < s.next
    BY DEF Engaged, Good, ContextsFit, Served, InSync
  <1>4. ASSUME w.client.alive, NEW a \in all
        PROVE  /\ Accepts(request, a)
               /\ DOMAIN a.registry = DOMAIN r \ {s.sid}
               /\ \A k \in DOMAIN a.registry : a.registry[k] = r[k]
    <2> HIDE DEF s, r
    <2>1. r[s.sid] \in Sessions
      BY <1>1, <1>3, <1>4, RegistryType
    <2>2. s.next > r[s.sid].last
      BY <1>2, <1>3, <1>4, <2>1 DEF Sessions
    <2>3. /\ a.registry \in Registries
          /\ DOMAIN a.registry = DOMAIN r \ {s.sid}
          /\ \A k \in DOMAIN a.registry : a.registry[k] = r[k]
          /\ a.reply \in Replies /\ ~Misaddressed(request, a.reply.code)
      BY <1>1, <1>2, <1>3, <1>4, <2>2, HandleEnds
    <2> QED  BY <2>3 DEF Accepts
  <1>5. w.client.alive =>
          \A a \in all : /\ Accepts(request, a)
                         /\ s.sid \in DOMAIN a.registry =>
                               a.registry[s.sid].last \in 0..s.next
    <2> SUFFICES ASSUME w.client.alive, NEW a \in all
                 PROVE  Accepts(request, a) /\ s.sid \notin DOMAIN a.registry
      OBVIOUS
    <2> HIDE DEF all
    <2> QED  BY <1>4
  <1>6. /\ Around1(w, c, o.w) /\ Kept(s, o.w.contexts[c])
        /\ \/ o.reply = NoReply /\ ~o.w.client.alive /\ o.w.registry = NoSessions
           \/ /\ w.client.alive
              /\ \E a \in all : Answered(w, c, a, o.w, o.reply)
    <2> HIDE DEF request
    <2>1. o \in Request(w, c, request)
      BY DEF request
    <2> QED  BY <1>1, <1>5, <2>1, RequestFacts
  <1>7. o.w \in Worlds
    BY <1>6 DEF Around1
  <1>8. /\ Around1(o.w, c, v) /\ v.client = o.w.client /\ v.registry = o.w.registry
        /\ Blank(v.contexts[c])
    BY <1>7, EndedFacts
  <1> HIDE DEF v
  <1>9. Around1(w, c, v)
    BY <1>6, <1>8 DEF Around1
  <1>10. CASE ~o.w.client.alive /\ o.w.registry = NoSessions
    <2>1. \A d \in Contexts : Settled(v.contexts[d])
      BY <1>8, <1>9 DEF Around1, Good, Blank, Settled
    <2>2. v \in Worlds /\ ~v.misaddressed
      BY <1>1, <1>9 DEF Around1
    <2> QED  BY <1>8, <1>10, <2>1, <2>2, GoodClosed DEF v
  <1>11. ASSUME w.client.alive, NEW a \in all, Answered(w, c, a, o.w, o.reply)
         PROVE  Good(v)
    <2>1. /\ Accepts(request, a) /\ DOMAIN a.registry = DOMAIN r \ {s.sid}
          /\ \A k \in DOMAIN a.registry : a.registry[k] = r[k]
      BY <1>4, <1>11
    <2>2. /\ v.client = w.client /\ DOMAIN v.registry = DOMAIN r \ {s.sid}
          /\ \A k \in DOMAIN v.registry : v.registry[k] = r[k]
      BY <1>8, <1>11, <2>1 DEF Answered, Renumbered
    <2>3. Served(w, c)
      BY <1>11 DEF Served, Engaged
    <2> QED  BY <1>8, <1>9, <2>2, <2>3, GoodDropped
  <1> QED  BY <1>6, <1>10, <1>11 DEF v

\* focusOut leaves a good world.
LEMMA LeaveGood ==
    ASSUME NEW w, Good(w), NEW c \in Contexts, NEW commits \in BOOLEAN,
           NEW z \in Leave(w, c, commits)
    PROVE  Good(z)
  <1> DEFINE v == Invalidate(w, c)
             committed == IF commits /\ v.contexts[c].started
                          THEN {o.w : o \in Send(v, c, Plain("Commit"))} ELSE {v}
             ended(x) == IF x.contexts[c].started /\ x.client.open
                         THEN {o.w : o \in Request(x, c, Plain("End"))} ELSE {x}
  <1>1. PICK x \in committed : \E u \in ended(x) : z = Ended(u, c)
    BY DEF Leave
  <1>2. Good(v) /\ (v.contexts[c].started => Engaged(v, c))
    BY InvalidateGood DEF Engaged
  <1> HIDE DEF v
  <1>3. Good(x) /\ (x.contexts[c].started => Engaged(x, c))
    <2>1. CASE commits /\ v.contexts[c].started
      <3>1. PICK o \in Send(v, c, Plain("Commit")) : x = o.w
        BY <1>1, <2>1
      <3>2. "Commit" \in SessionKinds \ {"Select", "Forget", "SelectTypo"}
        BY DEF SessionKinds
      <3> QED  BY <1>2, <2>1, <3>1, <3>2, PlainSendGood
    <2>2. CASE ~(commits /\ v.contexts[c].started)
      BY <1>1, <1>2, <2>2
    <2> QED  BY <2>1, <2>2
  <1>4. CASE x.contexts[c].started /\ x.client.open
    <2>1. PICK o \in Request(x, c, Plain("End")) : z = Ended(o.w, c)
      BY <1>1, <1>4
    <2> QED  BY <1>3, <1>4, <2>1, EndRequestGood
  <1>5. CASE ~(x.contexts[c].started /\ x.client.open)
    <2>1. z = Ended(x, c)
      BY <1>1, <1>5
    <2>2. x \in Worlds /\ ~Served(x, c)
      BY <1>3, <1>5 DEF Good, ClientFits, Served
    <2>3. /\ Around1(x, c, z) /\ z.client = x.client /\ z.registry = x.registry
          /\ Blank(z.contexts[c])
      BY <2>1, <2>2, EndedFacts
    <2>4. ~z.contexts[c].started /\ Settled(z.contexts[c])
      BY <2>3 DEF Blank, Settled
    <2> QED  BY <1>3, <2>2, <2>3, <2>4, GoodUnserved
  <1> QED  BY <1>4, <1>5

-----------------------------------------------------------------------------
(* The steps                                                               *)

\* Taking over a good world keeps the invariant.
LEMMA BecomeGood ==
    ASSUME NEW w, Good(w), Become(w)
    PROVE  Good(World)'
  <1>1. w \in Worlds
    BY DEF Good
  <1>2. w = [client |-> w.client, registry |-> w.registry, generation |-> w.generation,
             preparation |-> w.preparation, cooling |-> w.cooling, daemon |-> w.daemon,
             contexts |-> w.contexts, faults |-> w.faults, misaddressed |-> w.misaddressed]
    BY <1>1 DEF Worlds
  <1>3. World' = w
    BY <1>2 DEF Become, World
  <1>4. Good(World')
    BY <1>3
  <1> QED  BY <1>4

\* The fields of the world are the variables.
LEMMA WorldFields ==
    /\ World.client = client /\ World.registry = registry
    /\ World.generation = generation /\ World.preparation = preparation
    /\ World.cooling = cooling /\ World.daemon = daemon /\ World.contexts = contexts
    /\ World.faults = faults /\ World.misaddressed = misaddressed
  BY DEF World

\* The addon starts without a connection and without sessions.
LEMMA InitGood == Init => FrontEndInv
  <1> SUFFICES ASSUME Init PROVE FrontEndInv
    OBVIOUS
  <1>1. NewContext \in States /\ Settled(NewContext)
    BY NothingShown DEF NewContext, States, Settled, NoSid
  <1>2. contexts \in [Contexts -> States] /\ \A c \in Contexts : Settled(contexts[c])
    BY <1>1 DEF Init
  <1>3. Closed \in Clients /\ ~Closed.alive
    BY DEF Closed, Clients
  <1>4. World \in Worlds
    BY <1>2, <1>3, NoSessionsType DEF Init, World, Worlds
  <1>5. /\ ~World.misaddressed /\ ~World.client.alive /\ World.registry = NoSessions
        /\ \A c \in Contexts : Settled(World.contexts[c])
    BY <1>2, <1>3, WorldFields DEF Init
  <1>6. Good(World)
    BY <1>4, <1>5, GoodClosed
  <1> QED  BY <1>6 DEF FrontEndInv, Init

\* A handler of the main thread keeps the invariant.
LEMMA HandlersKeep ==
    ASSUME FrontEndInv, NEW c \in Contexts,
           \/ Key(c) \/ SelectCandidate(c) \/ ForgetCandidate(c)
           \/ SelectTypoCorrection(c) \/ RequestTypoCorrections(c)
           \/ ResetLearning(c) \/ Reset(c) \/ FocusIn(c) \/ FocusOut(c)
    PROVE  FrontEndInv'
  <1> DEFINE w == World
  <1>1. Good(w) /\ w.contexts = contexts
    BY WorldFields DEF FrontEndInv
  <1> HIDE DEF w
  <1>2. Listed(contexts[c].shows) \subseteq Nat /\ 0..(contexts[c].typos - 1) \subseteq Nat
    <2>1. /\ Listed(w.contexts[c].shows) \subseteq Nat
          /\ 0..(w.contexts[c].typos - 1) \subseteq Nat
      BY <1>1, ShownFacts
    <2> QED  BY <1>1, <2>1
  <1>3. SUFFICES \E v : Good(v) /\ Become(v) /\ resetAnswered' \in BOOLEAN
    <2>1. PICK v : Good(v) /\ Become(v) /\ resetAnswered' \in BOOLEAN
      BY <1>3
    <2>2. Good(World)'
      BY <2>1, BecomeGood
    <2> QED  BY <2>1, <2>2 DEF FrontEndInv
  <1>4. CASE Key(c)
    <2>1. PICK r \in ProcessKey(w, c) : Become(r.w) /\ resetAnswered' = FALSE
      BY <1>4 DEF Key, Do, w
    <2>2. Good(r.w)
      BY <1>1, <2>1, ProcessKeyGood
    <2> QED  BY <2>1, <2>2
  <1>5. CASE SelectCandidate(c)
    <2>1. PICK i \in Listed(contexts[c].shows) :
                 \E r \in OnCandidate(w, c, "Select", i) : Become(r.w) /\ resetAnswered' = FALSE
      BY <1>5 DEF SelectCandidate, Do, w
    <2>2. PICK r \in OnCandidate(w, c, "Select", i) : Become(r.w) /\ resetAnswered' = FALSE
      BY <2>1
    <2>3. Good(r.w)
      BY <1>1, <1>2, <2>1, <2>2, OnCandidateGood
    <2> QED  BY <2>2, <2>3
  <1>6. CASE ForgetCandidate(c)
    <2>1. PICK i \in Listed(contexts[c].shows) :
                 \E r \in OnCandidate(w, c, "Forget", i) : Become(r.w) /\ resetAnswered' = FALSE
      BY <1>6 DEF ForgetCandidate, Do, w
    <2>2. PICK r \in OnCandidate(w, c, "Forget", i) : Become(r.w) /\ resetAnswered' = FALSE
      BY <2>1
    <2>3. Good(r.w)
      BY <1>1, <1>2, <2>1, <2>2, OnCandidateGood
    <2> QED  BY <2>2, <2>3
  <1>7. CASE SelectTypoCorrection(c)
    <2>1. PICK i \in 0..(contexts[c].typos - 1) :
                 \E r \in OnTypo(w, c, i) : Become(r.w) /\ resetAnswered' = FALSE
      BY <1>7 DEF SelectTypoCorrection, Do, w
    <2>2. PICK r \in OnTypo(w, c, i) : Become(r.w) /\ resetAnswered' = FALSE
      BY <2>1
    <2>3. Good(r.w)
      BY <1>1, <1>2, <2>1, <2>2, OnTypoGood
    <2> QED  BY <2>2, <2>3
  <1>8. CASE RequestTypoCorrections(c)
    <2>1. PICK r \in AskTypos(w, c) : Become(r.w) /\ resetAnswered' = FALSE
      BY <1>8 DEF RequestTypoCorrections, Do, w
    <2>2. Good(r.w)
      BY <1>1, <2>1, AskTyposGood
    <2> QED  BY <2>1, <2>2
  <1>9. CASE ResetLearning(c)
    <2>1. PICK r \in ResetMemory(w, c) : Become(r.w) /\ resetAnswered' = FALSE
      BY <1>9 DEF ResetLearning, Do, w
    <2>2. Good(r.w)
      BY <1>1, <2>1, ResetMemoryGood
    <2> QED  BY <2>1, <2>2
  <1>10. CASE Reset(c)
    <2>1. PICK r \in ResetContext(w, c) : Become(r.w) /\ resetAnswered' = r.answered
      BY <1>10 DEF Reset, w
    <2>2. Good(r.w) /\ r.answered \in BOOLEAN
      BY <1>1, <2>1, ResetContextGood
    <2> QED  BY <2>1, <2>2
  <1>11. CASE FocusIn(c)
    <2>1. PICK v \in Enter(w, c) : Become(v) /\ resetAnswered' = FALSE
      BY <1>11 DEF FocusIn, w
    <2>2. Good(v)
      BY <1>1, <2>1, EnterGood
    <2> QED  BY <2>1, <2>2
  <1>12. CASE FocusOut(c)
    <2>1. PICK commits \in BOOLEAN :
                 \E v \in Leave(w, c, commits) : Become(v) /\ resetAnswered' = FALSE
      BY <1>12 DEF FocusOut, w
    <2>2. PICK v \in Leave(w, c, commits) : Become(v) /\ resetAnswered' = FALSE
      BY <2>1
    <2>3. Good(v)
      BY <1>1, <2>2, LeaveGood
    <2> QED  BY <2>2, <2>3
  <1> QED  BY <1>4, <1>5, <1>6, <1>7, <1>8, <1>9, <1>10, <1>11, <1>12

\* The callback, the polling thread, the clock and the daemon keep the invariant.
LEMMA SurroundingsKeep ==
    ASSUME FrontEndInv,
           \/ Prepared \/ PollConnects \/ PollTimesOut \/ CoolDown
           \/ DaemonReady \/ DaemonRetires \/ DaemonDies
    PROVE  FrontEndInv'
  <1> DEFINE w == World
  <1>1. /\ Good(w) /\ w \in Worlds /\ w.preparation = preparation /\ w.daemon = daemon
        /\ w.client = client
    BY WorldFields DEF FrontEndInv, Good
  <1> HIDE DEF w
  <1>2. SUFFICES \E v : Good(v) /\ Become(v) /\ resetAnswered' = FALSE
    <2>1. PICK v : Good(v) /\ Become(v) /\ resetAnswered' = FALSE
      BY <1>2
    <2>2. Good(World)'
      BY <2>1, BecomeGood
    <2> QED  BY <2>1, <2>2 DEF FrontEndInv
  <1>3. ASSUME NEW v, Alike(w, v), Become(v), resetAnswered' = FALSE
        PROVE  \E u : Good(u) /\ Become(u) /\ resetAnswered' = FALSE
    <2>1. Good(v)
      BY <1>1, <1>3, GoodAlike
    <2> QED  BY <1>3, <2>1
  <1>4. CASE Prepared
    <2> DEFINE u == [w EXCEPT !.preparation = "idle"]
               g == Connect(u)
               up == preparation = "ready"
               v == IF preparation = "failed" THEN [u EXCEPT !.cooling = TRUE]
                    ELSE [g EXCEPT !.cooling = FALSE, !.daemon = daemon, !.client.alive = up]
    <2>1. Become(v) /\ resetAnswered' = FALSE
      BY <1>4 DEF Prepared, w
    <2>2. Alike(w, u) /\ u \in Worlds
      BY <1>1 DEF Alike, Worlds
    <2>3. CASE preparation = "failed"
      <3>1. v = [u EXCEPT !.cooling = TRUE]
        BY <2>3
      <3>2. Alike(w, [u EXCEPT !.cooling = TRUE])
        <4> HIDE DEF u
        <4> QED  BY <2>2 DEF Alike, Worlds
      <3> HIDE DEF v, u
      <3> QED  BY <1>3, <2>1, <3>1, <3>2
    <2>4. CASE preparation # "failed"
      <3>1. Good(u)
        BY <1>1, <2>2, GoodAlike
      <3> HIDE DEF u
      <3>2. /\ Good(g) /\ g \in Worlds /\ g.client = Connected /\ g.registry = NoSessions
            /\ \A c \in Contexts : g.generation # g.contexts[c].generation
        BY <3>1, ConnectGood DEF Connecting
      <3>3. v = [g EXCEPT !.cooling = FALSE, !.daemon = daemon, !.client.alive = up]
        BY <2>4
      <3> HIDE DEF g, v
      <3>4. daemon \in {"down", "starting", "fresh", "serving"} /\ up \in BOOLEAN
        BY <1>1 DEF Worlds
      <3> HIDE DEF up
      <3>5. v.client = [g.client EXCEPT !.alive = up]
        BY <3>2, <3>3 DEF Worlds
      <3>6. v.client \in Clients /\ v.client.open
        <4>1. g.client \in Clients /\ g.client.open
          BY <3>2 DEF Connected, Clients
        <4> QED  BY <3>4, <3>5, <4>1 DEF Clients
      <3>7. /\ v \in Worlds /\ v.registry = NoSessions /\ v.misaddressed = g.misaddressed
            /\ v.generation = g.generation /\ v.contexts = g.contexts
        BY <3>2, <3>3, <3>4, <3>6 DEF Worlds
      <3>8. \A c \in Contexts : ~Served(v, c)
        BY <3>2, <3>7 DEF Served
      <3>9. DOMAIN v.registry = {}
        BY <3>7, NoSessionsType
      <3>10. Good(v)
        BY <3>2, <3>6, <3>7, <3>8, <3>9
           DEF Good, ClientFits, ContextsFit, RegistryFits
      <3> QED  BY <2>1, <3>10
    <2> QED  BY <2>3, <2>4
  <1>5. CASE PollConnects
    <2> DEFINE v == [w EXCEPT !.preparation = "ready", !.daemon = "serving"]
    <2>1. Become(v) /\ resetAnswered' = FALSE
      BY <1>5 DEF PollConnects, Around, w
    <2>2. Alike(w, v)
      BY <1>1 DEF Alike, Worlds
    <2> HIDE DEF v
    <2> QED  BY <1>3, <2>1, <2>2
  <1>6. CASE PollTimesOut
    <2> DEFINE v == [w EXCEPT !.preparation = "failed",
                              !.faults = IF daemon = "down" THEN @ ELSE @ + 1]
    <2>1. Become(v) /\ resetAnswered' = FALSE
      BY <1>6 DEF PollTimesOut, Around, w
    <2>2. Alike(w, v)
      <3> DEFINE n == IF daemon = "down" THEN w.faults ELSE w.faults + 1
      <3>1. v = [w EXCEPT !.preparation = "failed", !.faults = n]
        BY <1>1 DEF Worlds
      <3>2. n \in Nat
        BY <1>1 DEF Worlds
      <3> HIDE DEF n, v
      <3> QED  BY <1>1, <3>1, <3>2 DEF Alike, Worlds
    <2> HIDE DEF v
    <2> QED  BY <1>3, <2>1, <2>2
  <1>7. CASE CoolDown
    <2> DEFINE v == [w EXCEPT !.cooling = FALSE]
    <2>1. Become(v) /\ resetAnswered' = FALSE
      BY <1>7 DEF CoolDown, Around, w
    <2>2. Alike(w, v)
      BY <1>1 DEF Alike, Worlds
    <2> HIDE DEF v
    <2> QED  BY <1>3, <2>1, <2>2
  <1>8. CASE DaemonReady
    <2> DEFINE v == [w EXCEPT !.daemon = "fresh"]
    <2>1. Become(v) /\ resetAnswered' = FALSE
      BY <1>8 DEF DaemonReady, Around, w
    <2>2. Alike(w, v)
      BY <1>1 DEF Alike, Worlds
    <2> HIDE DEF v
    <2> QED  BY <1>3, <2>1, <2>2
  <1>9. CASE DaemonRetires
    <2> DEFINE v == [w EXCEPT !.daemon = "down"]
    <2>1. Become(v) /\ resetAnswered' = FALSE
      BY <1>9 DEF DaemonRetires, Around, w
    <2>2. Alike(w, v)
      BY <1>1 DEF Alike, Worlds
    <2> HIDE DEF v
    <2> QED  BY <1>3, <2>1, <2>2
  <1>10. CASE DaemonDies
    <2> DEFINE f == Fault(w)
               v == [f EXCEPT !.daemon = "down", !.client.alive = FALSE,
                              !.registry = NoSessions,
                              !.preparation = IF @ = "ready" THEN "broken" ELSE @]
    <2>1. Become(v) /\ resetAnswered' = FALSE
      BY <1>10 DEF DaemonDies, Around, w
    <2>2. Alike(w, f) /\ f \in Worlds
      BY <1>1, FaultFacts DEF Alike
    <2>3. Good(f)
      BY <1>1, <2>2, GoodAlike
    <2> HIDE DEF f
    <2>4. v.client \in Clients /\ ~v.client.alive
      BY <2>2 DEF Worlds, Clients
    <2>5. v \in Worlds /\ v.registry = NoSessions /\ v.misaddressed = f.misaddressed
          /\ v.contexts = f.contexts
      BY <2>2, <2>4, NoSessionsType DEF Worlds
    <2> HIDE DEF v
    <2>6. Good(v)
      BY <2>3, <2>4, <2>5, GoodClosed DEF Good
    <2> QED  BY <2>1, <2>6
  <1> QED  BY <1>4, <1>5, <1>6, <1>7, <1>8, <1>9, <1>10

-----------------------------------------------------------------------------
(* The theorems                                                            *)

\* Good holds between two handlers of the addon, whatever the order in which the
\* contexts, the polling thread and the daemon take their steps.
THEOREM FrontEndIsInductive == Spec => []FrontEndInv
  <1>1. FrontEndInv /\ [Next]_vars => FrontEndInv'
    <2> SUFFICES ASSUME FrontEndInv, [Next]_vars PROVE FrontEndInv'
      OBVIOUS
    <2>1. CASE Next
      BY <2>1, HandlersKeep, SurroundingsKeep DEF Next
    <2>2. CASE UNCHANGED vars
      BY <2>2 DEF vars, FrontEndInv, World
    <2> QED  BY <2>1, <2>2
  <1> QED  BY <1>1, InitGood, PTL DEF Spec

\* A request of the addon reaches its session, with a number the daemon has not
\* seen, and a choice reaches the list it was made from (invalidateStaleSession,
\* envelope, the checks of candidateIndices_).  That a digit beyond the rows, or a
\* cursor outside the surrounding text, is refused does not count against it.
THEOREM IsNeverMisaddressed == Spec => []NeverMisaddressed
  <1>1. FrontEndInv => NeverMisaddressed
    BY WorldFields DEF FrontEndInv, Good, NeverMisaddressed
  <1> QED  BY <1>1, FrontEndIsInductive, PTL

\* An index of what a context shows means the same to its session (apply,
\* showTypoCorrections).
THEOREM ShowsWhatItHolds == Spec => []ShowsItsSession
  <1>1. FrontEndInv => ShowsItsSession
    <2> SUFFICES ASSUME Good(World), NEW c \in Contexts, Live(c)
                 PROVE  /\ contexts[c].sid \in DOMAIN registry
                        /\ LET s == registry[contexts[c].sid]
                           IN  IF contexts[c].typos > 0 THEN contexts[c].typos = s.typos
                               ELSE contexts[c].shows = s.shows
      BY DEF FrontEndInv, ShowsItsSession
    <2>1. Served(World, c)
      BY WorldFields DEF Live, Served
    <2>2. /\ World.contexts[c].sid \in DOMAIN World.registry
          /\ InSync(World.contexts[c], World.registry[World.contexts[c].sid])
      BY <2>1 DEF Good, ContextsFit
    <2>3. contexts[c].sid \in DOMAIN registry
          /\ InSync(contexts[c], registry[contexts[c].sid])
      BY <2>2, WorldFields
    <2> QED  BY <2>3 DEF InSync
  <1> QED  BY <1>1, FrontEndIsInductive, PTL

\* Every session of the worker belongs to a context that ends it (focusOut and
\* the failures).
THEOREM LeavesNoSession == Spec => []NoOrphanSession
  <1>1. FrontEndInv => NoOrphanSession
    <2> SUFFICES ASSUME Good(World), NEW k \in DOMAIN registry
                 PROVE  \E c \in Contexts : Live(c) /\ contexts[c].sid = k
      BY DEF FrontEndInv, NoOrphanSession
    <2>1. PICK c \in Contexts : Served(World, c) /\ World.contexts[c].sid = k
      BY WorldFields DEF Good, RegistryFits
    <2>2. Live(c) /\ contexts[c].sid = k
      BY <2>1, WorldFields DEF Live, Served
    <2> QED  BY <2>2
  <1> QED  BY <1>1, FrontEndIsInductive, PTL

\* A commit the daemon answered is inserted at most once
\* (normalState_.clear_commit()).
THEOREM InsertsOnce == Spec => []CommitsOnce
  <1>1. FrontEndInv => CommitsOnce
    <2> SUFFICES ASSUME Good(World), NEW c \in Contexts PROVE contexts[c].owed >= 0
      BY DEF FrontEndInv, CommitsOnce
    <2>1. contexts[c] \in States
      BY WorldFields DEF Good, Worlds
    <2> QED  BY <2>1 DEF States
  <1> QED  BY <1>1, FrontEndIsInductive, PTL

=============================================================================
