--------------------------- MODULE DaemonLifecycle ---------------------------
(***************************************************************************)
(* Starting, sharing and ending the conversion daemon:                     *)
(* crates/daemon/src/server.rs and main.rs, ipc/client.cpp, and the        *)
(* connection logic of fcitx5/src/engine.cpp.                              *)
(*                                                                         *)
(* A front end that cannot connect launches a daemon process and polls the *)
(* socket.  A daemon takes the process lock, clears a stale socket, opens  *)
(* the engine (dictionaries, learning files), binds, serves, and exits     *)
(* once its last connection is gone.  Nothing coordinates the processes    *)
(* but the lock file and the socket path, so every system call that reads  *)
(* or changes one of them is a step of its own.                            *)
(***************************************************************************)
EXTENDS Naturals, FiniteSets

CONSTANTS
    Daemons,    \* daemon processes that may exist at once
    Clients,    \* front ends, each with one connection
    None,
    MaxSpare    \* bound: clients leaving, signals and failures in a behaviour

ASSUME LifecycleAssumption ==
    /\ None \notin Daemons /\ IsFiniteSet(Daemons) /\ IsFiniteSet(Clients)
    /\ MaxSpare \in Nat

VARIABLES
    lock,      \* the process holding flock(daemon.lock), or None
    path,      \* the process whose socket is at the path, or None
    pc,        \* where each process is
    queued,    \* connections a listener has not accepted: clients, and closed ones
    serving,   \* connections with a worker thread, likewise
    accepted,  \* accepted_client of each process
    ending,    \* TERMINATING of each process
    state,     \* each client: "idle", "waiting", "connected", "broken" or "gone"
    peer,      \* the process a connected client talks to, or None
    spare      \* what is left of MaxSpare

vars == <<lock, path, pc, queued, serving, accepted, ending, state, peer, spare>>
files == <<lock, path>>
connections == <<queued, serving, accepted, state, peer>>

\* A listener exists from bind until the endpoint's fields are dropped.
ListeningStates == {"running", "checking", "joining", "dropping", "failing", "unlinked", "unlinkedFailing"}
Listening == {d \in Daemons : pc[d] \in ListeningStates}

\* connect(2) on the path succeeds while the socket found there is listening
Reachable == path \in Listening

NoConnections == [live |-> {}, closed |-> 0]
Connections == [live : SUBSET Clients, closed : Nat]

Go(d, to) == pc' = [pc EXCEPT ![d] = to]

\* Connections of set C lose their daemon
Break(C) == state' = [c \in Clients |-> IF c \in C THEN "broken" ELSE state[c]]
            /\ peer' = [c \in Clients |-> IF c \in C THEN None ELSE peer[c]]

Init ==
    /\ lock = None /\ path = None
    /\ pc = [d \in Daemons |-> "off"]
    /\ queued = [d \in Daemons |-> NoConnections]
    /\ serving = [d \in Daemons |-> NoConnections]
    /\ accepted = [d \in Daemons |-> FALSE]
    /\ ending = [d \in Daemons |-> FALSE]
    /\ state = [c \in Clients |-> "idle"]
    /\ peer = [c \in Clients |-> None]
    /\ spare = MaxSpare

-----------------------------------------------------------------------------
(* Front ends                                                              *)

\* connectOnce: the connection waits in the listener's queue
Connect(c) ==
    /\ Reachable
    /\ state' = [state EXCEPT ![c] = "connected"]
    /\ peer' = [peer EXCEPT ![c] = path]
    /\ queued' = [queued EXCEPT ![path].live = @ \cup {c}]
    /\ UNCHANGED <<lock, path, pc, serving, accepted, ending, spare>>

\* ensureConnected: try once, then launch a daemon and poll in the background
WantConnected(c) == state[c] = "idle" /\ Connect(c)

WantLaunches(c) ==
    /\ state[c] = "idle" /\ ~Reachable
    /\ \E d \in Daemons : pc[d] = "off" /\ Go(d, "starting")
    /\ state' = [state EXCEPT ![c] = "waiting"]
    /\ UNCHANGED <<lock, path, queued, serving, accepted, ending, peer, spare>>

Poll(c) == state[c] = "waiting" /\ Connect(c)

\* The 30 s startup deadline passes; the next key tries again
GiveUp(c) ==
    /\ state[c] = "waiting"
    /\ state' = [state EXCEPT ![c] = "idle"]
    /\ UNCHANGED <<lock, path, pc, queued, serving, accepted, ending, peer, spare>>

\* A request on a dead connection fails: disconnect
NoticeBroken(c) ==
    /\ state[c] = "broken"
    /\ state' = [state EXCEPT ![c] = "idle"]
    /\ UNCHANGED <<lock, path, pc, queued, serving, accepted, ending, peer, spare>>

\* A front end's end of a connection, if it has one, is closed
Close(c) ==
    LET Closed(k) == IF c \in k.live THEN [live |-> k.live \ {c}, closed |-> k.closed + 1] ELSE k
    IN  /\ queued' = [d \in Daemons |-> Closed(queued[d])]
        /\ serving' = [d \in Daemons |-> Closed(serving[d])]
        /\ peer' = [peer EXCEPT ![c] = None]

\* A request failed: disconnect.  The next key connects again
Leave(c) ==
    /\ state[c] = "connected" /\ spare > 0
    /\ Close(c)
    /\ state' = [state EXCEPT ![c] = "idle"]
    /\ spare' = spare - 1
    /\ UNCHANGED <<lock, path, pc, accepted, ending>>

\* The front end exits, also while its daemon is starting
Quit(c) ==
    /\ state[c] # "gone" /\ spare > 0
    /\ Close(c)
    /\ state' = [state EXCEPT ![c] = "gone"]
    /\ spare' = spare - 1
    /\ UNCHANGED <<lock, path, pc, accepted, ending>>

-----------------------------------------------------------------------------
(* A daemon process: reserve                                               *)

\* Mutant: the result of flock is not looked at
AcquireLockBlindly(d) ==
    /\ pc[d] = "starting"
    /\ lock' = d /\ Go(d, "locked")
    /\ UNCHANGED <<path, connections, ending, spare>>

\* acquire_lock: flock(LOCK_EX | LOCK_NB)
AcquireLock(d) ==
    /\ pc[d] = "starting"
    /\ IF lock = None
       THEN lock' = d /\ Go(d, "locked")
       ELSE Go(d, "busy") /\ UNCHANGED lock
    /\ UNCHANGED <<path, connections, ending, spare>>

\* The lock is held: whether the socket answers decides between AlreadyRunning
\* and LockBusy.  Either way the process ends; an answering daemon is left with
\* a connection that is closed at once.
ProbeRunning(d) ==
    /\ pc[d] = "busy"
    /\ Go(d, "off")
    /\ queued' = IF Reachable THEN [queued EXCEPT ![path].closed = @ + 1] ELSE queued
    /\ UNCHANGED <<files, serving, accepted, state, peer, ending, spare>>

\* Mutant: a socket file is taken for a running daemon without connecting to it
RemoveStaleSocketTrustsFile(d) ==
    /\ pc[d] = "locked"
    /\ IF path # None
       THEN lock' = None /\ Go(d, "off")
       ELSE Go(d, "reserved") /\ UNCHANGED lock
    /\ UNCHANGED <<path, connections, ending, spare>>

\* remove_stale_socket, under the lock
RemoveStaleSocket(d) ==
    /\ pc[d] = "locked"
    /\ IF Reachable
       THEN /\ lock' = None /\ Go(d, "off") /\ UNCHANGED path
            /\ queued' = [queued EXCEPT ![path].closed = @ + 1]
       ELSE path' = None /\ Go(d, "reserved") /\ UNCHANGED <<lock, queued>>
    /\ UNCHANGED <<serving, accepted, state, peer, ending, spare>>

\* Engine::open_with_config; an error ends the process and frees the lock
OpenEngine(d) ==
    /\ pc[d] = "reserved"
    /\ \/ Go(d, "opened") /\ UNCHANGED <<lock, spare>>
       \/ spare > 0 /\ spare' = spare - 1 /\ lock' = None /\ Go(d, "off")
    /\ UNCHANGED <<path, connections, ending>>

\* RuntimeEndpoint::bind fails when something is at the path
Bind(d) ==
    /\ pc[d] = "opened"
    /\ IF path = None
       THEN path' = d /\ Go(d, "running") /\ UNCHANGED lock
       ELSE lock' = None /\ Go(d, "off") /\ UNCHANGED path
    /\ UNCHANGED <<connections, ending, spare>>

\* It may also fail after binding (permissions, metadata): no endpoint exists
\* yet, so the socket file is left behind.
BindFails(d) ==
    /\ pc[d] = "opened" /\ path = None /\ spare > 0
    /\ path' = d /\ lock' = None /\ Go(d, "off")
    /\ spare' = spare - 1
    /\ UNCHANGED <<connections, ending>>

-----------------------------------------------------------------------------
(* A daemon process: run                                                   *)

Accept(d) ==
    /\ pc[d] = "running" /\ ~ending[d]
    /\ \/ \E c \in queued[d].live :
             /\ queued' = [queued EXCEPT ![d].live = @ \ {c}]
             /\ serving' = [serving EXCEPT ![d].live = @ \cup {c}]
       \/ /\ queued[d].closed > 0
          /\ queued' = [queued EXCEPT ![d].closed = @ - 1]
          /\ serving' = [serving EXCEPT ![d].closed = @ + 1]
    /\ accepted' = [accepted EXCEPT ![d] = TRUE]
    /\ UNCHANGED <<files, pc, state, peer, ending, spare>>

\* accept returned WouldBlock ...
NothingToAccept(d) ==
    /\ pc[d] = "running" /\ ~ending[d]
    /\ queued[d] = NoConnections
    /\ Go(d, "checking")
    /\ UNCHANGED <<files, connections, ending, spare>>

\* ... and then active_clients is read
CheckLastClient(d) ==
    /\ pc[d] = "checking"
    /\ Go(d, IF accepted[d] /\ serving[d] = NoConnections THEN "joining" ELSE "running")
    /\ UNCHANGED <<files, connections, ending, spare>>

\* Mutant: the worker is not counted out
WorkerEndsUncounted(d) == serving[d].closed > 0 /\ UNCHANGED vars

\* A worker reads end of file and drops its ActiveClient
WorkerEnds(d) ==
    /\ serving[d].closed > 0
    /\ serving' = [serving EXCEPT ![d].closed = @ - 1]
    /\ UNCHANGED <<files, pc, queued, accepted, state, peer, ending, spare>>

\* SIGTERM or SIGINT: the loop and the workers stop by themselves
Signal(d) ==
    /\ pc[d] \in {"running", "checking"} /\ ~ending[d] /\ spare > 0
    /\ ending' = [ending EXCEPT ![d] = TRUE]
    /\ spare' = spare - 1
    /\ UNCHANGED <<files, pc, connections>>

StopLoop(d) ==
    /\ pc[d] = "running" /\ ending[d]
    /\ Go(d, "joining")
    /\ UNCHANGED <<files, connections, ending, spare>>

WorkerStops(d) ==
    /\ ending[d]
    /\ \E c \in serving[d].live :
          /\ serving' = [serving EXCEPT ![d].live = @ \ {c}]
          /\ Break({c})
    /\ UNCHANGED <<files, pc, queued, accepted, ending, spare>>

\* A worker leaves its loop by itself: an invalid frame, a frame that does not
\* arrive in 5 s, an answer that cannot be written
WorkerFails(d) ==
    /\ spare > 0 /\ spare' = spare - 1
    /\ \E c \in serving[d].live :
          /\ serving' = [serving EXCEPT ![d].live = @ \ {c}]
          /\ Break({c})
    /\ UNCHANGED <<files, pc, queued, accepted, ending>>

\* accept failed or a worker panicked, which reap_workers or the final join
\* reports: run returns without joining the workers that are left
LoopFails(d) ==
    /\ pc[d] \in {"running", "joining"} /\ spare > 0
    /\ Go(d, "failing")
    /\ spare' = spare - 1
    /\ UNCHANGED <<files, connections, ending>>

JoinWorkers(d) ==
    /\ pc[d] = "joining" /\ serving[d] = NoConnections
    /\ Go(d, "dropping")
    /\ UNCHANGED <<files, connections, ending, spare>>

-----------------------------------------------------------------------------
(* A daemon process: dropping the endpoint                                 *)

\* Drop for RuntimeEndpoint: only its own socket (device and inode) is removed
UnlinkSocket(d) ==
    /\ pc[d] \in {"dropping", "failing"}
    /\ path' = IF path = d THEN None ELSE path
    /\ Go(d, IF pc[d] = "failing" THEN "unlinkedFailing" ELSE "unlinked")
    /\ UNCHANGED <<lock, connections, ending, spare>>

\* The fields follow in order: the listener, with whatever it had queued ...
CloseListener(d) ==
    /\ pc[d] \in {"unlinked", "unlinkedFailing"}
    /\ Break(queued[d].live)
    /\ queued' = [queued EXCEPT ![d] = NoConnections]
    /\ Go(d, IF pc[d] = "unlinked" THEN "closed" ELSE "closedFailing")
    /\ UNCHANGED <<files, serving, accepted, ending, spare>>

\* ... then the lock.  Workers that were not joined go on until the process ends.
ReleaseLock(d) ==
    /\ pc[d] \in {"closed", "closedFailing"}
    /\ lock' = None
    /\ Go(d, "released")
    /\ UNCHANGED <<path, connections, ending, spare>>

ExitProcess(d) ==
    /\ pc[d] = "released"
    /\ Break(serving[d].live)
    /\ serving' = [serving EXCEPT ![d] = NoConnections]
    /\ accepted' = [accepted EXCEPT ![d] = FALSE]
    /\ ending' = [ending EXCEPT ![d] = FALSE]
    /\ Go(d, "off")
    /\ UNCHANGED <<files, queued, spare>>

\* kill -9, power: the lock goes with the process, the socket file stays
Kill(d) ==
    /\ pc[d] # "off" /\ spare > 0
    /\ Break(queued[d].live \cup serving[d].live)
    /\ queued' = [queued EXCEPT ![d] = NoConnections]
    /\ serving' = [serving EXCEPT ![d] = NoConnections]
    /\ accepted' = [accepted EXCEPT ![d] = FALSE]
    /\ ending' = [ending EXCEPT ![d] = FALSE]
    /\ lock' = IF lock = d THEN None ELSE lock
    /\ Go(d, "off")
    /\ spare' = spare - 1
    /\ UNCHANGED path

-----------------------------------------------------------------------------
\* What a process does by itself, without a fault
Proceed(d) ==
    \/ AcquireLock(d) \/ ProbeRunning(d) \/ RemoveStaleSocket(d)
    \/ OpenEngine(d) \/ Bind(d)
    \/ Accept(d) \/ NothingToAccept(d) \/ CheckLastClient(d) \/ StopLoop(d)
    \/ JoinWorkers(d) \/ UnlinkSocket(d) \/ CloseListener(d) \/ ReleaseLock(d)
    \/ ExitProcess(d)

Disturb(d) == BindFails(d) \/ Signal(d) \/ WorkerFails(d) \/ LoopFails(d) \/ Kill(d)

Reconnect(c) == WantConnected(c) \/ Poll(c)

Next ==
    \/ \E d \in Daemons : Proceed(d) \/ WorkerEnds(d) \/ WorkerStops(d) \/ Disturb(d)
    \/ \E c \in Clients : Reconnect(c) \/ WantLaunches(c) \/ GiveUp(c) \/ NoticeBroken(c)
                          \/ Leave(c) \/ Quit(c)

\* Threads and processes are scheduled; keys keep coming, and the deadline
\* passes.  Polling is strongly fair: the front end looks every 25 ms, and a
\* daemon that can be reached again and again is met in the end.
Fairness ==
    /\ \A d \in Daemons : WF_vars(Proceed(d)) /\ WF_vars(WorkerEnds(d)) /\ WF_vars(WorkerStops(d))
    /\ \A c \in Clients : /\ SF_vars(Reconnect(c)) /\ WF_vars(WantLaunches(c))
                          /\ WF_vars(GiveUp(c)) /\ WF_vars(NoticeBroken(c))

Spec == Init /\ [][Next]_vars /\ Fairness

-----------------------------------------------------------------------------
(* Properties                                                              *)

LockedStates == {"locked", "reserved", "opened"} \cup ListeningStates \cup {"closed", "closedFailing"}
States == {"off", "starting", "busy", "released"} \cup LockedStates

\* Shape of the state; connections are counted, never below zero (usize)
TypeOK ==
    /\ lock \in Daemons \cup {None} /\ path \in Daemons \cup {None}
    /\ pc \in [Daemons -> States]
    /\ queued \in [Daemons -> Connections] /\ serving \in [Daemons -> Connections]
    /\ accepted \in [Daemons -> BOOLEAN] /\ ending \in [Daemons -> BOOLEAN]
    /\ state \in [Clients -> {"idle", "waiting", "connected", "broken", "gone"}]
    /\ peer \in [Clients -> Daemons \cup {None}]
    /\ spare \in 0..MaxSpare

\* A process that has the learning files open: from the reservation to the end
\* of its workers, those left behind by a failed accept loop excepted.
Owns(d) == pc[d] \in LockedStates \/ (serving[d].live # {} /\ pc[d] # "released")

\* Why: a process holds the lock as long as it may touch the learning files,
\* and has workers only after bind, until the process ends.
LockHeld == \A d \in Daemons : pc[d] \in LockedStates => lock = d
WorkersHeld ==
    \A d \in Daemons : serving[d].live # {}
        => pc[d] \in ListeningStates \cup {"closed", "closedFailing", "released"}

\* At most one process at a time owns the learning files and answers requests.
OneOwner == \A d, e \in Daemons : Owns(d) /\ Owns(e) => d = e

\* A front end that launched a daemon is connected in the end, whatever
\* happened to the processes on the way (LockBusy, AlreadyRunning, a crash),
\* unless it exits first.
ConnectsEventually ==
    \A c \in Clients : state[c] = "waiting" ~> state[c] \in {"connected", "gone"}

Attached(d) == {c \in Clients : peer[c] = d}

\* A daemon whose clients are all gone ends, unless another one comes.
EndsWhenUnused ==
    \A d \in Daemons :
        (accepted[d] /\ Attached(d) = {}) ~> (pc[d] = "off" \/ Attached(d) # {})
=============================================================================
