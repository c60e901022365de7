------------------------ MODULE DaemonLifecycleProofs ------------------------
(***************************************************************************)
(* At most one daemon process owns the learning files, for any number of   *)
(* processes and front ends and any number of faults.                      *)
(***************************************************************************)
EXTENDS DaemonLifecycle, TLAPS

\* The inductive invariant: OneOwner alone does not say who holds the lock.
OwnerInv == TypeOK /\ LockHeld /\ WorkersHeld

\* Every fault costs one of the bounded number of faults.
LEMMA SpareKept ==
    ASSUME TypeOK, spare > 0, spare' = spare - 1 PROVE spare' \in 0..MaxSpare
    BY LifecycleAssumption DEF TypeOK

\* Changing one connection count keeps the shape of the counts.
LEMMA CountsKept ==
    ASSUME NEW k \in [Daemons -> Connections], NEW d \in Daemons
    PROVE  /\ \A S \in SUBSET Clients :
                 /\ [k EXCEPT ![d].live = S] \in [Daemons -> Connections]
                 /\ [k EXCEPT ![d].live = S][d].live = S
                 /\ \A e \in Daemons \ {d} : [k EXCEPT ![d].live = S][e] = k[e]
           /\ \A n \in Nat :
                 /\ [k EXCEPT ![d].closed = n] \in [Daemons -> Connections]
                 /\ \A e \in Daemons : [k EXCEPT ![d].closed = n][e].live = k[e].live
           /\ k[d].live \in SUBSET Clients /\ k[d].closed \in Nat
           /\ NoConnections \in Connections /\ NoConnections.live = {}
    BY DEF Connections, NoConnections

\* No step of a front end touches the lock, or adds a worker.
LEMMA ClientKeepsInv ==
    ASSUME NEW c \in Clients, OwnerInv,
           Reconnect(c) \/ WantLaunches(c) \/ GiveUp(c) \/ NoticeBroken(c) \/ Leave(c) \/ Quit(c)
    PROVE  OwnerInv'
<1> USE DEF OwnerInv, TypeOK, LockHeld, WorkersHeld
<1>1. CASE Reconnect(c)
  <2>1. path \in Daemons
    BY <1>1 DEF Reconnect, WantConnected, Poll, Connect, Reachable, Listening
  <2>2. queued[path].live \cup {c} \in SUBSET Clients
    BY <2>1, CountsKept
  <2>3. queued' \in [Daemons -> Connections]
    <3>1. queued' = [queued EXCEPT ![path].live = @ \cup {c}]
      BY <1>1 DEF Reconnect, WantConnected, Poll, Connect
    <3>2. QED
      BY <2>1, <3>1 DEF Connections
  <2>4. QED
    BY <1>1, <2>1, <2>3 DEF Reconnect, WantConnected, Poll, Connect
<1>2. CASE WantLaunches(c)
    BY <1>2 DEF WantLaunches, Go, States, LockedStates, ListeningStates
<1>3. CASE GiveUp(c) \/ NoticeBroken(c)
    BY <1>3 DEF GiveUp, NoticeBroken
<1>4. CASE Leave(c) \/ Quit(c)
  <2>1. ASSUME NEW k \in Connections, NEW l, l = IF c \in k.live
               THEN [live |-> k.live \ {c}, closed |-> k.closed + 1] ELSE k
        PROVE  l \in Connections /\ l.live \subseteq k.live
    BY <2>1 DEF Connections
  <2>2. queued' \in [Daemons -> Connections]
    BY <1>4, <2>1 DEF Leave, Quit, Close
  <2>3. /\ serving' \in [Daemons -> Connections]
        /\ \A e \in Daemons : serving'[e].live \subseteq serving[e].live
    BY <1>4, <2>1 DEF Leave, Quit, Close
  <2>4. TypeOK'
    BY <1>4, <2>2, <2>3, SpareKept DEF Leave, Quit, Close
  <2>5. QED
    BY <1>4, <2>3, <2>4 DEF Leave, Quit
<1>5. QED
    BY <1>1, <1>2, <1>3, <1>4

\* Starting up: the lock is taken only when free, given back on every failure.
LEMMA StartKeepsInv ==
    ASSUME NEW d \in Daemons, OwnerInv,
           \/ AcquireLock(d) \/ ProbeRunning(d) \/ RemoveStaleSocket(d)
           \/ OpenEngine(d) \/ Bind(d) \/ BindFails(d)
    PROVE  OwnerInv'
<1> USE LifecycleAssumption DEF OwnerInv, TypeOK, LockHeld, WorkersHeld, Go, connections, files
<1>1. CASE AcquireLock(d)
    BY <1>1 DEF AcquireLock, States, LockedStates, ListeningStates
<1>2. CASE ProbeRunning(d)
  <2>1. queued' \in [Daemons -> Connections]
    <3>1. CASE Reachable
      <4>1. path \in Daemons /\ queued[path].closed + 1 \in Nat
        BY <3>1, CountsKept DEF Reachable, Listening
      <4>2. QED
        BY <1>2, <3>1, <4>1, CountsKept DEF ProbeRunning
    <3>2. QED
      BY <1>2, <3>1 DEF ProbeRunning
  <2>2. QED
    BY <1>2, <2>1 DEF ProbeRunning, States, LockedStates, ListeningStates
<1>3. CASE RemoveStaleSocket(d)
  <2>1. queued' \in [Daemons -> Connections]
    <3>1. CASE Reachable
      <4>1. path \in Daemons /\ queued[path].closed + 1 \in Nat
        BY <3>1, CountsKept DEF Reachable, Listening
      <4>2. QED
        BY <1>3, <3>1, <4>1, CountsKept DEF RemoveStaleSocket
    <3>2. QED
      BY <1>3, <3>1 DEF RemoveStaleSocket
  <2>2. TypeOK'
    BY <1>3, <2>1 DEF RemoveStaleSocket, States, LockedStates, ListeningStates
  <2>3. LockHeld' /\ WorkersHeld'
    BY <1>3 DEF RemoveStaleSocket, LockedStates, ListeningStates
  <2>4. QED
    BY <2>2, <2>3
<1>4. CASE OpenEngine(d)
  <2>1. TypeOK'
    BY <1>4, SpareKept DEF OpenEngine, States, LockedStates, ListeningStates
  <2>2. LockHeld' /\ WorkersHeld'
    BY <1>4 DEF OpenEngine, LockedStates, ListeningStates
  <2>3. QED
    BY <2>1, <2>2
<1>5. CASE Bind(d)
  <2>1. TypeOK'
    BY <1>5 DEF Bind, States, LockedStates, ListeningStates
  <2>2. LockHeld' /\ WorkersHeld'
    BY <1>5 DEF Bind, LockedStates, ListeningStates
  <2>3. QED
    BY <2>1, <2>2
<1>6. CASE BindFails(d)
  <2>1. TypeOK'
    BY <1>6, SpareKept DEF BindFails, States, LockedStates, ListeningStates
  <2>2. LockHeld' /\ WorkersHeld'
    BY <1>6 DEF BindFails, LockedStates, ListeningStates
  <2>3. QED
    BY <2>1, <2>2
<1>7. QED
    BY <1>1, <1>2, <1>3, <1>4, <1>5, <1>6

\* Serving: workers come and go while the process holds the lock.
LEMMA RunKeepsInv ==
    ASSUME NEW d \in Daemons, OwnerInv,
           \/ Accept(d) \/ NothingToAccept(d) \/ CheckLastClient(d) \/ StopLoop(d)
           \/ WorkerEnds(d) \/ WorkerStops(d) \/ WorkerFails(d) \/ Signal(d) \/ LoopFails(d)
    PROVE  OwnerInv'
<1> USE DEF OwnerInv, TypeOK, LockHeld, WorkersHeld, Go, connections, files
<1>1. CASE Accept(d)
  <2>1. /\ queued' \in [Daemons -> Connections] /\ serving' \in [Daemons -> Connections]
        /\ \A e \in Daemons \ {d} : serving'[e] = serving[e]
    <3>1. CASE \E c \in queued[d].live :
                 /\ queued' = [queued EXCEPT ![d].live = @ \ {c}]
                 /\ serving' = [serving EXCEPT ![d].live = @ \cup {c}]
      BY SMTT(30), <3>1 DEF Connections
    <3>2. CASE /\ queued[d].closed > 0
               /\ queued' = [queued EXCEPT ![d].closed = @ - 1]
               /\ serving' = [serving EXCEPT ![d].closed = @ + 1]
      BY <3>2 DEF Connections
    <3>3. QED
      BY <1>1, <3>1, <3>2 DEF Accept
  <2>2. QED
    BY <1>1, <2>1 DEF Accept, LockedStates, ListeningStates
<1>2. CASE NothingToAccept(d) \/ CheckLastClient(d) \/ StopLoop(d)
    BY <1>2 DEF NothingToAccept, CheckLastClient, StopLoop, States, LockedStates, ListeningStates
<1>3. CASE WorkerEnds(d)
  <2>1. serving[d].closed - 1 \in Nat
    BY <1>3, CountsKept DEF WorkerEnds
  <2>2. QED
    BY <1>3, <2>1, CountsKept DEF WorkerEnds
<1>4. CASE WorkerStops(d) \/ WorkerFails(d)
  <2>1. /\ serving' \in [Daemons -> Connections]
        /\ \A e \in Daemons : serving'[e].live \subseteq serving[e].live
    <3>1. PICK c \in serving[d].live : serving' = [serving EXCEPT ![d].live = @ \ {c}]
      BY <1>4 DEF WorkerStops, WorkerFails
    <3>2. QED
      BY <3>1 DEF Connections
  <2>2. TypeOK'
    BY <1>4, <2>1, SpareKept DEF WorkerStops, WorkerFails, Break
  <2>3. QED
    BY <1>4, <2>1, <2>2 DEF WorkerStops, WorkerFails
<1>5. CASE Signal(d)
    BY <1>5, SpareKept DEF Signal
<1>6. CASE LoopFails(d)
  <2>1. TypeOK'
    BY <1>6, SpareKept DEF LoopFails, States, LockedStates, ListeningStates
  <2>2. LockHeld' /\ WorkersHeld'
    BY <1>6 DEF LoopFails, LockedStates, ListeningStates
  <2>3. QED
    BY <2>1, <2>2
<1>7. QED
    BY <1>1, <1>2, <1>3, <1>4, <1>5, <1>6

\* Ending: the lock goes last, after the socket, the listener and the workers.
LEMMA StopKeepsInv ==
    ASSUME NEW d \in Daemons, OwnerInv,
           \/ JoinWorkers(d) \/ UnlinkSocket(d) \/ CloseListener(d)
           \/ ReleaseLock(d) \/ ExitProcess(d) \/ Kill(d)
    PROVE  OwnerInv'
<1> USE LifecycleAssumption
    DEF OwnerInv, TypeOK, LockHeld, WorkersHeld, Go, connections, files
<1>1. CASE JoinWorkers(d) \/ UnlinkSocket(d)
    BY <1>1 DEF JoinWorkers, UnlinkSocket, States, LockedStates, ListeningStates
<1>2. CASE CloseListener(d)
    BY <1>2, CountsKept DEF CloseListener, Break, States, LockedStates, ListeningStates
<1>3. CASE ReleaseLock(d)
    BY <1>3 DEF ReleaseLock, States, LockedStates, ListeningStates
<1>4. CASE ExitProcess(d)
    BY <1>4, CountsKept DEF ExitProcess, Break, States, LockedStates, ListeningStates
<1>5. CASE Kill(d)
    BY <1>5, CountsKept DEF Kill, Break, States, LockedStates, ListeningStates
<1>6. QED
    BY <1>1, <1>2, <1>3, <1>4, <1>5

\* Who holds the lock and who has workers stays known in every behaviour
\* (reserve, bind, the drop of the endpoint).
LEMMA OwnerInductive == Spec => []OwnerInv
<1>1. Init => OwnerInv
    BY LifecycleAssumption
       DEF Init, OwnerInv, TypeOK, LockHeld, WorkersHeld, NoConnections, Connections,
           States, LockedStates, ListeningStates
<1>2. OwnerInv /\ [Next]_vars => OwnerInv'
  <2>1. CASE UNCHANGED vars
    BY <2>1 DEF vars, OwnerInv, TypeOK, LockHeld, WorkersHeld
  <2>2. CASE Next /\ OwnerInv
    BY <2>2, ClientKeepsInv, StartKeepsInv, RunKeepsInv, StopKeepsInv
       DEF Next, Proceed, Disturb
  <2>3. QED
    BY <2>1, <2>2
<1>3. QED
    BY <1>1, <1>2, PTL DEF Spec

\* Type correctness: in particular active_clients never goes below zero.
THEOREM LifecycleTypeCorrect == Spec => []TypeOK
<1>1. OwnerInv => TypeOK
    BY DEF OwnerInv
<1>2. QED
    BY <1>1, OwnerInductive, PTL

\* Mutual exclusion: two processes never own the learning files at once,
\* whatever the order of flock, connect, bind, unlink and the deaths.  Owns runs
\* from the reservation to the end of the workers; workers left behind by a
\* failed accept loop are excepted by its definition.
THEOREM MutualExclusion == Spec => []OneOwner
<1>1. OwnerInv => OneOwner
    BY DEF OwnerInv, LockHeld, WorkersHeld, OneOwner, Owns, LockedStates, ListeningStates
<1>2. QED
    BY <1>1, OwnerInductive, PTL
=============================================================================
