----------------------------- MODULE AtomicStore -----------------------------
(***************************************************************************)
(* What the learning memory's persistence promises: a store that holds one *)
(* whole generation of learning records.  A save replaces the generation   *)
(* in one step, a restart loads exactly the generation last stored, and no *)
(* crash in between can show anything else.                                *)
(*                                                                         *)
(* The promise is suspended, trusted = FALSE, from the moment the store    *)
(* starts rewriting files that a recovery may still need (a save or a      *)
(* reset over a publication that never finished, or a reset in progress)   *)
(* until the next save or reset takes effect.                              *)
(***************************************************************************)
CONSTANTS Snapshots,   \* the generations of learning records
          Empty,       \* the generation without records
          Down         \* no process has the store loaded

VARIABLES durable,     \* the generation a restart loads
          memory,      \* the generation in the running process, or Down
          trusted      \* the promise holds

vars == <<durable, memory, trusted>>

\* Shape of the abstract state
TypeOK == /\ durable \in Snapshots
          /\ memory \in Snapshots \cup {Down}
          /\ trusted \in BOOLEAN

Init == durable = Empty /\ memory = Down /\ trusted = TRUE

\* The one step in which a save takes effect on disk.
Save(s) == /\ memory # Down
           /\ durable' = s /\ trusted' = TRUE
           /\ UNCHANGED memory

\* The caller of a save that took effect sees it in memory too.
Settle == /\ memory # Down /\ trusted
          /\ memory' = durable
          /\ UNCHANGED <<durable, trusted>>

\* A save or a reset starts to rewrite what a recovery may need.
Doubt == /\ trusted' = FALSE
         /\ memory' \in {memory, Empty}
         /\ memory = Down => memory' = Down
         /\ UNCHANGED durable

\* A reset takes effect.
Wipe == /\ durable' = Empty /\ trusted' = TRUE
        /\ UNCHANGED memory

\* A process loads the store: the durable generation whenever it is trusted.
Start == /\ memory = Down
         /\ memory' \in Snapshots
         /\ trusted => memory' = durable
         /\ UNCHANGED <<durable, trusted>>

Stop == memory' = Down /\ UNCHANGED <<durable, trusted>>

Next == \/ \E s \in Snapshots : Save(s)
        \/ Settle \/ Doubt \/ Wipe \/ Start \/ Stop

Spec == Init /\ [][Next]_vars
==============================================================================
