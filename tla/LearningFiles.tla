---------------------------- MODULE LearningFiles ----------------------------
(***************************************************************************)
(* The files of the learning memory (crates/converter/src/learning.rs):    *)
(* save_records, recover_if_paused, decode_directory and reset, one file   *)
(* operation per step, with a process that may be killed between or inside *)
(* any two of them and file operations that may fail.                      *)
(*                                                                         *)
(* A save writes every file under its name with ".2" (tmp), creates the    *)
(* marker .pause, copies the ".2" files over the real ones (main) and      *)
(* removes the marker.  An open that finds the marker repeats the copies.  *)
(* What a file holds is abstracted to the generation of records it was     *)
(* encoded from: two files of different generations do not belong together. *)
(***************************************************************************)
EXTENDS Naturals

CONSTANTS Snapshots,    \* generations of records a save may store
          Empty,        \* the generation without records
          ShardCount,   \* entry shards that encode a generation
          MaxShards,    \* largest number of entry shards
          Missing,      \* a file that is not there
          Torn          \* a file whose write was cut short

ASSUME SnapshotAssumption ==
  /\ Empty \in Snapshots
  /\ Missing \notin Snapshots
  /\ Torn \notin Snapshots \cup {Missing}

\* encode always emits the two root blocks, so there is a first shard.
ASSUME ShardAssumption ==
  /\ MaxShards \in Nat \ {0}
  /\ ShardCount \in [Snapshots -> 1..MaxShards]

Louds == <<"louds", 0>>
Chars == <<"loudschars2", 0>>
Meta == <<"memorymetadata", 0>>
Shards == {<<"loudstxt3", i>> : i \in 0..(MaxShards - 1)}
Files == {Louds, Chars, Meta} \cup Shards

Contents == Snapshots \cup {Missing, Torn}

\* Mutation: one shard too many.
FilesOfOneMore(s) == {Louds, Chars, Meta} \cup {<<"loudstxt3", i>> : i \in 0..ShardCount[s]}

\* The files a generation is encoded into.
FilesOf(s) == {Louds, Chars, Meta} \cup {<<"loudstxt3", i>> : i \in 0..(ShardCount[s] - 1)}

\* save_records writes the temporaries louds first, then chars, metadata, shards.
WriteRank(f) == CASE f = Louds -> 0
                  [] f = Chars -> 1
                  [] f = Meta -> 2
                  [] OTHER -> 3 + f[2]

\* It publishes chars, metadata, shards, and the LOUDS topology last;
\* recover_if_paused copies in the same order.
PublishRank(f) == CASE f = Chars -> 0
                    [] f = Meta -> 1
                    [] f = Louds -> 2 + MaxShards
                    [] OTHER -> 2 + f[2]

Modes == {"InputAndOutput", "OnlyOutput", "Nothing"}
UsesMemory(m) == m # "Nothing"
UpdatesMemory(m) == m = "InputAndOutput"

VARIABLES
  main,      \* the files under their own names
  tmp,       \* the ".2" files
  pause,     \* the marker .pause exists
  proc,      \* what the one process that owns the directory is doing
  mode,      \* the learning mode it was started with
  todo,      \* files the current save or recovery has still to write
  saving,    \* the generation being saved
  memory,    \* the persisted layer in memory
  \* history
  durable,   \* the generation the last save that reached .pause, or reset, stored
  lingered,  \* a save or reset began over a .pause left by an unfinished save
  wiping     \* a reset began to delete and nothing was stored since

disk == <<main, tmp, pause>>
history == <<durable, lingered, wiping>>
vars == <<main, tmp, pause, proc, mode, todo, saving, memory, durable, lingered, wiping>>

Procs == {"down", "recovering", "loading", "up", "writing", "publishing", "deleting"}

\* Shape of the state: every file of the directory, main or temporary, holds the
\* bytes of one generation, is torn or is missing
TypeOK == /\ main \in [Files -> Contents]
          /\ tmp \in [Files -> Contents]
          /\ pause \in BOOLEAN
          /\ proc \in Procs
          /\ mode \in Modes
          /\ todo \in SUBSET Files
          /\ saving \in Snapshots
          /\ memory \in Snapshots
          /\ durable \in Snapshots
          /\ lingered \in BOOLEAN
          /\ wiping \in BOOLEAN

Init == /\ main = [f \in Files |-> Missing]
        /\ tmp = [f \in Files |-> Missing]
        /\ pause = FALSE
        /\ proc = "down"
        /\ mode = "Nothing"
        /\ todo = {}
        /\ saving = Empty
        /\ memory = Empty
        /\ durable = Empty
        /\ lingered = FALSE
        /\ wiping = FALSE

-----------------------------------------------------------------------------
(* save_records, called under the mutex by commit and forget.              *)

\* Mutation: the marker is created before the temporaries are written.
BeginSavePausesFirst(s) ==
  /\ proc = "up" /\ UpdatesMemory(mode)
  /\ proc' = "writing"
  /\ saving' = s
  /\ todo' = FilesOf(s)
  /\ pause' = TRUE
  /\ lingered' = (lingered \/ pause)
  /\ UNCHANGED <<main, tmp, mode, memory, durable, wiping>>

\* Mutation: the caller replaces its records before they are saved.
BeginSaveAssignsFirst(s) ==
  /\ proc = "up" /\ UpdatesMemory(mode)
  /\ proc' = "writing"
  /\ saving' = s
  /\ todo' = FilesOf(s)
  /\ memory' = s
  /\ lingered' = (lingered \/ pause)
  /\ UNCHANGED <<main, tmp, pause, mode, durable, wiping>>

\* commit and forget compute the new records and call save_records.
BeginSave(s) ==
  /\ proc = "up" /\ UpdatesMemory(mode)
  /\ proc' = "writing"
  /\ saving' = s
  /\ todo' = FilesOf(s)
  /\ lingered' = (lingered \/ pause)
  /\ UNCHANGED <<main, tmp, pause, mode, memory, durable, wiping>>

\* save_records returns to commit or forget.
Return == proc' = "up" /\ todo' = {} /\ saving' = Empty /\ UNCHANGED mode

\* The process ends, and with it everything but the files.
Exit == proc' = "down" /\ mode' = "Nothing" /\ todo' = {} /\ saving' = Empty /\ memory' = Empty

NextToWrite(f) == f \in todo /\ \A g \in todo : WriteRank(f) <= WriteRank(g)
NextToPublish(f) == f \in todo /\ \A g \in todo : PublishRank(f) <= PublishRank(g)

WriteTemporary(f) ==
  /\ proc = "writing" /\ NextToWrite(f)
  /\ tmp' = [tmp EXCEPT ![f] = saving]
  /\ todo' = todo \ {f}
  /\ UNCHANGED <<main, pause, proc, mode, saving, memory, history>>

\* fs::write fails: nothing was created, or the truncated file stays behind.
WriteTemporaryFails(f) ==
  /\ proc = "writing" /\ NextToWrite(f)
  /\ \E c \in {tmp[f], Torn} : tmp' = [tmp EXCEPT ![f] = c]
  /\ Return
  /\ UNCHANGED <<main, pause, memory, history>>

\* Mutation: publication starts without the marker.
WritePauseUnmarked ==
  /\ proc = "writing" /\ todo = {}
  /\ proc' = "publishing" /\ todo' = FilesOf(saving)
  /\ durable' = saving /\ lingered' = FALSE /\ wiping' = FALSE
  /\ UNCHANGED <<main, tmp, pause, mode, saving, memory>>

\* The step in which the save takes effect: from here on a restart finishes it.
WritePause ==
  /\ proc = "writing" /\ todo = {}
  /\ pause' = TRUE
  /\ proc' = "publishing" /\ todo' = FilesOf(saving)
  /\ durable' = saving /\ lingered' = FALSE /\ wiping' = FALSE
  /\ UNCHANGED <<main, tmp, mode, saving, memory>>

WritePauseFails ==
  /\ proc = "writing" /\ todo = {}
  /\ Return
  /\ UNCHANGED <<disk, memory, history>>

Publish(f) ==
  /\ proc = "publishing" /\ NextToPublish(f)
  /\ main' = [main EXCEPT ![f] = tmp[f]]
  /\ todo' = todo \ {f}
  /\ UNCHANGED <<tmp, pause, proc, mode, saving, memory, history>>

\* fs::copy fails: save_records returns with .pause still there and the
\* caller keeps the old records in memory.
PublishFails(f) ==
  /\ proc = "publishing" /\ NextToPublish(f)
  /\ \E c \in {main[f], Torn} : main' = [main EXCEPT ![f] = c]
  /\ Return
  /\ UNCHANGED <<tmp, pause, memory, history>>

RemovePause ==
  /\ proc = "publishing" /\ todo = {}
  /\ pause' = FALSE
  /\ memory' = saving
  /\ Return
  /\ UNCHANGED <<main, tmp, history>>

RemovePauseFails ==
  /\ proc = "publishing" /\ todo = {}
  /\ Return
  /\ UNCHANGED <<disk, memory, history>>

SaveStep == \/ \E s \in Snapshots : BeginSave(s)
            \/ \E f \in Files : \/ WriteTemporary(f) \/ WriteTemporaryFails(f)
                                \/ Publish(f) \/ PublishFails(f)
            \/ WritePause \/ WritePauseFails
            \/ RemovePause \/ RemovePauseFails

-----------------------------------------------------------------------------
(* reset, in any mode: the records in memory go first, then every memory   *)
(* file in the order the directory lists them.                             *)

BeginReset ==
  /\ proc = "up"
  /\ proc' = "deleting"
  /\ memory' = Empty
  /\ wiping' = TRUE
  /\ lingered' = (lingered \/ pause)
  /\ UNCHANGED <<disk, mode, todo, saving, durable>>

DeleteMain(f) ==
  /\ proc = "deleting" /\ main[f] # Missing
  /\ main' = [main EXCEPT ![f] = Missing]
  /\ UNCHANGED <<tmp, pause, proc, mode, todo, saving, memory, history>>

DeleteTemporary(f) ==
  /\ proc = "deleting" /\ tmp[f] # Missing
  /\ tmp' = [tmp EXCEPT ![f] = Missing]
  /\ UNCHANGED <<main, pause, proc, mode, todo, saving, memory, history>>

DeletePause ==
  /\ proc = "deleting" /\ pause
  /\ pause' = FALSE
  /\ UNCHANGED <<main, tmp, proc, mode, todo, saving, memory, history>>

Wiped == ~pause /\ \A f \in Files : main[f] = Missing /\ tmp[f] = Missing

\* Listing the directory or removing a file fails: the files left stay.
ResetFails ==
  /\ proc = "deleting" /\ ~Wiped
  /\ proc' = "up"
  /\ UNCHANGED <<disk, mode, todo, saving, memory, history>>

EndReset ==
  /\ proc = "deleting" /\ Wiped
  /\ proc' = "up"
  /\ durable' = Empty /\ lingered' = FALSE /\ wiping' = FALSE
  /\ UNCHANGED <<disk, mode, todo, saving, memory>>

ResetStep == \/ BeginReset \/ DeletePause \/ ResetFails \/ EndReset
             \/ \E f \in Files : DeleteMain(f) \/ DeleteTemporary(f)

-----------------------------------------------------------------------------
(* open_with_clock in the next process, and the death of the current one.  *)

\* Mutation: recovery copies the three fixed files and forgets the shards.
OpenSkipsShards(m) ==
  /\ proc = "down"
  /\ mode' = m
  /\ IF ~UsesMemory(m)
       THEN proc' = "up" /\ memory' = Empty /\ todo' = {}
       ELSE /\ proc' = IF pause THEN "recovering" ELSE "loading"
            /\ todo' = IF pause THEN {Chars, Meta, Louds} ELSE {}
            /\ UNCHANGED memory
  /\ UNCHANGED <<disk, saving, history>>

\* Mode "nothing" reads no file; the other modes recover, then decode.
Open(m) ==
  /\ proc = "down"
  /\ mode' = m
  /\ IF ~UsesMemory(m)
       THEN proc' = "up" /\ memory' = Empty /\ todo' = {}
       ELSE /\ proc' = IF pause THEN "recovering" ELSE "loading"
            /\ todo' = IF pause
                         THEN {Chars, Meta, Louds} \cup {f \in Shards : tmp[f] # Missing}
                         ELSE {}
            /\ UNCHANGED memory
  /\ UNCHANGED <<disk, saving, history>>

RecoverFile(f) ==
  /\ proc = "recovering" /\ NextToPublish(f) /\ tmp[f] # Missing
  /\ main' = [main EXCEPT ![f] = tmp[f]]
  /\ todo' = todo \ {f}
  /\ UNCHANGED <<tmp, pause, proc, mode, saving, memory, history>>

\* A copy fails, always when its source is missing: the daemon does not start.
RecoverFails(f) ==
  /\ proc = "recovering" /\ NextToPublish(f)
  /\ \E c \in {main[f], Torn} :
       /\ tmp[f] = Missing => c = main[f]
       /\ main' = [main EXCEPT ![f] = c]
  /\ Exit
  /\ UNCHANGED <<tmp, pause, history>>

EndRecovery ==
  /\ proc = "recovering" /\ todo = {}
  /\ pause' = FALSE /\ proc' = "loading"
  /\ UNCHANGED <<main, tmp, mode, todo, saving, memory, history>>

EndRecoveryFails ==
  /\ proc = "recovering" /\ todo = {}
  /\ Exit
  /\ UNCHANGED <<disk, history>>

\* The directory d holds the generation s.
Holds(d, s) == \A f \in FilesOf(s) : d[f] = s

\* What decode_directory makes of the files: no metadata is no records; files
\* of one generation are its records.
Decodes(s) == \/ main[Meta] = Missing /\ s = Empty
              \/ Holds(main, s)

\* Whole files of several generations: their counts may agree by chance.
Mixture == /\ main[Meta] \in Snapshots
           /\ \A f \in FilesOf(main[Meta]) : main[f] \in Snapshots
           /\ ~Holds(main, main[Meta])

Load(s) ==
  /\ proc = "loading"
  /\ Decodes(s) \/ Mixture
  /\ proc' = "up" /\ memory' = s
  /\ UNCHANGED <<disk, mode, todo, saving, history>>

\* An inconsistent directory, or a read error: open fails, the daemon ends.
LoadFails ==
  /\ proc = "loading"
  /\ Exit
  /\ UNCHANGED <<disk, history>>

\* The process is killed; a write in progress leaves a truncated file.
Crash ==
  /\ proc # "down"
  /\ Exit
  /\ \/ UNCHANGED <<main, tmp>>
     \/ /\ proc = "writing"
        /\ \E f \in Files : NextToWrite(f) /\ tmp' = [tmp EXCEPT ![f] = Torn]
        /\ UNCHANGED main
     \/ /\ proc \in {"publishing", "recovering"}
        /\ \E f \in Files : /\ NextToPublish(f) /\ tmp[f] # Missing
                            /\ main' = [main EXCEPT ![f] = Torn]
        /\ UNCHANGED tmp
  /\ UNCHANGED <<pause, history>>

OpenStep == \/ \E m \in Modes : Open(m)
            \/ \E f \in Files : RecoverFile(f) \/ RecoverFails(f)
            \/ EndRecovery \/ EndRecoveryFails
            \/ \E s \in Snapshots : Load(s)
            \/ LoadFails

Next == SaveStep \/ ResetStep \/ OpenStep \/ Crash

Spec == Init /\ [][Next]_vars

-----------------------------------------------------------------------------
Trusted == ~lingered /\ ~wiping

\* What the next open would load, from the files as they are now.
Recovers(s) == IF pause THEN Holds(tmp, s) ELSE Decodes(s)

\* A crash between or inside any two file operations of a save or of a
\* recovery loses nothing and mixes nothing: the files always lead the next
\* open to the generation of the last save that got as far as .pause (or to
\* the empty one after a reset).  save_records, recover_if_paused.
RecoversDurable == Trusted => Recovers(durable)

\* decode_directory never meets whole files of two generations, unless a save
\* or a reset ran over the .pause of a save that had failed half published.
\* This covers a reset killed between two of its deletions.
NeverLoadsMixture == proc = "loading" /\ ~lingered => ~Mixture

\* The records in memory are the durable ones whenever no save is under way
\* or left half published: a save that failed before .pause changed neither, a
\* save that succeeded changed both.
MemoryIsDurable ==
  proc = "up" /\ UsesMemory(mode) /\ Trusted /\ ~pause => memory = durable

\* The inductive strengthening: what each stage of a save, a recovery and a
\* reset has already achieved.
WritingInv == proc = "writing" =>
  /\ todo \subseteq FilesOf(saving)
  /\ \A f \in FilesOf(saving) \ todo : tmp[f] = saving
  /\ lingered \/ ~pause
  /\ UsesMemory(mode)
  /\ Trusted => memory = durable
PublishingInv == proc = "publishing" =>
  /\ pause /\ Trusted /\ durable = saving
  /\ Holds(tmp, saving)
  /\ \A f \in FilesOf(saving) \ todo : main[f] = saving
RecoveringInv == proc = "recovering" =>
  /\ pause
  /\ Trusted => \A f \in FilesOf(durable) \ todo : main[f] = durable
WipingInv == wiping /\ ~lingered =>
  /\ ~pause
  /\ \/ main[Meta] = Missing
     \/ /\ main[Meta] = durable
        /\ \A f \in FilesOf(durable) : main[f] \in {durable, Missing}
StageInv == /\ WritingInv /\ PublishingInv /\ RecoveringInv /\ WipingInv
            /\ proc = "loading" => ~pause
            /\ proc = "deleting" => wiping /\ memory = Empty
IInv == TypeOK /\ StageInv /\ RecoversDurable /\ MemoryIsDurable

\* The files implement a store that saves and restarts atomically.
Store == INSTANCE AtomicStore
           WITH Down <- Missing,
                memory <- IF proc \in {"down", "recovering", "loading"} \/ mode = "Nothing"
                            THEN Missing ELSE memory,
                trusted <- Trusted
ImplementsAtomicStore == Store!Spec
==============================================================================
