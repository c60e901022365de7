------------------------- MODULE LearningFilesProofs -------------------------
(***************************************************************************)
(* LearningFiles for every set of generations and every number of shards:  *)
(* a crash anywhere in a save or a recovery is harmless.                    *)
(***************************************************************************)
EXTENDS LearningFiles, TLAPS

\* The files of a generation are files of the directory; all of them but the
\* three fixed ones are entry shards (encode_files).
LEMMA FilesOfFacts ==
  ASSUME NEW s \in Snapshots
  PROVE  /\ FilesOf(s) \subseteq Files
         /\ {Louds, Chars, Meta} \subseteq FilesOf(s)
         /\ FilesOf(s) \subseteq {Louds, Chars, Meta} \cup Shards
  <1>1. ShardCount[s] \in 1..MaxShards /\ MaxShards \in Nat
    BY ShardAssumption
  <1>2. ASSUME NEW i \in 0..(ShardCount[s] - 1)
        PROVE  <<"loudstxt3", i>> \in Shards
    <2>1. i \in 0..(MaxShards - 1)
      BY <1>1
    <2>2. QED
      BY <2>1 DEF Shards
  <1>3. QED
    BY <1>2 DEF FilesOf, Files

\* The metadata file is one of the files a save writes.
LEMMA MetaIsFile == Meta \in Files
  BY DEF Files

\* The stages of a save keep the invariant (save_records).
LEMMA SaveKeepsInv == IInv /\ SaveStep => IInv'
  <1> SUFFICES ASSUME IInv, SaveStep PROVE IInv'
    OBVIOUS
  <1> USE DEF history, disk
  <1>0. /\ TypeOK /\ StageInv /\ RecoversDurable /\ MemoryIsDurable
        /\ WritingInv /\ PublishingInv /\ RecoveringInv /\ WipingInv
        /\ proc = "loading" => ~pause
        /\ proc = "deleting" => wiping /\ memory = Empty
    BY DEF IInv, StageInv
  <1>1. ASSUME NEW s \in Snapshots, BeginSave(s) PROVE IInv'
    <2>1. TypeOK'
      BY <1>0, <1>1, FilesOfFacts DEF BeginSave, TypeOK, Procs
    <2>2. WritingInv'
      BY <1>0, <1>1 DEF BeginSave, WritingInv, UpdatesMemory, UsesMemory, MemoryIsDurable, Trusted, TypeOK
    <2>3. StageInv'
      BY <1>0, <1>1, <2>2 DEF BeginSave, StageInv, PublishingInv, RecoveringInv, WipingInv, TypeOK, Trusted
    <2>4. RecoversDurable' /\ MemoryIsDurable'
      BY <1>0, <1>1 DEF BeginSave, RecoversDurable, MemoryIsDurable, Recovers, Decodes, Holds, Trusted, TypeOK
    <2>5. QED
      BY <2>1, <2>3, <2>4 DEF IInv
  <1>2. ASSUME NEW f \in Files, WriteTemporary(f) PROVE IInv'
    <2>1. TypeOK'
      BY <1>0, <1>2 DEF WriteTemporary, TypeOK, Contents
    <2>2. WritingInv'
      BY <1>0, <1>2, FilesOfFacts DEF WriteTemporary, WritingInv, Trusted, TypeOK, NextToWrite
    <2>3. StageInv'
      BY <1>0, <1>2, <2>2 DEF WriteTemporary, StageInv, PublishingInv, RecoveringInv, WipingInv, TypeOK
    <2>4. RecoversDurable' /\ MemoryIsDurable'
      BY <1>0, <1>2 DEF WriteTemporary, RecoversDurable, MemoryIsDurable, WritingInv, Recovers, Decodes, Holds, Trusted, TypeOK
    <2>5. QED
      BY <2>1, <2>3, <2>4 DEF IInv
  <1>3. ASSUME NEW f \in Files, WriteTemporaryFails(f) PROVE IInv'
    <2>1. TypeOK'
      BY <1>0, <1>3, SnapshotAssumption DEF WriteTemporaryFails, Return, TypeOK, Contents, Procs
    <2>2. StageInv'
      BY <1>0, <1>3 DEF WriteTemporaryFails, Return, StageInv, WritingInv, PublishingInv, RecoveringInv, WipingInv, TypeOK
    <2>3. RecoversDurable' /\ MemoryIsDurable'
      BY <1>0, <1>3 DEF WriteTemporaryFails, Return, RecoversDurable, MemoryIsDurable, WritingInv, Recovers, Decodes, Holds, Trusted, TypeOK
    <2>4. QED
      BY <2>1, <2>2, <2>3 DEF IInv
  <1>4. ASSUME WritePause PROVE IInv'
    <2>1. TypeOK'
      BY <1>0, <1>4, FilesOfFacts DEF WritePause, TypeOK, Procs
    <2>2. StageInv'
      BY <1>0, <1>4 DEF WritePause, StageInv, WritingInv, PublishingInv, RecoveringInv, WipingInv, Holds, Trusted, TypeOK
    <2>3. RecoversDurable' /\ MemoryIsDurable'
      BY <1>0, <1>4 DEF WritePause, RecoversDurable, MemoryIsDurable, WritingInv, Recovers, Holds, Trusted, TypeOK
    <2>4. QED
      BY <2>1, <2>2, <2>3 DEF IInv
  <1>5. ASSUME WritePauseFails PROVE IInv'
    <2>1. TypeOK' /\ StageInv'
      BY <1>0, <1>5, SnapshotAssumption DEF WritePauseFails, Return, TypeOK, Procs, StageInv, WritingInv, PublishingInv, RecoveringInv, WipingInv
    <2>2. RecoversDurable' /\ MemoryIsDurable'
      BY <1>0, <1>5 DEF WritePauseFails, Return, RecoversDurable, MemoryIsDurable, WritingInv, Recovers, Decodes, Holds, Trusted, TypeOK
    <2>3. QED
      BY <2>1, <2>2 DEF IInv
  <1>6. ASSUME NEW f \in Files, Publish(f) PROVE IInv'
    <2>1. TypeOK'
      BY <1>0, <1>6 DEF Publish, TypeOK
    <2>2. StageInv'
      BY <1>0, <1>6, FilesOfFacts DEF Publish, StageInv, WritingInv, PublishingInv, RecoveringInv, WipingInv, Holds, Trusted, TypeOK, NextToPublish
    <2>3. RecoversDurable' /\ MemoryIsDurable'
      BY <1>0, <1>6 DEF Publish, RecoversDurable, MemoryIsDurable, PublishingInv, Recovers, Holds, Trusted, TypeOK
    <2>4. QED
      BY <2>1, <2>2, <2>3 DEF IInv
  <1>7. ASSUME NEW f \in Files, PublishFails(f) PROVE IInv'
    <2>1. TypeOK'
      BY <1>0, <1>7, SnapshotAssumption DEF PublishFails, Return, TypeOK, Contents, Procs
    <2>2. StageInv'
      BY <1>0, <1>7 DEF PublishFails, Return, StageInv, WritingInv, PublishingInv, RecoveringInv, WipingInv, Trusted, TypeOK
    <2>3. RecoversDurable' /\ MemoryIsDurable'
      BY <1>0, <1>7 DEF PublishFails, Return, RecoversDurable, MemoryIsDurable, PublishingInv, Recovers, Holds, Trusted, TypeOK
    <2>4. QED
      BY <2>1, <2>2, <2>3 DEF IInv
  <1>8. ASSUME RemovePause PROVE IInv'
    <2>1. TypeOK' /\ StageInv'
      BY <1>0, <1>8, SnapshotAssumption DEF RemovePause, Return, TypeOK, Procs, StageInv, WritingInv, PublishingInv, RecoveringInv, WipingInv, Trusted
    <2>2. RecoversDurable' /\ MemoryIsDurable'
      BY <1>0, <1>8 DEF RemovePause, Return, RecoversDurable, MemoryIsDurable, PublishingInv, Recovers, Decodes, Holds, Trusted, TypeOK
    <2>3. QED
      BY <2>1, <2>2 DEF IInv
  <1>9. ASSUME RemovePauseFails PROVE IInv'
    <2>1. TypeOK' /\ StageInv'
      BY <1>0, <1>9, SnapshotAssumption DEF RemovePauseFails, Return, TypeOK, Procs, StageInv, WritingInv, PublishingInv, RecoveringInv, WipingInv, Trusted
    <2>2. RecoversDurable' /\ MemoryIsDurable'
      BY <1>0, <1>9 DEF RemovePauseFails, Return, RecoversDurable, MemoryIsDurable, PublishingInv, Recovers, Holds, Trusted, TypeOK
    <2>3. QED
      BY <2>1, <2>2 DEF IInv
  <1>10. QED
    BY <1>1, <1>2, <1>3, <1>4, <1>5, <1>6, <1>7, <1>8, <1>9 DEF SaveStep

\* A reset, whole or cut short, keeps the invariant (reset).
LEMMA ResetKeepsInv == IInv /\ ResetStep => IInv'
  <1> SUFFICES ASSUME IInv, ResetStep PROVE IInv'
    OBVIOUS
  <1> USE DEF history, disk
  <1>0. /\ TypeOK /\ StageInv /\ RecoversDurable /\ MemoryIsDurable
        /\ WritingInv /\ PublishingInv /\ RecoveringInv /\ WipingInv
        /\ proc = "loading" => ~pause
        /\ proc = "deleting" => wiping /\ memory = Empty
    BY DEF IInv, StageInv
  <1>1. ASSUME BeginReset PROVE IInv'
    <2>1. TypeOK'
      BY <1>0, <1>1, SnapshotAssumption DEF BeginReset, TypeOK, Contents, Procs
    <2>2. StageInv'
      BY <1>0, <1>1, SnapshotAssumption, FilesOfFacts, MetaIsFile DEF BeginReset, RecoversDurable, Recovers, Decodes, StageInv, WritingInv, PublishingInv, RecoveringInv, WipingInv, Holds, Trusted, TypeOK
    <2>3. RecoversDurable' /\ MemoryIsDurable'
      BY <1>0, <1>1, SnapshotAssumption DEF BeginReset, RecoversDurable, MemoryIsDurable, WritingInv, PublishingInv, RecoveringInv, Recovers, Decodes, Holds, Trusted, TypeOK
    <2>4. QED
      BY <2>1, <2>2, <2>3 DEF IInv
  <1>2. ASSUME NEW f \in Files, DeleteMain(f) PROVE IInv'
    <2>1. TypeOK'
      BY <1>0, <1>2 DEF DeleteMain, TypeOK, Contents, Procs
    <2>2. StageInv'
      BY <1>0, <1>2, FilesOfFacts, MetaIsFile DEF DeleteMain, StageInv, WritingInv, PublishingInv, RecoveringInv, WipingInv, Holds, Trusted, TypeOK
    <2>3. RecoversDurable' /\ MemoryIsDurable'
      BY <1>0, <1>2 DEF DeleteMain, RecoversDurable, MemoryIsDurable, WritingInv, PublishingInv, RecoveringInv, Recovers, Decodes, Holds, Trusted, TypeOK
    <2>4. QED
      BY <2>1, <2>2, <2>3 DEF IInv
  <1>3. ASSUME NEW f \in Files, DeleteTemporary(f) PROVE IInv'
    <2>1. TypeOK'
      BY <1>0, <1>3 DEF DeleteTemporary, TypeOK, Contents, Procs
    <2>2. StageInv'
      BY <1>0, <1>3 DEF DeleteTemporary, StageInv, WritingInv, PublishingInv, RecoveringInv, WipingInv, Holds, Trusted, TypeOK
    <2>3. RecoversDurable' /\ MemoryIsDurable'
      BY <1>0, <1>3 DEF DeleteTemporary, RecoversDurable, MemoryIsDurable, WritingInv, PublishingInv, RecoveringInv, Recovers, Decodes, Holds, Trusted, TypeOK
    <2>4. QED
      BY <2>1, <2>2, <2>3 DEF IInv
  <1>4. ASSUME DeletePause PROVE IInv'
    <2>1. TypeOK'
      BY <1>0, <1>4 DEF DeletePause, TypeOK, Contents, Procs
    <2>2. StageInv'
      BY <1>0, <1>4 DEF DeletePause, StageInv, WritingInv, PublishingInv, RecoveringInv, WipingInv, Holds, Trusted, TypeOK
    <2>3. RecoversDurable' /\ MemoryIsDurable'
      BY <1>0, <1>4 DEF DeletePause, RecoversDurable, MemoryIsDurable, WritingInv, PublishingInv, RecoveringInv, Recovers, Decodes, Holds, Trusted, TypeOK
    <2>4. QED
      BY <2>1, <2>2, <2>3 DEF IInv
  <1>5. ASSUME ResetFails PROVE IInv'
    <2>1. TypeOK'
      BY <1>0, <1>5 DEF ResetFails, TypeOK, Contents, Procs
    <2>2. StageInv'
      BY <1>0, <1>5 DEF ResetFails, StageInv, WritingInv, PublishingInv, RecoveringInv, WipingInv, Holds, Trusted, TypeOK
    <2>3. RecoversDurable' /\ MemoryIsDurable'
      BY <1>0, <1>5 DEF ResetFails, RecoversDurable, MemoryIsDurable, WritingInv, PublishingInv, RecoveringInv, Recovers, Decodes, Holds, Trusted, TypeOK
    <2>4. QED
      BY <2>1, <2>2, <2>3 DEF IInv
  <1>6. ASSUME EndReset PROVE IInv'
    <2>1. TypeOK'
      BY <1>0, <1>6, SnapshotAssumption DEF EndReset, Wiped, TypeOK, Contents, Procs
    <2>2. StageInv'
      BY <1>0, <1>6, FilesOfFacts, MetaIsFile, SnapshotAssumption DEF EndReset, Wiped, StageInv, WritingInv, PublishingInv, RecoveringInv, WipingInv, Holds, Trusted, TypeOK
    <2>3. RecoversDurable' /\ MemoryIsDurable'
      BY <1>0, <1>6, MetaIsFile, SnapshotAssumption DEF EndReset, Wiped, RecoversDurable, MemoryIsDurable, WritingInv, PublishingInv, RecoveringInv, Recovers, Decodes, Holds, Trusted, TypeOK
    <2>4. QED
      BY <2>1, <2>2, <2>3 DEF IInv
  <1>7. QED
    BY <1>1, <1>2, <1>3, <1>4, <1>5, <1>6 DEF ResetStep

\* When the files are trusted, decode_directory can only return the durable
\* generation: no other decodes, and there is no mixture to misread.
LEMMA LoadIsDurable ==
  ASSUME IInv, NEW s \in Snapshots, Load(s), Trusted
  PROVE  s = durable
  <1>1. Decodes(durable) /\ durable \in Snapshots
    BY DEF IInv, StageInv, RecoversDurable, Recovers, TypeOK, Load
  <1>2. Meta \in FilesOf(s) /\ Meta \in FilesOf(durable)
    BY <1>1, FilesOfFacts
  <1>3. QED
    BY <1>1, <1>2, SnapshotAssumption DEF Load, Decodes, Holds, Mixture

\* An open keeps the invariant, however its recovery ends (open_with_clock).
LEMMA OpenKeepsInv == IInv /\ OpenStep => IInv'
  <1> SUFFICES ASSUME IInv, OpenStep PROVE IInv'
    OBVIOUS
  <1> USE DEF history, disk
  <1>0. /\ TypeOK /\ StageInv /\ RecoversDurable /\ MemoryIsDurable
        /\ WritingInv /\ PublishingInv /\ RecoveringInv /\ WipingInv
        /\ proc = "loading" => ~pause
        /\ proc = "deleting" => wiping /\ memory = Empty
    BY DEF IInv, StageInv
  <1>1. ASSUME NEW m \in Modes, Open(m) PROVE IInv'
    <2>1. TypeOK'
      BY <1>0, <1>1, SnapshotAssumption DEF Open, UsesMemory, TypeOK, Procs, Files
    <2>2. StageInv'
      BY <1>0, <1>1, FilesOfFacts, SnapshotAssumption DEF Open, UsesMemory, StageInv, WritingInv, PublishingInv, RecoveringInv, WipingInv, RecoversDurable, Recovers, Holds, Trusted, TypeOK
    <2>3. RecoversDurable' /\ MemoryIsDurable'
      BY <1>0, <1>1, SnapshotAssumption DEF Open, UsesMemory, RecoversDurable, MemoryIsDurable, WritingInv, PublishingInv, RecoveringInv, Recovers, Decodes, Holds, Trusted, TypeOK
    <2>4. QED
      BY <2>1, <2>2, <2>3 DEF IInv
  <1>2. ASSUME NEW f \in Files, RecoverFile(f) PROVE IInv'
    <2>1. TypeOK'
      BY <1>0, <1>2 DEF RecoverFile, NextToPublish, TypeOK, Contents, Procs
    <2>2. StageInv'
      BY <1>0, <1>2, FilesOfFacts DEF RecoverFile, NextToPublish, StageInv, WritingInv, PublishingInv, RecoveringInv, WipingInv, RecoversDurable, Recovers, Holds, Trusted, TypeOK
    <2>3. RecoversDurable' /\ MemoryIsDurable'
      BY <1>0, <1>2 DEF RecoverFile, NextToPublish, RecoversDurable, MemoryIsDurable, WritingInv, PublishingInv, RecoveringInv, Recovers, Decodes, Holds, Trusted, TypeOK
    <2>4. QED
      BY <2>1, <2>2, <2>3 DEF IInv
  <1>3. ASSUME NEW f \in Files, RecoverFails(f) PROVE IInv'
    <2>1. TypeOK'
      BY <1>0, <1>3, SnapshotAssumption DEF RecoverFails, Exit, TypeOK, Contents, Procs, Modes
    <2>2. StageInv'
      BY <1>0, <1>3 DEF RecoverFails, Exit, StageInv, WritingInv, PublishingInv, RecoveringInv, WipingInv, Holds, Trusted, TypeOK
    <2>3. RecoversDurable' /\ MemoryIsDurable'
      BY <1>0, <1>3 DEF RecoverFails, Exit, RecoversDurable, MemoryIsDurable, WritingInv, PublishingInv, RecoveringInv, Recovers, Decodes, Holds, Trusted, TypeOK
    <2>4. QED
      BY <2>1, <2>2, <2>3 DEF IInv
  <1>4. ASSUME EndRecovery PROVE IInv'
    <2>1. TypeOK'
      BY <1>0, <1>4 DEF EndRecovery, TypeOK, Contents, Procs
    <2>2. StageInv'
      BY <1>0, <1>4 DEF EndRecovery, StageInv, WritingInv, PublishingInv, RecoveringInv, WipingInv, Holds, Trusted, TypeOK
    <2>3. RecoversDurable' /\ MemoryIsDurable'
      BY <1>0, <1>4 DEF EndRecovery, RecoversDurable, MemoryIsDurable, WritingInv, PublishingInv, RecoveringInv, Recovers, Decodes, Holds, Trusted, TypeOK
    <2>4. QED
      BY <2>1, <2>2, <2>3 DEF IInv
  <1>5. ASSUME EndRecoveryFails PROVE IInv'
    <2>1. TypeOK'
      BY <1>0, <1>5, SnapshotAssumption DEF EndRecoveryFails, Exit, TypeOK, Procs, Modes
    <2>2. StageInv'
      BY <1>0, <1>5 DEF EndRecoveryFails, Exit, StageInv, WritingInv, PublishingInv, RecoveringInv, WipingInv, Holds, Trusted, TypeOK
    <2>3. RecoversDurable' /\ MemoryIsDurable'
      BY <1>0, <1>5 DEF EndRecoveryFails, Exit, RecoversDurable, MemoryIsDurable, WritingInv, PublishingInv, RecoveringInv, Recovers, Decodes, Holds, Trusted, TypeOK
    <2>4. QED
      BY <2>1, <2>2, <2>3 DEF IInv
  <1>6. ASSUME NEW s \in Snapshots, Load(s) PROVE IInv'
    <2>1. TypeOK'
      BY <1>0, <1>6 DEF Load, TypeOK, Contents, Procs
    <2>2. StageInv'
      BY <1>0, <1>6 DEF Load, StageInv, WritingInv, PublishingInv, RecoveringInv, WipingInv, Holds, Trusted, TypeOK
    <2>3. RecoversDurable' /\ MemoryIsDurable'
      BY <1>0, <1>6, LoadIsDurable DEF Load, RecoversDurable, MemoryIsDurable, WritingInv, PublishingInv, RecoveringInv, Recovers, Decodes, Holds, Trusted, TypeOK
    <2>4. QED
      BY <2>1, <2>2, <2>3 DEF IInv
  <1>7. ASSUME LoadFails PROVE IInv'
    <2>1. TypeOK'
      BY <1>0, <1>7, SnapshotAssumption DEF LoadFails, Exit, TypeOK, Procs, Modes
    <2>2. StageInv'
      BY <1>0, <1>7 DEF LoadFails, Exit, StageInv, WritingInv, PublishingInv, RecoveringInv, WipingInv, Holds, Trusted, TypeOK
    <2>3. RecoversDurable' /\ MemoryIsDurable'
      BY <1>0, <1>7 DEF LoadFails, Exit, RecoversDurable, MemoryIsDurable, WritingInv, PublishingInv, RecoveringInv, Recovers, Decodes, Holds, Trusted, TypeOK
    <2>4. QED
      BY <2>1, <2>2, <2>3 DEF IInv
  <1>8. QED
    BY <1>1, <1>2, <1>3, <1>4, <1>5, <1>6, <1>7 DEF OpenStep

\* So does the death of the process at any point, a torn write included.
LEMMA CrashKeepsInv == IInv /\ Crash => IInv'
  <1> SUFFICES ASSUME IInv, Crash PROVE IInv'
    OBVIOUS
  <1> USE DEF history, disk
  <1>0. /\ TypeOK /\ StageInv /\ RecoversDurable /\ MemoryIsDurable
        /\ WritingInv /\ PublishingInv /\ RecoveringInv /\ WipingInv
        /\ proc = "loading" => ~pause
        /\ proc = "deleting" => wiping /\ memory = Empty
    BY DEF IInv, StageInv
  <1>1. TypeOK'
    BY <1>0, SnapshotAssumption DEF Crash, Exit, TypeOK, Contents, Procs, Modes
  <1>2. StageInv'
    BY <1>0 DEF Crash, Exit, StageInv, WritingInv, PublishingInv, RecoveringInv, WipingInv, Holds, Trusted, TypeOK
  <1>3. RecoversDurable' /\ MemoryIsDurable'
    BY <1>0 DEF Crash, Exit, RecoversDurable, MemoryIsDurable, WritingInv, PublishingInv, RecoveringInv, Recovers, Decodes, Holds, Trusted, TypeOK
  <1>4. QED
    BY <1>1, <1>2, <1>3 DEF IInv

\* The inductive invariant holds in every reachable state.
THEOREM Inductive == Spec => []IInv
  <1>1. Init => IInv
    <2> SUFFICES ASSUME Init PROVE IInv
      OBVIOUS
    <2>1. TypeOK
      BY SnapshotAssumption DEF Init, TypeOK, Contents, Procs, Modes
    <2>2. StageInv
      BY DEF Init, StageInv, WritingInv, PublishingInv, RecoveringInv, WipingInv
    <2>3. RecoversDurable /\ MemoryIsDurable
      BY MetaIsFile DEF Init, RecoversDurable, MemoryIsDurable, Recovers, Decodes
    <2>4. QED
      BY <2>1, <2>2, <2>3 DEF IInv
  <1>2. IInv /\ UNCHANGED vars => IInv'
    BY DEF vars, IInv, StageInv, WritingInv, PublishingInv, RecoveringInv, WipingInv, Holds, Trusted, TypeOK, RecoversDurable, MemoryIsDurable, Recovers, Decodes
  <1>3. IInv /\ [Next]_vars => IInv'
    BY <1>2, SaveKeepsInv, ResetKeepsInv, OpenKeepsInv, CrashKeepsInv DEF Next
  <1>4. QED
    BY <1>1, <1>3, PTL DEF Spec

\* Every variable keeps its type (LearningState and the directory).
THEOREM TypeCorrect == Spec => []TypeOK
  <1>1. IInv => TypeOK
    BY DEF IInv
  <1>2. QED
    BY <1>1, Inductive, PTL

\* Wherever a save or a recovery is cut, the next open finds the generation of
\* the last save that reached .pause (save_records, recover_if_paused).
THEOREM CrashSafe == Spec => []RecoversDurable
  <1>1. IInv => RecoversDurable
    BY DEF IInv
  <1>2. QED
    BY <1>1, Inductive, PTL

\* decode_directory meets no mixture of generations, even after a reset was
\* killed half way, unless a save or a reset began over the .pause that an
\* unfinished save had left (lingered).
THEOREM NoMixture == Spec => []NeverLoadsMixture
  <1>1. IInv => NeverLoadsMixture
    <2> SUFFICES ASSUME IInv, proc = "loading", ~lingered, Mixture PROVE FALSE
      BY DEF NeverLoadsMixture
    <2>1. ~pause /\ durable \in Snapshots /\ Meta \in FilesOf(durable)
      BY FilesOfFacts DEF IInv, StageInv, TypeOK
    <2>2. CASE wiping
      BY <2>1, <2>2, SnapshotAssumption DEF IInv, StageInv, WipingInv, Mixture, Holds
    <2>3. CASE ~wiping
      BY <2>1, <2>3, SnapshotAssumption
         DEF IInv, RecoversDurable, Trusted, Recovers, Decodes, Mixture, Holds
    <2>4. QED
      BY <2>2, <2>3
  <1>2. QED
    BY <1>1, Inductive, PTL

\* Outside a save, and unless one stopped half published, the records in
\* memory are the ones a restart would load (commit, forget, open).
THEOREM MemoryAgrees == Spec => []MemoryIsDurable
  <1>1. IInv => MemoryIsDurable
    BY DEF IInv
  <1>2. QED
    BY <1>1, Inductive, PTL

\* The files implement AtomicStore: .pause is where a save takes effect, a load
\* where a start does, and every other file operation is invisible.
THEOREM Refinement == Spec => ImplementsAtomicStore
  <1> USE DEF history, disk, Store!vars, Trusted
  <1>1. Init => Store!Init
    BY DEF Init, Store!Init
  <1>2. ASSUME IInv, SaveStep PROVE [Store!Next]_Store!vars
    <2>1. ASSUME NEW s \in Snapshots, BeginSave(s) PROVE [Store!Next]_Store!vars
      BY <2>1 DEF BeginSave, Store!Next, Store!Doubt, UpdatesMemory
    <2>2. ASSUME WritePause PROVE [Store!Next]_Store!vars
      <3>1. saving \in Snapshots /\ UsesMemory(mode) /\ memory \in Snapshots
        BY <1>2, <2>2 DEF IInv, StageInv, WritingInv, TypeOK, WritePause
      <3>2. Store!Save(saving)
        BY <2>2, <3>1, SnapshotAssumption DEF WritePause, Store!Save, UsesMemory
      <3>3. QED
        BY <3>1, <3>2 DEF Store!Next
    <2>3. ASSUME RemovePause PROVE [Store!Next]_Store!vars
      BY <1>2, <2>3, SnapshotAssumption
         DEF RemovePause, Return, IInv, StageInv, PublishingInv, TypeOK, Store!Next, Store!Settle
    <2>4. ASSUME NEW f \in Files,
                 WriteTemporary(f) \/ WriteTemporaryFails(f) \/ Publish(f) \/ PublishFails(f)
          PROVE  [Store!Next]_Store!vars
      BY <2>4 DEF WriteTemporary, WriteTemporaryFails, Publish, PublishFails, Return
    <2>5. ASSUME WritePauseFails \/ RemovePauseFails PROVE [Store!Next]_Store!vars
      BY <2>5 DEF WritePauseFails, RemovePauseFails, Return
    <2>6. QED
      BY <1>2, <2>1, <2>2, <2>3, <2>4, <2>5 DEF SaveStep
  <1>3. ASSUME IInv, ResetStep PROVE [Store!Next]_Store!vars
    <2>1. ASSUME BeginReset PROVE [Store!Next]_Store!vars
      BY <1>3, <2>1, SnapshotAssumption DEF BeginReset, IInv, TypeOK, Store!Next, Store!Doubt
    <2>2. ASSUME EndReset PROVE [Store!Next]_Store!vars
      BY <2>2 DEF EndReset, Store!Next, Store!Wipe
    <2>3. ASSUME DeletePause \/ ResetFails PROVE [Store!Next]_Store!vars
      BY <2>3 DEF DeletePause, ResetFails
    <2>4. ASSUME NEW f \in Files, DeleteMain(f) \/ DeleteTemporary(f)
          PROVE  [Store!Next]_Store!vars
      BY <2>4 DEF DeleteMain, DeleteTemporary
    <2>5. QED
      BY <1>3, <2>1, <2>2, <2>3, <2>4 DEF ResetStep
  <1>4. ASSUME IInv, OpenStep PROVE [Store!Next]_Store!vars
    <2>1. ASSUME NEW m \in Modes, Open(m) PROVE [Store!Next]_Store!vars
      BY <2>1 DEF Open, UsesMemory
    <2>2. ASSUME NEW f \in Files, RecoverFile(f) \/ RecoverFails(f)
          PROVE  [Store!Next]_Store!vars
      BY <2>2 DEF RecoverFile, RecoverFails, Exit
    <2>3. ASSUME EndRecovery \/ EndRecoveryFails \/ LoadFails
          PROVE  [Store!Next]_Store!vars
      BY <2>3 DEF EndRecovery, EndRecoveryFails, LoadFails, Exit
    <2>4. ASSUME NEW s \in Snapshots, Load(s) PROVE [Store!Next]_Store!vars
      <3>1. Trusted => s = durable
        BY <1>4, <2>4, LoadIsDurable
      <3>2. QED
        BY <2>4, <3>1 DEF Load, Store!Next, Store!Start
    <2>5. QED
      BY <1>4, <2>1, <2>2, <2>3, <2>4 DEF OpenStep
  <1>5. ASSUME Crash PROVE [Store!Next]_Store!vars
    BY <1>5 DEF Crash, Exit, Store!Next, Store!Stop
  <1>6. IInv /\ [Next]_vars => [Store!Next]_Store!vars
    <2>1. UNCHANGED vars => UNCHANGED Store!vars
      BY DEF vars
    <2>2. QED
      BY <1>2, <1>3, <1>4, <1>5, <2>1 DEF Next
  <1>7. QED
    BY <1>1, <1>6, Inductive, PTL DEF Spec, Store!Spec, ImplementsAtomicStore
==============================================================================
