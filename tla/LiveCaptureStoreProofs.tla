----------------------- MODULE LiveCaptureStoreProofs -----------------------
(***************************************************************************)
(* Proofs about LiveCaptureStore for every number of chunks and of faults. *)
(***************************************************************************)
EXTENDS LiveCaptureStore, TLAPS

-----------------------------------------------------------------------------
(* The records.                                                            *)

(* The counters of a manifest are numbers.                                 *)
LEMMA CommittedType ==
  ASSUME NEW m \in Manifest
  PROVE  m.committed_chunks \in Nat /\ m.first_sequence \in Nat
BY DEF Manifest

(* A commit of one more chunk, as in append, gives a manifest.             *)
LEMMA ManifestCommitted ==
  ASSUME NEW m \in Manifest
  PROVE  Committed(m) \in Manifest
<1>1. m.committed_chunks + 1 \in Nat
  BY CommittedType
<1> QED
  BY <1>1 DEF Manifest, Committed

(* Sealing, as in finalize and in the scan, gives a manifest.              *)
LEMMA ManifestSealed ==
  ASSUME NEW m \in Manifest
  PROVE  [m EXCEPT !.finalized = TRUE] \in Manifest
BY DEF Manifest

(* Moving the first chunk, as in reclaim_before, gives a manifest.         *)
LEMMA ManifestTrimmed ==
  ASSUME NEW m \in Manifest, NEW n \in Nat
  PROVE  [m EXCEPT !.first_sequence = n] \in Manifest
BY DEF Manifest

(* The missing manifest and the fresh one are manifests.                   *)
LEMMA NoManifestType ==
  NoManifest \in Manifest /\ [NoManifest EXCEPT !.exists = TRUE] \in Manifest
BY DEF Manifest, NoManifest

(* The outcomes the actions write are outcomes.                            *)
LEMMA OutcomeValues ==
  {"InProgress", "Complete", "Stopped", "Aborted", "Incomplete"} \subseteq Outcome
BY DEF Outcome, Terminal

(* The updates of the session's metadata give metadata.                    *)
LEMMA MetadataUpdate ==
  ASSUME NEW m \in Metadata, NEW o \in Outcome, NEW n \in Nat
  PROVE  /\ [m EXCEPT !.outcome = o] \in Metadata
         /\ [m EXCEPT !.retained_start_sample = n] \in Metadata
         /\ [outcome |-> o, retained_start_sample |-> 0] \in Metadata
BY DEF Metadata

(* The missing metadata are metadata.                                      *)
LEMMA NoMetadataType == NoMetadata \in Metadata
BY DEF Metadata, NoMetadata

(***************************************************************************)
(* TypeOK in parts.                                                        *)
(***************************************************************************)
Argument == [outcome : Outcome, safe_sample : Nat]

(* The arguments an operation keeps are outcomes and samples.              *)
LEMMA ArgumentUpdate ==
  ASSUME NEW a \in Argument, NEW o \in Outcome, NEW n \in Nat
  PROVE  /\ [a EXCEPT !.outcome = o] \in Argument
         /\ [a EXCEPT !.safe_sample = n] \in Argument
         /\ a.outcome \in Outcome /\ a.safe_sample \in Nat
BY DEF Argument

DurableType ==
  chunks \subseteq Nat /\ manifest \in Manifest /\ metadata \in Metadata /\ plan \in BOOLEAN

HandleType == state \in Manifest /\ writer_open \in BOOLEAN /\ writer_failure \in BOOLEAN

StepType == step \in Step /\ argument \in Argument /\ sequence \in Nat

ReaderType ==
  cursor \in {"none", "open", "reading", "ended", "failed"} /\ next_sequence \in Nat

HistoryType ==
  /\ created \in BOOLEAN /\ acknowledged \in Nat /\ produced \in Nat
  /\ cut \in BOOLEAN /\ faults \in Nat

-----------------------------------------------------------------------------
(* The inductive invariant.                                                *)

(***************************************************************************)
(* What the manifest says of itself, and what came before it.              *)
(***************************************************************************)
ManifestOK ==
  /\ manifest.exists => created
  /\ ~manifest.exists => manifest = NoManifest
  /\ manifest.first_sequence <= manifest.committed_chunks
  /\ ~created => acknowledged = 0 /\ produced = 0 /\ metadata = NoMetadata

(***************************************************************************)
(* What each place of an operation knows: the capture worker's handle is   *)
(* the manifest of a session that is not sealed yet, reclamation works on  *)
(* a sealed one, and a writer is open only while recording.                *)
(***************************************************************************)
Writing == step \in {"recording", "appending", "finished"}

PlaceOK ==
  /\ step = "creating" =>
       /\ manifest.exists /\ ~manifest.finalized
       /\ manifest.first_sequence = 0 /\ manifest.committed_chunks = 0
       /\ acknowledged = 0 /\ metadata.outcome # "Complete"
  /\ Writing =>
       /\ manifest.exists /\ ~manifest.finalized /\ state = manifest
       /\ manifest.first_sequence = 0
       /\ metadata.outcome = "InProgress"
  /\ writer_open <=> step \in {"recording", "appending"}
  /\ step = "appending" => state.committed_chunks \in chunks
  /\ step = "finalizing" => manifest.exists /\ manifest.finalized /\ state = manifest
  /\ step = "recovering" =>
       manifest.exists /\ ~manifest.finalized /\ metadata.outcome = "Incomplete"
  /\ step \in {"reclaiming", "trimming"} =>
       manifest.exists /\ manifest.finalized /\ state = manifest
  /\ step = "reclaiming" =>
       state.first_sequence <= sequence /\ sequence <= state.committed_chunks
  /\ step = "discarding" => manifest.exists

(***************************************************************************)
(* The chunks the manifest names are there, those below the place of a     *)
(* running reclamation excepted, until a removal is cut short.             *)
(***************************************************************************)
Kept(s) == s \in Nat /\ manifest.first_sequence <= s /\ s < manifest.committed_chunks

StoredOK ==
  /\ manifest.exists => acknowledged <= manifest.committed_chunks
  /\ ~cut /\ step # "discarding" =>
       \A s : Kept(s) /\ (step = "reclaiming" => sequence <= s) => s \in chunks

(***************************************************************************)
(* Without a failed write the session holds all that was produced.         *)
(***************************************************************************)
OutcomeOK ==
  /\ Writing /\ ~writer_failure =>
       produced = IF step = "appending" THEN state.committed_chunks + 1
                  ELSE state.committed_chunks
  /\ step = "creating" => metadata = NoMetadata /\ produced = 0
  /\ step = "finalizing" => manifest.committed_chunks = produced
  /\ metadata.outcome = "Complete" =>
       manifest.finalized /\ manifest.committed_chunks = produced

(***************************************************************************)
(* A pinned session is not being removed, and the handle of its reader     *)
(* agrees with the manifest on what there is.                              *)
(***************************************************************************)
ReaderOK ==
  /\ cursor # "none" =>
       /\ manifest.exists
       /\ ~Removing /\ step \notin {"creating", "trimming"}
       /\ state.first_sequence = manifest.first_sequence
       /\ state.committed_chunks = manifest.committed_chunks
       /\ state.first_sequence <= next_sequence
       /\ next_sequence <= state.committed_chunks
  /\ cursor = "reading" => next_sequence < state.committed_chunks
  /\ cursor = "failed" => cut
  /\ cursor = "ended" => next_sequence = state.committed_chunks /\ ~writer_open

StoreInv == TypeOK /\ ManifestOK /\ PlaceOK /\ StoredOK /\ OutcomeOK /\ ReaderOK

-----------------------------------------------------------------------------
(***************************************************************************)
(* Types.                                                                  *)
(***************************************************************************)
LEMMA TypeStep == StoreInv /\ [Next]_vars => TypeOK'
<1> SUFFICES ASSUME StoreInv, [Next]_vars PROVE TypeOK'
  OBVIOUS
<1> USE StoreAssumption, OutcomeValues, NoManifestType, NoMetadataType, CommittedType,
        ArgumentUpdate, MetadataUpdate, ManifestCommitted, ManifestSealed, ManifestTrimmed
    DEF StoreInv, TypeOK, Argument, Step
<1>1. CASE CreateManifest
  BY <1>1 DEF CreateManifest, durable, handle, reader, history
<1>2. CASE CreateMetadata
  BY <1>2 DEF CreateMetadata, durable, handle, reader, history
<1>3. CASE PublishChunk
  <2>1. DurableType'
    BY <1>3 DEF DurableType, PublishChunk, ChunkStored, durable, handle, reader, history
  <2>2. HandleType'
    BY <1>3 DEF HandleType, PublishChunk, ChunkStored, durable, handle, reader, history
  <2>3. StepType'
    BY <1>3 DEF StepType, PublishChunk, ChunkStored, durable, handle, reader, history
  <2>4. ReaderType'
    BY <1>3 DEF ReaderType, PublishChunk, ChunkStored, durable, handle, reader, history
  <2>5. HistoryType'
    BY <1>3 DEF HistoryType, PublishChunk, ChunkStored, durable, handle, reader, history
  <2> QED
    BY <2>1, <2>2, <2>3, <2>4, <2>5 DEF DurableType, HandleType, StepType, ReaderType,
       HistoryType
<1>4. CASE PublishCommit
  <2>1. DurableType'
    BY <1>4 DEF DurableType, PublishCommit, durable, handle, reader, history
  <2>2. HandleType'
    BY <1>4 DEF HandleType, PublishCommit, durable, handle, reader, history
  <2>3. StepType'
    BY <1>4 DEF StepType, PublishCommit, durable, handle, reader, history
  <2>4. ReaderType'
    BY <1>4 DEF ReaderType, PublishCommit, durable, handle, reader, history
  <2>5. HistoryType'
    BY <1>4 DEF HistoryType, PublishCommit, durable, handle, reader, history
  <2> QED
    BY <2>1, <2>2, <2>3, <2>4, <2>5 DEF DurableType, HandleType, StepType, ReaderType,
       HistoryType
<1>5. CASE Finish
  BY <1>5 DEF Finish, durable, handle, reader, history
<1>6. CASE \E outcome \in {"Complete", "Stopped", "Aborted"} : FinalizeManifest(outcome)
  <2>1. DurableType'
    BY <1>6 DEF DurableType, FinalizeManifest, Sealable, durable, handle, reader, history
  <2>2. HandleType'
    BY <1>6 DEF HandleType, FinalizeManifest, Sealable, durable, handle, reader, history
  <2>3. StepType'
    BY <1>6 DEF StepType, FinalizeManifest, Sealable, durable, handle, reader, history
  <2>4. ReaderType'
    BY <1>6 DEF ReaderType, FinalizeManifest, Sealable, durable, handle, reader, history
  <2>5. HistoryType'
    BY <1>6 DEF HistoryType, FinalizeManifest, Sealable, durable, handle, reader, history
  <2> QED
    BY <2>1, <2>2, <2>3, <2>4, <2>5 DEF DurableType, HandleType, StepType, ReaderType,
       HistoryType
<1>7. CASE FinalizeMetadata
  BY <1>7 DEF FinalizeMetadata, durable, handle, reader, history
<1>8. CASE RecoverMetadata
  BY <1>8 DEF RecoverMetadata, Interrupted, durable, handle, reader, history
<1>9. CASE RecoverManifest
  BY <1>9 DEF RecoverManifest, durable, handle, reader, history
<1>10. CASE Open
  BY <1>10 DEF Open, IsPinned, durable, handle, reader, history
<1>11. CASE \E safe_sample \in 0 .. MaxChunks : Reclaim(safe_sample)
  <2>1. DurableType'
    BY <1>11 DEF DurableType, Reclaim, IsPinned, durable, handle, reader, history
  <2>2. HandleType'
    BY <1>11 DEF HandleType, Reclaim, IsPinned, durable, handle, reader, history
  <2>3. StepType'
    BY <1>11 DEF StepType, Reclaim, IsPinned, durable, handle, reader, history
  <2>4. ReaderType'
    BY <1>11 DEF ReaderType, Reclaim, IsPinned, durable, handle, reader, history
  <2>5. HistoryType'
    BY <1>11 DEF HistoryType, Reclaim, IsPinned, durable, handle, reader, history
  <2> QED
    BY <2>1, <2>2, <2>3, <2>4, <2>5 DEF DurableType, HandleType, StepType, ReaderType,
       HistoryType
<1>12. CASE ReclaimChunk
  BY <1>12 DEF ReclaimChunk, Reclaimable, durable, handle, reader, history
<1>13. CASE ReclaimManifest
  <2>1. DurableType'
    BY <1>13 DEF DurableType, ReclaimManifest, Reclaimable, Trimmed, durable, handle,
       reader, history
  <2>2. HandleType'
    BY <1>13 DEF HandleType, ReclaimManifest, Reclaimable, Trimmed, durable, handle, reader,
       history
  <2>3. StepType'
    BY <1>13 DEF StepType, ReclaimManifest, Reclaimable, Trimmed, durable, handle, reader,
       history
  <2>4. ReaderType'
    BY <1>13 DEF ReaderType, ReclaimManifest, Reclaimable, Trimmed, durable, handle, reader,
       history
  <2>5. HistoryType'
    BY <1>13 DEF HistoryType, ReclaimManifest, Reclaimable, Trimmed, durable, handle,
       reader, history
  <2> QED
    BY <2>1, <2>2, <2>3, <2>4, <2>5 DEF DurableType, HandleType, StepType, ReaderType,
       HistoryType
<1>14. CASE ReclaimMetadata
  BY <1>14 DEF ReclaimMetadata, durable, handle, reader, history
<1>15. CASE Discard
  BY <1>15 DEF Discard, IsPinned, durable, handle, reader, history
<1>16. CASE RemoveArtifact
  <2>1. DurableType'
    BY <1>16 DEF DurableType, RemoveArtifact, durable, handle, reader, history
  <2>2. HandleType'
    BY <1>16 DEF HandleType, RemoveArtifact, durable, handle, reader, history
  <2>3. StepType'
    BY <1>16 DEF StepType, RemoveArtifact, durable, handle, reader, history
  <2>4. ReaderType'
    BY <1>16 DEF ReaderType, RemoveArtifact, durable, handle, reader, history
  <2>5. HistoryType'
    BY <1>16 DEF HistoryType, RemoveArtifact, durable, handle, reader, history
  <2> QED
    BY <2>1, <2>2, <2>3, <2>4, <2>5 DEF DurableType, HandleType, StepType, ReaderType,
       HistoryType
<1>17. CASE OpenCursor
  BY <1>17 DEF OpenCursor, durable, handle, reader, history
<1>18. CASE CursorItem
  BY <1>18 DEF CursorItem, AtEnd, Position, durable, handle, reader, history
<1>19. CASE ReadChunk
  BY <1>19 DEF ReadChunk, durable, handle, reader, history
<1>20. CASE CloseCursor
  BY <1>20 DEF CloseCursor, durable, handle, reader, history
<1>21. CASE OperationFails
  BY <1>21 DEF OperationFails, Removing, durable, handle, reader, history
<1>22. CASE Crash
  <2>1. DurableType'
    BY <1>22 DEF DurableType, Crash, Removing, durable, handle, reader, history
  <2>2. HandleType'
    BY <1>22 DEF HandleType, Crash, Removing, durable, handle, reader, history
  <2>3. StepType'
    BY <1>22 DEF StepType, Crash, Removing, durable, handle, reader, history
  <2>4. ReaderType'
    BY <1>22 DEF ReaderType, Crash, Removing, durable, handle, reader, history
  <2>5. HistoryType'
    BY <1>22 DEF HistoryType, Crash, Removing, durable, handle, reader, history
  <2> QED
    BY <2>1, <2>2, <2>3, <2>4, <2>5 DEF DurableType, HandleType, StepType, ReaderType,
       HistoryType
<1>23. CASE UNCHANGED vars
  BY <1>23 DEF vars, durable, handle, reader, history
<1> QED
  BY <1>1, <1>2, <1>3, <1>4, <1>5, <1>6, <1>7, <1>8, <1>9, <1>10, <1>11, <1>12, <1>13,
     <1>14, <1>15, <1>16, <1>17, <1>18, <1>19, <1>20, <1>21, <1>22, <1>23
     DEF Next, Capture, Recovery, Maintenance, Reader

(***************************************************************************)
(* The manifest.                                                           *)
(***************************************************************************)
LEMMA ManifestStep == StoreInv /\ [Next]_vars => ManifestOK'
<1> SUFFICES ASSUME StoreInv, [Next]_vars PROVE ManifestOK'
  OBVIOUS
<1> USE StoreAssumption
    DEF StoreInv, TypeOK, Committed, ManifestOK, PlaceOK, Writing, Manifest, Metadata,
       NoManifest, NoMetadata
<1>1. CASE CreateManifest
  BY <1>1 DEF CreateManifest, durable, handle, reader, history
<1>2. CASE CreateMetadata
  BY <1>2 DEF CreateMetadata, durable, handle, reader, history
<1>3. CASE PublishChunk
  BY <1>3 DEF PublishChunk, ChunkStored, durable, handle, reader, history
<1>4. CASE PublishCommit
  BY <1>4 DEF PublishCommit, durable, handle, reader, history
<1>5. CASE Finish
  BY <1>5 DEF Finish, durable, handle, reader, history
<1>6. CASE \E outcome \in {"Complete", "Stopped", "Aborted"} : FinalizeManifest(outcome)
  BY <1>6 DEF FinalizeManifest, Sealable, durable, handle, reader, history
<1>7. CASE FinalizeMetadata
  BY <1>7 DEF FinalizeMetadata, durable, handle, reader, history
<1>8. CASE RecoverMetadata
  BY <1>8 DEF RecoverMetadata, Interrupted, durable, handle, reader, history
<1>9. CASE RecoverManifest
  BY <1>9 DEF RecoverManifest, durable, handle, reader, history
<1>10. CASE Open
  BY <1>10 DEF Open, IsPinned, durable, handle, reader, history
<1>11. CASE \E safe_sample \in 0 .. MaxChunks : Reclaim(safe_sample)
  BY <1>11 DEF Reclaim, IsPinned, durable, handle, reader, history
<1>12. CASE ReclaimChunk
  BY <1>12 DEF ReclaimChunk, Reclaimable, durable, handle, reader, history
<1>13. CASE ReclaimManifest
  BY <1>13 DEF ReclaimManifest, Reclaimable, Trimmed, durable, handle, reader, history
<1>14. CASE ReclaimMetadata
  BY <1>14 DEF ReclaimMetadata, durable, handle, reader, history
<1>15. CASE Discard
  BY <1>15 DEF Discard, IsPinned, durable, handle, reader, history
<1>16. CASE RemoveArtifact
  BY <1>16 DEF RemoveArtifact, durable, handle, reader, history
<1>17. CASE OpenCursor
  BY <1>17 DEF OpenCursor, durable, handle, reader, history
<1>18. CASE CursorItem
  BY <1>18 DEF CursorItem, AtEnd, Position, durable, handle, reader, history
<1>19. CASE ReadChunk
  BY <1>19 DEF ReadChunk, durable, handle, reader, history
<1>20. CASE CloseCursor
  BY <1>20 DEF CloseCursor, durable, handle, reader, history
<1>21. CASE OperationFails
  BY <1>21 DEF OperationFails, Removing, durable, handle, reader, history
<1>22. CASE Crash
  BY <1>22 DEF Crash, Removing, durable, handle, reader, history
<1>23. CASE UNCHANGED vars
  BY <1>23 DEF vars, durable, handle, reader, history
<1> QED
  BY <1>1, <1>2, <1>3, <1>4, <1>5, <1>6, <1>7, <1>8, <1>9, <1>10, <1>11, <1>12, <1>13,
     <1>14, <1>15, <1>16, <1>17, <1>18, <1>19, <1>20, <1>21, <1>22, <1>23
     DEF Next, Capture, Recovery, Maintenance, Reader

(***************************************************************************)
(* The places of the operations.                                           *)
(***************************************************************************)
LEMMA PlaceStep == StoreInv /\ [Next]_vars => PlaceOK'
<1> SUFFICES ASSUME StoreInv, [Next]_vars PROVE PlaceOK'
  OBVIOUS
<1> USE StoreAssumption
    DEF StoreInv, TypeOK, Committed, ManifestOK, PlaceOK, Writing, Manifest, Metadata,
       NoManifest, NoMetadata, Step
<1>1. CASE CreateManifest
  BY <1>1 DEF CreateManifest, durable, handle, reader, history
<1>2. CASE CreateMetadata
  BY <1>2 DEF CreateMetadata, durable, handle, reader, history
<1>3. CASE PublishChunk
  BY <1>3 DEF PublishChunk, ChunkStored, durable, handle, reader, history
<1>4. CASE PublishCommit
  BY <1>4 DEF PublishCommit, durable, handle, reader, history
<1>5. CASE Finish
  BY <1>5 DEF Finish, durable, handle, reader, history
<1>6. CASE \E outcome \in {"Complete", "Stopped", "Aborted"} : FinalizeManifest(outcome)
  BY <1>6 DEF FinalizeManifest, Sealable, durable, handle, reader, history
<1>7. CASE FinalizeMetadata
  BY <1>7 DEF FinalizeMetadata, durable, handle, reader, history
<1>8. CASE RecoverMetadata
  BY <1>8 DEF RecoverMetadata, Interrupted, durable, handle, reader, history
<1>9. CASE RecoverManifest
  BY <1>9 DEF RecoverManifest, durable, handle, reader, history
<1>10. CASE Open
  BY <1>10 DEF Open, IsPinned, durable, handle, reader, history
<1>11. CASE \E safe_sample \in 0 .. MaxChunks : Reclaim(safe_sample)
  BY <1>11 DEF Reclaim, IsPinned, durable, handle, reader, history
<1>12. CASE ReclaimChunk
  BY <1>12 DEF ReclaimChunk, Reclaimable, durable, handle, reader, history
<1>13. CASE ReclaimManifest
  BY <1>13 DEF ReclaimManifest, Reclaimable, Trimmed, durable, handle, reader, history
<1>14. CASE ReclaimMetadata
  BY <1>14 DEF ReclaimMetadata, durable, handle, reader, history
<1>15. CASE Discard
  BY <1>15 DEF Discard, IsPinned, durable, handle, reader, history
<1>16. CASE RemoveArtifact
  BY <1>16 DEF RemoveArtifact, durable, handle, reader, history
<1>17. CASE OpenCursor
  BY <1>17 DEF OpenCursor, durable, handle, reader, history
<1>18. CASE CursorItem
  BY <1>18 DEF CursorItem, AtEnd, Position, durable, handle, reader, history
<1>19. CASE ReadChunk
  BY <1>19 DEF ReadChunk, durable, handle, reader, history
<1>20. CASE CloseCursor
  BY <1>20 DEF CloseCursor, durable, handle, reader, history
<1>21. CASE OperationFails
  BY <1>21 DEF OperationFails, Removing, durable, handle, reader, history
<1>22. CASE Crash
  BY <1>22 DEF Crash, Removing, durable, handle, reader, history
<1>23. CASE UNCHANGED vars
  BY <1>23 DEF vars, durable, handle, reader, history
<1> QED
  BY <1>1, <1>2, <1>3, <1>4, <1>5, <1>6, <1>7, <1>8, <1>9, <1>10, <1>11, <1>12, <1>13,
     <1>14, <1>15, <1>16, <1>17, <1>18, <1>19, <1>20, <1>21, <1>22, <1>23
     DEF Next, Capture, Recovery, Maintenance, Reader

(***************************************************************************)
(* The chunks.                                                             *)
(***************************************************************************)
LEMMA StoredStep == StoreInv /\ [Next]_vars => StoredOK'
<1> SUFFICES ASSUME StoreInv, [Next]_vars PROVE StoredOK'
  OBVIOUS
<1> USE StoreAssumption
    DEF StoreInv, TypeOK, Committed, ManifestOK, PlaceOK, StoredOK, Kept, Writing, Manifest,
       NoManifest
<1>1. CASE CreateManifest
  BY <1>1 DEF CreateManifest, durable, handle, reader, history
<1>2. CASE CreateMetadata
  BY <1>2 DEF CreateMetadata, durable, handle, reader, history
<1>3. CASE PublishChunk
  BY <1>3 DEF PublishChunk, ChunkStored, durable, handle, reader, history
<1>4. CASE PublishCommit
  BY <1>4 DEF PublishCommit, durable, handle, reader, history
<1>5. CASE Finish
  BY <1>5 DEF Finish, durable, handle, reader, history
<1>6. CASE \E outcome \in {"Complete", "Stopped", "Aborted"} : FinalizeManifest(outcome)
  BY <1>6 DEF FinalizeManifest, Sealable, durable, handle, reader, history
<1>7. CASE FinalizeMetadata
  BY <1>7 DEF FinalizeMetadata, durable, handle, reader, history
<1>8. CASE RecoverMetadata
  BY <1>8 DEF RecoverMetadata, Interrupted, durable, handle, reader, history
<1>9. CASE RecoverManifest
  BY <1>9 DEF RecoverManifest, durable, handle, reader, history
<1>10. CASE Open
  BY <1>10 DEF Open, IsPinned, durable, handle, reader, history
<1>11. CASE \E safe_sample \in 0 .. MaxChunks : Reclaim(safe_sample)
  BY <1>11 DEF Reclaim, IsPinned, durable, handle, reader, history
<1>12. CASE ReclaimChunk
  BY <1>12 DEF ReclaimChunk, Reclaimable, durable, handle, reader, history
<1>13. CASE ReclaimManifest
  BY <1>13 DEF ReclaimManifest, Reclaimable, Trimmed, durable, handle, reader, history
<1>14. CASE ReclaimMetadata
  BY <1>14 DEF ReclaimMetadata, durable, handle, reader, history
<1>15. CASE Discard
  BY <1>15 DEF Discard, IsPinned, durable, handle, reader, history
<1>16. CASE RemoveArtifact
  BY <1>16 DEF RemoveArtifact, durable, handle, reader, history
<1>17. CASE OpenCursor
  BY <1>17 DEF OpenCursor, durable, handle, reader, history
<1>18. CASE CursorItem
  BY <1>18 DEF CursorItem, AtEnd, Position, durable, handle, reader, history
<1>19. CASE ReadChunk
  BY <1>19 DEF ReadChunk, durable, handle, reader, history
<1>20. CASE CloseCursor
  BY <1>20 DEF CloseCursor, durable, handle, reader, history
<1>21. CASE OperationFails
  BY <1>21 DEF OperationFails, Removing, durable, handle, reader, history
<1>22. CASE Crash
  BY <1>22 DEF Crash, Removing, durable, handle, reader, history
<1>23. CASE UNCHANGED vars
  BY <1>23 DEF vars, durable, handle, reader, history
<1> QED
  BY <1>1, <1>2, <1>3, <1>4, <1>5, <1>6, <1>7, <1>8, <1>9, <1>10, <1>11, <1>12, <1>13,
     <1>14, <1>15, <1>16, <1>17, <1>18, <1>19, <1>20, <1>21, <1>22, <1>23
     DEF Next, Capture, Recovery, Maintenance, Reader

(***************************************************************************)
(* The outcome.                                                            *)
(***************************************************************************)
LEMMA OutcomeStep == StoreInv /\ [Next]_vars => OutcomeOK'
<1> SUFFICES ASSUME StoreInv, [Next]_vars PROVE OutcomeOK'
  OBVIOUS
<1> USE StoreAssumption
    DEF StoreInv, TypeOK, Committed, ManifestOK, PlaceOK, OutcomeOK, Writing, Manifest,
       Metadata, NoManifest, NoMetadata, Terminal, Outcome
<1>1. CASE CreateManifest
  BY <1>1 DEF CreateManifest, durable, handle, reader, history
<1>2. CASE CreateMetadata
  BY <1>2 DEF CreateMetadata, durable, handle, reader, history
<1>3. CASE PublishChunk
  BY <1>3 DEF PublishChunk, ChunkStored, durable, handle, reader, history
<1>4. CASE PublishCommit
  BY <1>4 DEF PublishCommit, durable, handle, reader, history
<1>5. CASE Finish
  BY <1>5 DEF Finish, durable, handle, reader, history
<1>6. CASE \E outcome \in {"Complete", "Stopped", "Aborted"} : FinalizeManifest(outcome)
  BY <1>6 DEF FinalizeManifest, Sealable, durable, handle, reader, history
<1>7. CASE FinalizeMetadata
  BY <1>7 DEF FinalizeMetadata, durable, handle, reader, history
<1>8. CASE RecoverMetadata
  BY <1>8 DEF RecoverMetadata, Interrupted, durable, handle, reader, history
<1>9. CASE RecoverManifest
  BY <1>9 DEF RecoverManifest, durable, handle, reader, history
<1>10. CASE Open
  BY <1>10 DEF Open, IsPinned, durable, handle, reader, history
<1>11. CASE \E safe_sample \in 0 .. MaxChunks : Reclaim(safe_sample)
  BY <1>11 DEF Reclaim, IsPinned, durable, handle, reader, history
<1>12. CASE ReclaimChunk
  BY <1>12 DEF ReclaimChunk, Reclaimable, durable, handle, reader, history
<1>13. CASE ReclaimManifest
  BY <1>13 DEF ReclaimManifest, Reclaimable, Trimmed, durable, handle, reader, history
<1>14. CASE ReclaimMetadata
  BY <1>14 DEF ReclaimMetadata, durable, handle, reader, history
<1>15. CASE Discard
  BY <1>15 DEF Discard, IsPinned, durable, handle, reader, history
<1>16. CASE RemoveArtifact
  BY <1>16 DEF RemoveArtifact, durable, handle, reader, history
<1>17. CASE OpenCursor
  BY <1>17 DEF OpenCursor, durable, handle, reader, history
<1>18. CASE CursorItem
  BY <1>18 DEF CursorItem, AtEnd, Position, durable, handle, reader, history
<1>19. CASE ReadChunk
  BY <1>19 DEF ReadChunk, durable, handle, reader, history
<1>20. CASE CloseCursor
  BY <1>20 DEF CloseCursor, durable, handle, reader, history
<1>21. CASE OperationFails
  BY <1>21 DEF OperationFails, Removing, durable, handle, reader, history
<1>22. CASE Crash
  BY <1>22 DEF Crash, Removing, durable, handle, reader, history
<1>23. CASE UNCHANGED vars
  BY <1>23 DEF vars, durable, handle, reader, history
<1> QED
  BY <1>1, <1>2, <1>3, <1>4, <1>5, <1>6, <1>7, <1>8, <1>9, <1>10, <1>11, <1>12, <1>13,
     <1>14, <1>15, <1>16, <1>17, <1>18, <1>19, <1>20, <1>21, <1>22, <1>23
     DEF Next, Capture, Recovery, Maintenance, Reader

(***************************************************************************)
(* The reader.                                                             *)
(***************************************************************************)
LEMMA ReaderStep == StoreInv /\ [Next]_vars => ReaderOK'
<1> SUFFICES ASSUME StoreInv, [Next]_vars PROVE ReaderOK'
  OBVIOUS
<1> USE StoreAssumption
    DEF StoreInv, TypeOK, Committed, ManifestOK, PlaceOK, StoredOK, Kept, ReaderOK,
       Removing, Writing, Manifest, NoManifest, IsPinned
<1>1. CASE CreateManifest
  BY <1>1 DEF CreateManifest, durable, handle, reader, history
<1>2. CASE CreateMetadata
  BY <1>2 DEF CreateMetadata, durable, handle, reader, history
<1>3. CASE PublishChunk
  BY <1>3 DEF PublishChunk, ChunkStored, durable, handle, reader, history
<1>4. CASE PublishCommit
  BY <1>4 DEF PublishCommit, durable, handle, reader, history
<1>5. CASE Finish
  BY <1>5 DEF Finish, durable, handle, reader, history
<1>6. CASE \E outcome \in {"Complete", "Stopped", "Aborted"} : FinalizeManifest(outcome)
  BY <1>6 DEF FinalizeManifest, Sealable, durable, handle, reader, history
<1>7. CASE FinalizeMetadata
  BY <1>7 DEF FinalizeMetadata, durable, handle, reader, history
<1>8. CASE RecoverMetadata
  BY <1>8 DEF RecoverMetadata, Interrupted, durable, handle, reader, history
<1>9. CASE RecoverManifest
  BY <1>9 DEF RecoverManifest, durable, handle, reader, history
<1>10. CASE Open
  BY <1>10 DEF Open, durable, handle, reader, history
<1>11. CASE \E safe_sample \in 0 .. MaxChunks : Reclaim(safe_sample)
  BY <1>11 DEF Reclaim, durable, handle, reader, history
<1>12. CASE ReclaimChunk
  BY <1>12 DEF ReclaimChunk, Reclaimable, durable, handle, reader, history
<1>13. CASE ReclaimManifest
  BY <1>13 DEF ReclaimManifest, Reclaimable, Trimmed, durable, handle, reader, history
<1>14. CASE ReclaimMetadata
  BY <1>14 DEF ReclaimMetadata, durable, handle, reader, history
<1>15. CASE Discard
  BY <1>15 DEF Discard, durable, handle, reader, history
<1>16. CASE RemoveArtifact
  BY <1>16 DEF RemoveArtifact, durable, handle, reader, history
<1>17. CASE OpenCursor
  BY <1>17 DEF OpenCursor, durable, handle, reader, history
<1>18. CASE CursorItem
  BY <1>18 DEF CursorItem, AtEnd, Position, durable, handle, reader, history
<1>19. CASE ReadChunk
  BY <1>19 DEF ReadChunk, durable, handle, reader, history
<1>20. CASE CloseCursor
  BY <1>20 DEF CloseCursor, durable, handle, reader, history
<1>21. CASE OperationFails
  BY <1>21 DEF OperationFails, durable, handle, reader, history
<1>22. CASE Crash
  BY <1>22 DEF Crash, durable, handle, reader, history
<1>23. CASE UNCHANGED vars
  BY <1>23 DEF vars, durable, handle, reader, history
<1> QED
  BY <1>1, <1>2, <1>3, <1>4, <1>5, <1>6, <1>7, <1>8, <1>9, <1>10, <1>11, <1>12, <1>13,
     <1>14, <1>15, <1>16, <1>17, <1>18, <1>19, <1>20, <1>21, <1>22, <1>23
     DEF Next, Capture, Recovery, Maintenance, Reader

-----------------------------------------------------------------------------
(* The theorems.                                                           *)

(* An empty repository satisfies the invariant.                            *)
LEMMA InitInv == Init => StoreInv
<1> SUFFICES ASSUME Init PROVE StoreInv
  OBVIOUS
<1>1. TypeOK
  <2>1. DurableType /\ HandleType
    BY NoManifestType, NoMetadataType DEF Init, DurableType, HandleType
  <2>2. StepType /\ ReaderType /\ HistoryType
    BY OutcomeValues DEF Init, StepType, ReaderType, HistoryType, Step, Argument
  <2> QED
    BY <2>1, <2>2
       DEF TypeOK, DurableType, HandleType, StepType, ReaderType, HistoryType, Argument
<1>2. ManifestOK /\ PlaceOK /\ OutcomeOK /\ ReaderOK
  BY DEF Init, ManifestOK, PlaceOK, OutcomeOK, ReaderOK, Writing, NoManifest, NoMetadata
<1>3. StoredOK
  BY DEF Init, StoredOK, Kept, NoManifest
<1> QED
  BY <1>1, <1>2, <1>3 DEF StoreInv

(***************************************************************************)
(* The inductive invariant holds: what every step of an operation of       *)
(* artifact_store.rs and session_repository.rs relies on, whatever crashes *)
(* and errors came before it.                                              *)
(***************************************************************************)
THEOREM StoreInvHolds == Spec => []StoreInv
<1>1. StoreInv /\ [Next]_vars => StoreInv'
  BY TypeStep, ManifestStep, PlaceStep, StoredStep, OutcomeStep, ReaderStep DEF StoreInv
<1> QED
  BY InitInv, <1>1, PTL DEF Spec

(***************************************************************************)
(* The store keeps its types, for every number of chunks and faults.       *)
(***************************************************************************)
THEOREM TypeCorrect == Spec => []TypeOK
<1>1. StoreInv => TypeOK
  BY DEF StoreInv
<1> QED
  BY StoreInvHolds, <1>1, PTL

(***************************************************************************)
(* Nothing that append acknowledged is lost: chunk first, manifest second, *)
(* and a reclamation that moves the manifest only after its chunks.        *)
(***************************************************************************)
THEOREM CommittedPrefixStoredHolds == Spec => []CommittedPrefixStored
<1>1. StoreInv => CommittedPrefixStored
  <2> SUFFICES ASSUME StoreInv PROVE CommittedPrefixStored
    OBVIOUS
  <2>1. manifest.first_sequence \in Nat /\ manifest.committed_chunks \in Nat
    BY CommittedType DEF StoreInv, TypeOK
  <2>2. ASSUME NEW s \in manifest.first_sequence .. manifest.committed_chunks - 1
        PROVE  Kept(s)
    BY <2>1 DEF Kept
  <2> QED
    BY <2>2 DEF StoreInv, StoredOK, CommittedPrefixStored, Removing
<1> QED
  BY StoreInvHolds, <1>1, PTL

(***************************************************************************)
(* A cursor finds every chunk it was promised under the lock, and is told  *)
(* End only after the last one.                                            *)
(***************************************************************************)
THEOREM ReaderGetsEveryChunkHolds == Spec => []ReaderGetsEveryChunk
<1>1. StoreInv => ReaderGetsEveryChunk
  BY DEF StoreInv, ReaderOK, ReaderGetsEveryChunk
<1> QED
  BY StoreInvHolds, <1>1, PTL

(***************************************************************************)
(* finalize calls a session Complete only when every chunk that was handed *)
(* to append is committed.                                                 *)
(***************************************************************************)
THEOREM CompleteMeansWholeHolds == Spec => []CompleteMeansWhole
<1>1. StoreInv => CompleteMeansWhole
  BY DEF StoreInv, OutcomeOK, CompleteMeansWhole
<1> QED
  BY StoreInvHolds, <1>1, PTL

(***************************************************************************)
(* Every step of the store is a step of CaptureLog or leaves it alone.     *)
(***************************************************************************)
LEMMA LogStep == StoreInv /\ [Next]_vars => [Log!Next]_(Log!logVars)
<1> SUFFICES ASSUME StoreInv, [Next]_vars PROVE [Log!Next]_(Log!logVars)
  OBVIOUS
<1> USE DEF StoreInv, PlaceOK, ManifestOK, TypeOK, Writing, Manifest, Phase, NoManifest
<1>1. CASE CreateManifest
  BY <1>1 DEF CreateManifest, Log!Next, Log!Create
<1>2. CASE PublishCommit
  BY <1>2 DEF PublishCommit, Committed, Log!Next, Log!Commit, Log!logVars
<1>3. CASE \E outcome \in {"Complete", "Stopped", "Aborted"} : FinalizeManifest(outcome)
  BY <1>3 DEF FinalizeManifest, history, Log!Next, Log!Seal, Log!logVars
<1>4. CASE RecoverManifest
  BY <1>4 DEF RecoverManifest, history, Log!Next, Log!Seal
<1>5. CASE ReclaimManifest
  <2>1. CASE UNCHANGED manifest
    BY <1>5, <2>1 DEF ReclaimManifest, history, Log!logVars
  <2>2. CASE manifest' = Trimmed
    <3>1. sequence \in manifest.first_sequence .. manifest.committed_chunks
      BY <1>5 DEF ReclaimManifest
    <3>2. manifest'.first_sequence = sequence /\ manifest'.committed_chunks =
       manifest.committed_chunks
      BY <1>5, <2>2 DEF ReclaimManifest, Trimmed
    <3>3. manifest'.exists = manifest.exists /\ manifest'.finalized = manifest.finalized
      BY <1>5, <2>2 DEF ReclaimManifest, Trimmed
    <3>4. manifest.exists /\ manifest.finalized /\ UNCHANGED created
      BY <1>5 DEF ReclaimManifest, history
    <3> QED
      BY <3>1, <3>2, <3>3, <3>4 DEF Log!Next, Log!Trim
  <2> QED
    BY <1>5, <2>1, <2>2 DEF ReclaimManifest
<1>6. CASE RemoveArtifact
  BY <1>6 DEF RemoveArtifact, history, Log!Next, Log!Remove, Log!logVars
<1>7. CASE UNCHANGED <<manifest, created>>
  BY <1>7 DEF Log!logVars
<1>8. CreateMetadata \/ PublishChunk \/ Finish \/ FinalizeMetadata \/ RecoverMetadata
        => UNCHANGED <<manifest, created>>
  BY DEF CreateMetadata, PublishChunk, Finish, FinalizeMetadata, RecoverMetadata, durable,
     history
<1>9. ASSUME \/ Open \/ ReclaimChunk \/ ReclaimMetadata \/ Discard
             \/ \E safe_sample \in 0 .. MaxChunks : Reclaim(safe_sample)
      PROVE  UNCHANGED <<manifest, created>>
  BY <1>9 DEF Open, Reclaim, ReclaimChunk, ReclaimMetadata, Discard, durable, history
<1>10. Reader \/ OperationFails \/ Crash \/ UNCHANGED vars => UNCHANGED <<manifest, created>>
  BY DEF Reader, OpenCursor, CursorItem, ReadChunk, CloseCursor, OperationFails, Crash,
         durable, history, vars
<1> HIDE DEF StoreInv, PlaceOK, ManifestOK, TypeOK, Writing, Manifest, Phase, NoManifest
<1>11. \/ CreateManifest \/ PublishCommit \/ RecoverManifest
       \/ ReclaimManifest \/ RemoveArtifact
       \/ \E outcome \in {"Complete", "Stopped", "Aborted"} : FinalizeManifest(outcome)
       \/ UNCHANGED <<manifest, created>>
  BY <1>8, <1>9, <1>10 DEF Next, Capture, Recovery, Maintenance
<1> QED
  BY <1>1, <1>2, <1>3, <1>4, <1>5, <1>6, <1>7, <1>11

(***************************************************************************)
(* The artifacts of a session always read as an append-only log that is    *)
(* sealed once: no crash, no failed write and no interrupted recovery,     *)
(* reclamation or discard shows in it.                                     *)
(***************************************************************************)
THEOREM StoreImplementsLog == Spec => ImplementsLog
<1>1. Init => Log!Init
  BY DEF Init, Log!Init, Phase, NoManifest
<1> QED
  BY <1>1, StoreInvHolds, LogStep, PTL DEF Spec, ImplementsLog, Log!Spec

=============================================================================
