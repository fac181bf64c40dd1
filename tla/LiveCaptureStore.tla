-------------------------- MODULE LiveCaptureStore --------------------------
(***************************************************************************)
(* The store of one live capture session                                   *)
(* (signal_capture_session/src/live_capture_store): a chunk artifact per   *)
(* appended chunk, a manifest that makes a prefix of them visible, session *)
(* metadata and the session plan.  Every publication and every removal of  *)
(* an artifact is one step, because the process may stop between any two   *)
(* of them (Crash); what is only in memory is then lost.                   *)
(*                                                                         *)
(* The capture worker creates the session, appends, finishes and finalizes *)
(* it (run_capture_worker in logic_analyzer_ui).  While no worker runs the *)
(* repository recovers, opens, reclaims and discards it.  A reader follows *)
(* the store with a cursor under a pin.  A chunk is its sequence number    *)
(* and covers one unit of the sample axis, so its end sample is its        *)
(* sequence + 1.                                                           *)
(***************************************************************************)
EXTENDS Naturals, FiniteSets

CONSTANTS
  MaxChunks,   \* bound of the model: chunks the provider produces
  MaxFaults    \* bound of the model: restarts and failed operations

ASSUME StoreAssumption == MaxChunks \in Nat /\ MaxFaults \in Nat

(* CaptureSessionOutcome; Aborted also stands for CancelledBeforeTrigger.  *)
Terminal == {"Complete", "Stopped", "Aborted", "Incomplete"}
Outcome == Terminal \cup {"InProgress"}

Manifest == [exists : BOOLEAN, first_sequence : Nat, committed_chunks : Nat,
             finalized : BOOLEAN]

NoManifest == [exists |-> FALSE, first_sequence |-> 0, committed_chunks |-> 0,
               finalized |-> FALSE]

Metadata == [outcome : Outcome \cup {"missing"}, retained_start_sample : Nat]

NoMetadata == [outcome |-> "missing", retained_start_sample |-> 0]

(***************************************************************************)
(* Where the thread that changes the session stands: between operations    *)
(* ("idle"), in the capture worker ("recording", "finished") or between    *)
(* two publications of one operation.                                      *)
(***************************************************************************)
Step == {"idle", "creating", "recording", "appending", "finished", "finalizing",
         "recovering", "reclaiming", "trimming", "discarding"}

VARIABLES
  chunks,          \* durable: sequence numbers that have a chunk artifact
  manifest,        \* durable: PersistedManifest
  metadata,        \* durable: CaptureSessionMetadata
  plan,            \* durable: is there a session plan
  state,           \* StoreState::manifest of the open handle
  writer_open,     \* StoreState::writer_open
  writer_failure,  \* StoreState::writer_failure is some
  step,
  argument,        \* outcome being finalized, or boundary being reclaimed to
  sequence,        \* loop variable of reclaim_before and of the discard
  cursor,          \* the reader: "none", "open", "reading", "ended", "failed"
  next_sequence,   \* CaptureCursor::next_sequence
  created,         \* history: the session was created
  acknowledged,    \* history: appends that returned Ok
  produced,        \* history: chunks handed to append
  cut,             \* history: a reclamation or a discard was interrupted
  faults           \* history: restarts and failed operations so far

durable == <<chunks, manifest, metadata, plan>>
handle == <<state, writer_open, writer_failure>>
reader == <<cursor, next_sequence>>
history == <<created, acknowledged, produced, cut, faults>>
vars == <<durable, handle, step, argument, sequence, reader, history>>

Init ==
  /\ chunks = {}
  /\ manifest = NoManifest
  /\ metadata = NoMetadata
  /\ plan = FALSE
  /\ state = NoManifest
  /\ writer_open = FALSE
  /\ writer_failure = FALSE
  /\ step = "idle"
  /\ argument = [outcome |-> "InProgress", safe_sample |-> 0]
  /\ sequence = 0
  /\ cursor = "none"
  /\ next_sequence = 0
  /\ created = FALSE
  /\ acknowledged = 0
  /\ produced = 0
  /\ cut = FALSE
  /\ faults = 0

-----------------------------------------------------------------------------
(* Mutated forms of definitions below; no specification uses them.         *)

IsPinnedNever == FALSE

ChunkStoredLater == chunks

SealableAfterFailure == TRUE

InterruptedInProgress ==
  manifest.exists /\ ~manifest.finalized /\ metadata.outcome = "InProgress"

TrimmedReopens == [state EXCEPT !.first_sequence = sequence, !.finalized = FALSE]

AtEndSealed ==
  next_sequence >= state.committed_chunks /\ ~writer_open /\ state.finalized

-----------------------------------------------------------------------------
(***************************************************************************)
(* A cursor's owner holds a CaptureSessionPin, which is_pinned reports.    *)
(***************************************************************************)
IsPinned == cursor # "none"

-----------------------------------------------------------------------------
(* CaptureStore::create.                                                   *)

(***************************************************************************)
(* The manifest of the empty session is published before its metadata.     *)
(* fresh_session_id never returns to an identity that was used.            *)
(***************************************************************************)
CreateManifest ==
  /\ step = "idle"
  /\ ~created
  /\ created' = TRUE
  /\ manifest' = [NoManifest EXCEPT !.exists = TRUE]
  /\ step' = "creating"
  /\ UNCHANGED <<chunks, metadata, plan, handle, argument, sequence, reader,
                 acknowledged, produced, cut, faults>>

CreateMetadata ==
  /\ step = "creating"
  /\ metadata' = [outcome |-> "InProgress", retained_start_sample |-> 0]
  /\ state' = manifest
  /\ writer_open' = TRUE
  /\ writer_failure' = FALSE
  /\ step' = "recording"
  /\ UNCHANGED <<chunks, manifest, plan, argument, sequence, reader, history>>

-----------------------------------------------------------------------------
(* CaptureStoreWriter.                                                     *)

ChunkStored == chunks \cup {state.committed_chunks}

(***************************************************************************)
(* append_inner publishes the chunk artifact first; append records any     *)
(* error as the writer's failure.  A failed append may be tried again,     *)
(* with the same sequence number.                                          *)
(***************************************************************************)
PublishChunk ==
  /\ step = "recording"
  /\ state.committed_chunks < MaxChunks
  /\ produced' = state.committed_chunks + 1
  /\ \/ /\ chunks' = ChunkStored
        /\ step' = "appending"
        /\ UNCHANGED writer_failure
     \/ /\ writer_failure' = TRUE
        /\ UNCHANGED <<chunks, step>>
  /\ UNCHANGED <<manifest, metadata, plan, state, writer_open, argument, sequence,
                 reader, created, acknowledged, cut, faults>>

Committed(m) == [m EXCEPT !.committed_chunks = @ + 1]

(***************************************************************************)
(* Then, under the lock, the manifest that counts it: the commit.          *)
(***************************************************************************)
PublishCommit ==
  /\ step = "appending"
  /\ step' = "recording"
  /\ \/ /\ manifest' = Committed(state)
        /\ state' = manifest'
        /\ acknowledged' = acknowledged + 1
        /\ UNCHANGED writer_failure
     \/ /\ writer_failure' = TRUE
        /\ UNCHANGED <<manifest, state, acknowledged>>
  /\ UNCHANGED <<chunks, metadata, plan, writer_open, argument, sequence, reader,
                 created, produced, cut, faults>>

(***************************************************************************)
(* finish, or the writer being dropped.                                    *)
(***************************************************************************)
Finish ==
  /\ step = "recording"
  /\ writer_open' = FALSE
  /\ step' = "finished"
  /\ UNCHANGED <<durable, state, writer_failure, argument, sequence, reader, history>>

-----------------------------------------------------------------------------
(* finalize_with_details, after the capture worker wrote the plan.         *)

Sealable == ~writer_failure

(***************************************************************************)
(* A capture the provider ended early is finalized as stopped or aborted;  *)
(* Complete is the provider having delivered all it produced.  When the    *)
(* writer failed the capture worker returns the error and leaves the       *)
(* session as it is.                                                       *)
(***************************************************************************)
FinalizeManifest(outcome) ==
  /\ step = "finished"
  /\ ~writer_open
  /\ ~state.finalized
  /\ plan' \in BOOLEAN
  /\ IF Sealable
       THEN /\ manifest' = [state EXCEPT !.finalized = TRUE]
            /\ state' = manifest'
            /\ argument' = [argument EXCEPT !.outcome = outcome]
            /\ step' = "finalizing"
       ELSE /\ step' = "idle"
            /\ UNCHANGED <<manifest, state, argument>>
  /\ UNCHANGED <<chunks, metadata, writer_open, writer_failure, sequence, reader, history>>

FinalizeMetadata ==
  /\ step = "finalizing"
  /\ metadata' = [metadata EXCEPT !.outcome = argument.outcome]
  /\ step' = "idle"
  /\ UNCHANGED <<chunks, manifest, plan, handle, argument, sequence, reader, history>>

-----------------------------------------------------------------------------
(* FinalizedCapture::recover: what scan does to every session it finds,    *)
(* and open to the one it pins.                                            *)

Interrupted == manifest.exists /\ ~manifest.finalized

(***************************************************************************)
(* A session that is finalized is left alone; one whose metadata is        *)
(* missing is reported Corrupt and left as it is.                          *)
(***************************************************************************)
RecoverMetadata ==
  /\ step = "idle"
  /\ Interrupted
  /\ metadata.outcome # "missing"
  /\ metadata' = [metadata EXCEPT !.outcome = "Incomplete"]
  /\ step' = "recovering"
  /\ UNCHANGED <<chunks, manifest, plan, handle, argument, sequence, reader, history>>

RecoverManifest ==
  /\ step = "recovering"
  /\ manifest' = [manifest EXCEPT !.finalized = TRUE]
  /\ step' = "idle"
  /\ UNCHANGED <<chunks, metadata, plan, handle, argument, sequence, reader, history>>

(***************************************************************************)
(* CaptureSessionRepository::open: a fresh handle on the recovered         *)
(* session.                                                                *)
(***************************************************************************)
Open ==
  /\ step = "idle"
  /\ manifest.finalized
  /\ ~IsPinned
  /\ state' = manifest
  /\ writer_open' = FALSE
  /\ writer_failure' = FALSE
  /\ UNCHANGED <<durable, step, argument, sequence, reader, history>>

-----------------------------------------------------------------------------
(* reclaim_to_policy and reclaim_before.                                   *)

Reclaim(safe_sample) ==
  /\ step = "idle"
  /\ ~IsPinned
  /\ manifest.finalized
  /\ metadata.outcome # "missing"
  /\ plan
  /\ argument' = [argument EXCEPT !.safe_sample = safe_sample]
  /\ sequence' = manifest.first_sequence
  /\ state' = manifest
  /\ writer_open' = FALSE
  /\ writer_failure' = FALSE
  /\ step' = "reclaiming"
  /\ UNCHANGED <<durable, reader, history>>

Reclaimable ==
  /\ sequence < state.committed_chunks
  /\ sequence \in chunks
  /\ sequence + 1 <= argument.safe_sample

ReclaimChunk ==
  /\ step = "reclaiming"
  /\ Reclaimable
  /\ chunks' = chunks \ {sequence}
  /\ sequence' = sequence + 1
  /\ UNCHANGED <<manifest, metadata, plan, handle, step, argument, reader, history>>

Trimmed == [state EXCEPT !.first_sequence = sequence]

(***************************************************************************)
(* A chunk of the manifest that cannot be read ends the operation with an  *)
(* error before anything is published; so does reclaiming nothing.         *)
(***************************************************************************)
ReclaimManifest ==
  /\ step = "reclaiming"
  /\ ~Reclaimable
  /\ IF /\ sequence < state.committed_chunks => sequence \in chunks
        /\ sequence > state.first_sequence
       THEN /\ manifest' = Trimmed
            /\ state' = manifest'
            /\ step' = "trimming"
       ELSE /\ step' = "idle"
            /\ UNCHANGED <<manifest, state>>
  /\ UNCHANGED <<chunks, metadata, plan, writer_open, writer_failure, argument, sequence,
                 reader, history>>

ReclaimMetadata ==
  /\ step = "trimming"
  /\ metadata' = [metadata EXCEPT !.retained_start_sample = argument.safe_sample]
  /\ step' = "idle"
  /\ UNCHANGED <<chunks, manifest, plan, handle, argument, sequence, reader, history>>

-----------------------------------------------------------------------------
(* discard and remove_session_artifacts.                                   *)

Discard ==
  /\ step = "idle"
  /\ manifest.exists
  /\ ~IsPinned
  /\ sequence' = manifest.first_sequence
  /\ step' = "discarding"
  /\ UNCHANGED <<durable, handle, argument, reader, history>>

(***************************************************************************)
(* The chunks the manifest names go first, then the plan, the metadata and *)
(* at last the manifest, so that an interrupted discard can be repeated.   *)
(***************************************************************************)
RemoveArtifact ==
  /\ step = "discarding"
  /\ \/ /\ sequence < manifest.committed_chunks
        /\ chunks' = chunks \ {sequence}
        /\ sequence' = sequence + 1
        /\ UNCHANGED <<manifest, metadata, plan, step>>
     \/ /\ sequence >= manifest.committed_chunks
        /\ plan
        /\ plan' = FALSE
        /\ UNCHANGED <<chunks, manifest, metadata, step, sequence>>
     \/ /\ sequence >= manifest.committed_chunks
        /\ ~plan
        /\ metadata # NoMetadata
        /\ metadata' = NoMetadata
        /\ UNCHANGED <<chunks, manifest, plan, step, sequence>>
     \/ /\ sequence >= manifest.committed_chunks
        /\ ~plan
        /\ metadata = NoMetadata
        /\ manifest' = NoManifest
        /\ step' = "idle"
        /\ UNCHANGED <<chunks, metadata, plan, sequence>>
  /\ UNCHANGED <<handle, argument, reader, history>>

-----------------------------------------------------------------------------
(* CaptureCursor, driven by a thread of its own.                           *)

(***************************************************************************)
(* The live readers open their cursors right after create, the replaying   *)
(* ones after open; both start at the first chunk that is kept.            *)
(***************************************************************************)
OpenCursor ==
  /\ cursor = "none"
  /\ state.exists
  /\ step \in {"idle", "recording", "appending", "finished", "finalizing"}
  /\ step = "idle" => manifest.finalized /\ state = manifest
  /\ cursor' = "open"
  /\ next_sequence' = state.first_sequence
  /\ UNCHANGED <<durable, handle, step, argument, sequence, history>>

(***************************************************************************)
(* A cursor skips chunks that were reclaimed.                              *)
(***************************************************************************)
Position ==
  IF next_sequence < state.first_sequence THEN state.first_sequence ELSE next_sequence

AtEnd == Position >= state.committed_chunks /\ ~writer_open

(***************************************************************************)
(* item decides under the lock and reads the chunk after releasing it.     *)
(* Pending, and a wait that times out, leave the cursor where it is: while *)
(* the writer is open nothing is reclaimed.                                *)
(***************************************************************************)
CursorItem ==
  /\ cursor = "open"
  /\ next_sequence' = Position
  /\ \/ Position < state.committed_chunks /\ cursor' = "reading"
     \/ AtEnd /\ cursor' = "ended"
  /\ UNCHANGED <<durable, handle, step, argument, sequence, history>>

ReadChunk ==
  /\ cursor = "reading"
  /\ IF next_sequence \in chunks
       THEN cursor' = "open" /\ next_sequence' = next_sequence + 1
       ELSE cursor' = "failed" /\ UNCHANGED next_sequence
  /\ UNCHANGED <<durable, handle, step, argument, sequence, history>>

CloseCursor ==
  /\ cursor # "none"
  /\ cursor' = "none"
  /\ next_sequence' = 0
  /\ UNCHANGED <<durable, handle, step, argument, sequence, history>>

-----------------------------------------------------------------------------
(***************************************************************************)
(* A repository error ends the operation where it is; the capture worker   *)
(* has its own error path while recording.                                 *)
(***************************************************************************)
Removing == step \in {"reclaiming", "discarding"}

OperationFails ==
  /\ step \in Step \ {"idle", "recording", "appending"}
  /\ faults < MaxFaults
  /\ faults' = faults + 1
  /\ step' = "idle"
  /\ cut' = (cut \/ Removing)
  /\ UNCHANGED <<durable, handle, argument, sequence, reader,
                 created, acknowledged, produced>>

(***************************************************************************)
(* The process stops; the durable artifacts stay.                          *)
(***************************************************************************)
Crash ==
  /\ faults < MaxFaults
  /\ faults' = faults + 1
  /\ cut' = (cut \/ Removing)
  /\ state' = NoManifest
  /\ writer_open' = FALSE
  /\ writer_failure' = FALSE
  /\ step' = "idle"
  /\ cursor' = "none"
  /\ next_sequence' = 0
  /\ UNCHANGED <<durable, argument, sequence, created, acknowledged, produced>>

-----------------------------------------------------------------------------
Capture ==
  \/ CreateManifest \/ CreateMetadata
  \/ PublishChunk \/ PublishCommit \/ Finish
  \/ \E outcome \in {"Complete", "Stopped", "Aborted"} : FinalizeManifest(outcome)
  \/ FinalizeMetadata

Recovery == RecoverMetadata \/ RecoverManifest

Maintenance ==
  \/ Open
  \/ \E safe_sample \in 0 .. MaxChunks : Reclaim(safe_sample)
  \/ ReclaimChunk \/ ReclaimManifest \/ ReclaimMetadata
  \/ Discard \/ RemoveArtifact

Reader == OpenCursor \/ CursorItem \/ ReadChunk \/ CloseCursor

Next == Capture \/ Recovery \/ Maintenance \/ Reader \/ OperationFails \/ Crash

(***************************************************************************)
(* A capture ends by its completion policy or by the user and its worker   *)
(* finalizes it; starting the application scans the repository, as does a  *)
(* capture that failed; a reader keeps polling; an operation that was      *)
(* begun goes on.  Nothing is assumed of when captures are opened,         *)
(* reclaimed or discarded.                                                 *)
(***************************************************************************)
Fairness ==
  /\ WF_vars(CreateMetadata \/ PublishCommit \/ FinalizeMetadata)
  /\ WF_vars(ReclaimChunk \/ ReclaimManifest \/ ReclaimMetadata \/ RemoveArtifact)
  /\ SF_vars(Finish)
  /\ WF_vars(\E outcome \in {"Complete", "Stopped", "Aborted"} : FinalizeManifest(outcome))
  /\ WF_vars(Recovery)
  /\ WF_vars(CursorItem \/ ReadChunk)

Spec == Init /\ [][Next]_vars /\ Fairness

-----------------------------------------------------------------------------
TypeOK ==
  /\ chunks \subseteq Nat
  /\ manifest \in Manifest
  /\ metadata \in Metadata
  /\ plan \in BOOLEAN
  /\ state \in Manifest
  /\ writer_open \in BOOLEAN
  /\ writer_failure \in BOOLEAN
  /\ step \in Step
  /\ argument \in [outcome : Outcome, safe_sample : Nat]
  /\ sequence \in Nat
  /\ cursor \in {"none", "open", "reading", "ended", "failed"}
  /\ next_sequence \in Nat
  /\ created \in BOOLEAN
  /\ acknowledged \in Nat
  /\ produced \in Nat
  /\ cut \in BOOLEAN
  /\ faults \in Nat

(***************************************************************************)
(* Nothing acknowledged is lost: at every moment, so also after a crash at *)
(* any of them, the manifest counts every chunk whose append returned Ok,  *)
(* and each chunk it still names has its artifact, unless a reclamation or *)
(* a discard is removing chunks or was cut short doing so.                 *)
(***************************************************************************)
CommittedPrefixStored ==
  /\ manifest.exists => acknowledged <= manifest.committed_chunks
  /\ ~cut /\ ~Removing =>
       \A s \in manifest.first_sequence .. manifest.committed_chunks - 1 : s \in chunks

(***************************************************************************)
(* A reader gets every chunk: what it saw committed under the lock is      *)
(* still there when it reads without the lock, whatever is done to the     *)
(* session meanwhile (unless an earlier removal was cut short), and it is  *)
(* told End only after the last chunk of a writer that is closed.          *)
(***************************************************************************)
ReaderGetsEveryChunk ==
  /\ cursor = "failed" => cut
  /\ cursor = "ended" => next_sequence = state.committed_chunks /\ ~writer_open

(***************************************************************************)
(* "Partial sessions ... are never presented as Complete"                  *)
(* (live_capture_trigger.md): the durable outcome says Complete only of a  *)
(* session that holds every chunk the provider handed over.                *)
(***************************************************************************)
CompleteMeansWhole ==
  metadata.outcome = "Complete" => manifest.committed_chunks = produced

Phase ==
  IF manifest.exists THEN IF manifest.finalized THEN "sealed" ELSE "open"
  ELSE IF created THEN "removed" ELSE "absent"

Log == INSTANCE CaptureLog WITH phase <- Phase, first <- manifest.first_sequence,
                                length <- manifest.committed_chunks

(***************************************************************************)
(* The artifacts of the session implement the log of CaptureLog: chunks    *)
(* are committed one at a time and never uncommitted, a sealed session     *)
(* never grows or reopens, and no crash is visible in it.                  *)
(***************************************************************************)
ImplementsLog == Log!Spec

(***************************************************************************)
(* Every session that was interrupted is eventually sealed: by its capture *)
(* worker, or by the scan after the error or the restart (unless it was    *)
(* cut off before its metadata existed, or is discarded).                  *)
(***************************************************************************)
InterruptedIsSealed ==
  manifest.exists ~> ~manifest.exists \/ manifest.finalized \/ metadata = NoMetadata

(***************************************************************************)
(* A reader of a finished capture reaches the end.                         *)
(***************************************************************************)
ReaderReachesEnd ==
  (cursor = "open" /\ ~writer_open) ~> (cursor # "open" /\ cursor # "reading")
=============================================================================
