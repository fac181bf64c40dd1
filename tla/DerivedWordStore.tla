-------------------------- MODULE DerivedWordStore --------------------------
(***************************************************************************)
(* The indexed store of one lane of derived words                          *)
(* (signal_derived/src/derived_word_store): a writer that cuts the words   *)
(* of a run into blocks, encodes the blocks on the shared executor,        *)
(* commits them in order into segment artifacts and, at the end, publishes *)
(* an index and a manifest that make the segments a cache entry for later  *)
(* runs; query handles that read meanwhile; and the background maintenance *)
(* of the cache.                                                           *)
(*                                                                         *)
(* A step of the writer is one access to something another thread sees:    *)
(* the completion channel, the locked state, the pending blocks or the     *)
(* repository.  All stores share one cache key, as the runs of one graph   *)
(* do; a word is its position, and a block holds BlockWords of them.  A    *)
(* segment artifact holds the number of the store that published it, 0     *)
(* where there is none.                                                    *)
(***************************************************************************)
EXTENDS Naturals, Sequences, FiniteSets

CONSTANTS
  MaxWords,        \* bound of the model: words of one run
  BlockWords,      \* WordBlockConfig: words of a full block
  MaxOutstanding,  \* block_encoder_count, the capacity of the completion channel
  SegmentBlocks,   \* target_segment_bytes, in blocks
  HotTailWords,    \* hot_tail_publish_words
  MaxStores,       \* bound of the model: runs that create the store
  MaxFaults,       \* bound of the model: failures and restarts
  MaxCleanups      \* bound of the model: cleanups that are scheduled

ASSUME DerivedStoreAssumption ==
  /\ {MaxWords, MaxStores, MaxFaults, MaxCleanups} \subseteq Nat
  /\ {BlockWords, MaxOutstanding, SegmentBlocks, HotTailWords} \subseteq Nat \ {0}

Block == [sequence : Nat, words : Nat]
Entry == [sequence : Nat, words : Nat, segment : Nat]
NoSegment == [open |-> FALSE, sequence |-> 0, blocks |-> {}]
NoTail == [start |-> 0, words |-> 0]
NoIndex == [store |-> 0, words |-> 0, directory |-> <<>>]
NoReader == [step |-> "idle", entry |-> [sequence |-> 0, words |-> 0, segment |-> 0]]
SegmentNumbers == 0 .. MaxWords

VARIABLES
  step,            \* what the writer does next; "none" without a writer
  operation,       \* "create", "clear", "append" or "finish"
  resume,          \* where the commit loop returns to
  remaining,       \* words of the batch being appended
  builder,         \* words in the block under construction
  words_since_tail_publish,
  encoding,        \* blocks submitted to the executor and not yet encoded
  completions,     \* the completion channel
  prepared_blocks,
  next_dispatch_sequence,
  next_sequence,
  active_segment,
  next_segment_sequence,
  status,          \* StoreStatus of the store, "none" before the first
  directory,
  committed_word_count,
  hot_tail,
  pending_blocks,
  remove_on_drop,
  segments,        \* repository: the segment artifacts
  index,           \* repository: the index artifact
  manifest,        \* repository: the store that published it, 0 without one
  held,            \* a query handle exists
  reader,          \* a query: its progress and the entry it is after
  cleanup,         \* cleanup_cache: its progress
  store,           \* history: number of the current store
  appended,        \* history: words handed to the current store
  swept,           \* history: a cleanup removed artifacts of a pinned key in use
  interrupted,     \* history: the process stopped since the store was created
  faults,          \* history: failures and restarts so far
  cleanups         \* history: cleanups so far

control == <<step, operation, resume, remaining>>
blocks == <<builder, words_since_tail_publish, encoding, completions,
            prepared_blocks, next_dispatch_sequence, next_sequence>>
segmenting == <<active_segment, next_segment_sequence>>
shared == <<status, directory, committed_word_count, hot_tail, pending_blocks, remove_on_drop>>
repository == <<segments, index, manifest>>
query == <<held, reader>>
maintenance == <<cleanup, cleanups, swept>>
history == <<store, appended, interrupted, faults>>
vars == <<control, blocks, segmenting, shared, repository, query, maintenance, history>>

Init ==
  /\ step = "none" /\ operation = "none" /\ resume = "none" /\ remaining = 0
  /\ builder = 0 /\ words_since_tail_publish = 0
  /\ encoding = {} /\ completions = <<>> /\ prepared_blocks = {}
  /\ next_dispatch_sequence = 0 /\ next_sequence = 0
  /\ active_segment = NoSegment /\ next_segment_sequence = 0
  /\ status = "none" /\ directory = <<>> /\ committed_word_count = 0 /\ hot_tail = NoTail
  /\ pending_blocks = {} /\ remove_on_drop = FALSE
  /\ segments = [s \in SegmentNumbers |-> 0] /\ index = NoIndex /\ manifest = 0
  /\ held = FALSE /\ reader = NoReader
  /\ cleanup = [step |-> "idle", listed |-> 0]
  /\ store = 0 /\ appended = 0 /\ swept = FALSE /\ interrupted = FALSE
  /\ faults = 0 /\ cleanups = 0

-----------------------------------------------------------------------------
(* Mutated forms of definitions below; no specification uses them.         *)

TailPublishableWhileEncoding ==
  builder > 0 /\ words_since_tail_publish >= HotTailWords

HasRoomForOneMore ==
  Cardinality(encoding) + Len(completions) + Cardinality(prepared_blocks) <= MaxOutstanding

PendingWithout(b) == pending_blocks

LastSegmentForgotten == "index"

LastBlockForgotten == "flush"

SegmentsForgotten == segments

CommittedOnce == resume

-----------------------------------------------------------------------------
(* Creating, clearing and opening.                                         *)

(***************************************************************************)
(* IndexedAnnotationWriter::create invalidates what the key has in the     *)
(* repository before it makes the store.  start_run has released the query *)
(* handles of the previous run and found no entry to open.                 *)
(***************************************************************************)
BeginCreate ==
  /\ step = "none" /\ ~held /\ manifest = 0 /\ store < MaxStores
  /\ step' = "clear_manifest"
  /\ operation' = "create"
  /\ UNCHANGED <<resume, remaining, blocks, segmenting, shared, repository, query,
                 maintenance, history>>

(***************************************************************************)
(* clear_cache_entry, before a fresh run: only an entry with a manifest.   *)
(***************************************************************************)
BeginClear ==
  /\ step = "none" /\ ~held /\ manifest # 0
  /\ step' = "clear_manifest"
  /\ operation' = "clear"
  /\ UNCHANGED <<resume, remaining, blocks, segmenting, shared, repository, query,
                 maintenance, history>>

(***************************************************************************)
(* remove_cache_artifacts: the manifest, the index, then the segments.     *)
(***************************************************************************)
RemoveManifest ==
  /\ step = "clear_manifest"
  /\ manifest' = 0
  /\ step' = "clear_index"
  /\ UNCHANGED <<operation, resume, remaining, blocks, segmenting, shared, segments, index,
                 query, maintenance, history>>

RemoveIndex ==
  /\ step = "clear_index"
  /\ index' = NoIndex
  /\ step' = "clear_segments"
  /\ UNCHANGED <<operation, resume, remaining, blocks, segmenting, shared, segments, manifest,
                 query, maintenance, history>>

NewStore ==
  /\ builder' = 0 /\ words_since_tail_publish' = 0
  /\ encoding' = {} /\ completions' = <<>> /\ prepared_blocks' = {}
  /\ next_dispatch_sequence' = 0 /\ next_sequence' = 0
  /\ active_segment' = NoSegment /\ next_segment_sequence' = 0
  /\ status' = "Live" /\ directory' = <<>> /\ committed_word_count' = 0 /\ hot_tail' = NoTail
  /\ pending_blocks' = {} /\ remove_on_drop' = TRUE
  /\ held' = TRUE /\ reader' = NoReader
  /\ store' = store + 1 /\ appended' = 0 /\ interrupted' = FALSE

RemoveSegments ==
  /\ step = "clear_segments"
  /\ segments' = [s \in SegmentNumbers |-> 0]
  /\ IF operation = "create"
       THEN step' = "idle" /\ NewStore
       ELSE /\ step' = "none"
            /\ UNCHANGED <<blocks, segmenting, shared, query, store, appended, interrupted>>
  /\ UNCHANGED <<operation, resume, remaining, index, manifest, maintenance, faults>>

(***************************************************************************)
(* open_persistent: the manifest and the index decide, the segments are    *)
(* not looked at.  What does not validate is removed.  The manifest is     *)
(* that of the last store, the only one that can have left one.            *)
(***************************************************************************)
Open ==
  /\ step = "none" /\ ~held /\ manifest # 0
  /\ step' = "open_index"
  /\ UNCHANGED <<operation, resume, remaining, blocks, segmenting, shared, repository, query,
                 maintenance, history>>

OpenIndex ==
  /\ step = "open_index"
  /\ IF index.store = store
       THEN /\ status' = "Finished" /\ directory' = index.directory
            /\ committed_word_count' = index.words
            /\ hot_tail' = NoTail /\ pending_blocks' = {} /\ remove_on_drop' = FALSE
            /\ step' = "touch"
            /\ UNCHANGED operation
       ELSE /\ step' = "clear_manifest" /\ operation' = "clear"
            /\ UNCHANGED shared
  /\ UNCHANGED <<resume, remaining, blocks, segmenting, repository, query, maintenance, history>>

(***************************************************************************)
(* The manifest is published again with the time of the access; when that  *)
(* fails the entry is removed.                                             *)
(***************************************************************************)
TouchManifest ==
  /\ step = "touch"
  /\ \/ /\ manifest' = store
        /\ held' = TRUE
        /\ step' = "none"
        /\ UNCHANGED <<operation, faults>>
     \/ /\ faults < MaxFaults
        /\ faults' = faults + 1
        /\ step' = "clear_manifest" /\ operation' = "clear"
        /\ UNCHANGED <<manifest, held>>
  /\ UNCHANGED <<resume, remaining, blocks, segmenting, shared, segments, index, reader,
                 maintenance, store, appended, interrupted>>

-----------------------------------------------------------------------------
(* The writer: append_batches and finish.                                  *)

(***************************************************************************)
(* Every way in which an operation of the writer fails: the store is       *)
(* marked failed and the lane gives up its writer.                         *)
(***************************************************************************)
Failing ==
  /\ status' = "Failed"
  /\ hot_tail' = NoTail
  /\ step' = "terminal"

AppendBatch(words) ==
  /\ step = "idle"
  /\ appended + words <= MaxWords
  /\ appended' = appended + words
  /\ remaining' = words
  /\ operation' = "append"
  /\ step' = "drain"
  /\ resume' = "fill"
  /\ UNCHANGED <<blocks, segmenting, shared, repository, query, maintenance, store,
                 interrupted, faults>>

AfterBuilder == IF builder = 0 THEN "flush" ELSE "drain"

(***************************************************************************)
(* finish dispatches the block under construction, if it holds words.      *)
(***************************************************************************)
Finish ==
  /\ step = "idle"
  /\ operation' = "finish"
  /\ step' = AfterBuilder
  /\ resume' = "room"
  /\ UNCHANGED <<remaining, blocks, segmenting, shared, repository, query, maintenance, history>>

(***************************************************************************)
(* accept_completed_block: a panic of the encoder fails the store; an      *)
(* encoding error does when the block is committed.                        *)
(***************************************************************************)
Accept(next) ==
  LET completion == Head(completions)
  IN  /\ completions # <<>>
      /\ completions' = Tail(completions)
      /\ IF completion.outcome = "panicked"
           THEN Failing /\ UNCHANGED prepared_blocks
           ELSE /\ prepared_blocks' = prepared_blocks \cup {completion}
                /\ step' = next
                /\ UNCHANGED <<status, hot_tail>>
      /\ UNCHANGED <<operation, remaining, builder, words_since_tail_publish, encoding,
                     next_dispatch_sequence, next_sequence, segmenting, directory, committed_word_count,
                     pending_blocks, remove_on_drop, repository, query, maintenance, history>>

(***************************************************************************)
(* drain_completed_blocks: whatever the channel holds, then the commits.   *)
(***************************************************************************)
Drain ==
  /\ step = "drain"
  /\ Accept("drain")
  /\ UNCHANGED resume

Drained ==
  /\ step = "drain"
  /\ completions = <<>>
  /\ step' = "commit"
  /\ UNCHANGED <<operation, resume, remaining, blocks, segmenting, shared, repository, query,
                 maintenance, history>>

(***************************************************************************)
(* extend_ordered fills the builder; a full one is dispatched.  After the  *)
(* last word the second drain of append_batch_inner and the one of         *)
(* publish_appended_prefix follow each other and are one here.             *)
(***************************************************************************)
Fill ==
  /\ step = "fill"
  /\ LET accepted == IF remaining < BlockWords - builder
                       THEN remaining ELSE BlockWords - builder
     IN  /\ remaining' = remaining - accepted
         /\ builder' = builder + accepted
         /\ words_since_tail_publish' = words_since_tail_publish + accepted
  /\ step' = "drain"
  /\ resume' = IF builder' = BlockWords THEN "room" ELSE "tail"
  /\ UNCHANGED <<operation, encoding, completions, prepared_blocks, next_dispatch_sequence,
                 next_sequence, segmenting, shared, repository, query, maintenance, history>>

OutstandingBlocks ==
  Cardinality(encoding) + Len(completions) + Cardinality(prepared_blocks)

HasRoom == OutstandingBlocks < MaxOutstanding

(***************************************************************************)
(* dispatch_current_block waits until fewer than max_outstanding_blocks    *)
(* are outstanding.                                                        *)
(***************************************************************************)
WaitForRoom ==
  /\ step = "room"
  /\ ~HasRoom
  /\ Accept("commit")
  /\ UNCHANGED resume

(***************************************************************************)
(* A hot tail goes on showing the words of a block that was dispatched.    *)
(***************************************************************************)
TailAtDispatch == hot_tail

Dispatch ==
  /\ step = "room"
  /\ HasRoom
  /\ encoding' = encoding \cup {[sequence |-> next_dispatch_sequence, words |-> builder]}
  /\ next_dispatch_sequence' = next_dispatch_sequence + 1
  /\ builder' = 0
  /\ words_since_tail_publish' = 0
  /\ hot_tail' = TailAtDispatch
  /\ step' = IF operation = "finish" THEN "flush" ELSE "fill"
  /\ UNCHANGED <<operation, resume, remaining, completions, prepared_blocks, next_sequence,
                 segmenting, status, directory, committed_word_count, pending_blocks,
                 remove_on_drop, repository, query, maintenance, history>>

(***************************************************************************)
(* publish_appended_prefix: the interval since the last publication may    *)
(* have elapsed at any time.                                               *)
(***************************************************************************)
TailPublishable == OutstandingBlocks = 0 /\ builder > 0

PublishHotTail ==
  /\ step = "tail"
  /\ TailPublishable
  /\ hot_tail' = [start |-> next_dispatch_sequence * BlockWords, words |-> builder]
  /\ words_since_tail_publish' = 0
  /\ step' = "idle"
  /\ UNCHANGED <<operation, resume, remaining, builder, encoding, completions,
                 prepared_blocks, next_dispatch_sequence, next_sequence, segmenting, status,
                 directory, committed_word_count, pending_blocks, remove_on_drop, repository, query, maintenance,
                 history>>

SkipHotTail ==
  /\ step = "tail"
  /\ ~(TailPublishable /\ words_since_tail_publish >= HotTailWords)
  /\ step' = "idle"
  /\ UNCHANGED <<operation, resume, remaining, blocks, segmenting, shared, repository, query,
                 maintenance, history>>

-----------------------------------------------------------------------------
(* commit_ordered_blocks.                                                  *)

Ready == {b \in prepared_blocks : b.sequence = next_sequence}

SegmentIsFull ==
  active_segment.open /\ Cardinality(active_segment.blocks) >= SegmentBlocks

PendingWith(b) == pending_blocks \cup {b.sequence}

(***************************************************************************)
(* commit_prepared_block, up to the insertion into pending_blocks.  A      *)
(* block that does not fit first has the active segment published.         *)
(***************************************************************************)
Commit ==
  /\ step = "commit"
  /\ \E b \in Ready :
       \/ /\ b.outcome = "failed"
          /\ Failing
          /\ UNCHANGED <<segmenting, pending_blocks>>
       \/ /\ b.outcome = "encoded"
          /\ SegmentIsFull
          /\ step' = "publish"
          /\ UNCHANGED <<segmenting, status, hot_tail, pending_blocks>>
       \/ /\ b.outcome = "encoded"
          /\ ~SegmentIsFull
          /\ pending_blocks' = PendingWith(b)
          /\ IF active_segment.open
               THEN /\ active_segment' = [active_segment EXCEPT !.blocks = @ \cup {b.sequence}]
                    /\ UNCHANGED next_segment_sequence
               ELSE /\ active_segment' = [open |-> TRUE, sequence |-> next_segment_sequence,
                                          blocks |-> {b.sequence}]
                    /\ next_segment_sequence' = next_segment_sequence + 1
          /\ step' = "directory"
          /\ UNCHANGED <<status, hot_tail>>
  /\ UNCHANGED <<operation, resume, remaining, blocks, directory, committed_word_count, remove_on_drop, repository,
                 query, maintenance, history>>

Committed ==
  /\ step = "commit"
  /\ Ready = {}
  /\ step' = resume
  /\ UNCHANGED <<operation, resume, remaining, blocks, segmenting, shared, repository, query,
                 maintenance, history>>

AfterCommit == "commit"

(***************************************************************************)
(* Then, under the lock, the directory entry; the hot tail it replaces     *)
(* goes in the same step.                                                  *)
(***************************************************************************)
CommitDirectory ==
  /\ step = "directory"
  /\ \E b \in Ready :
       /\ directory' = directory \o <<[sequence |-> b.sequence, words |-> b.words,
                                      segment |-> active_segment.sequence]>>
       /\ prepared_blocks' = prepared_blocks \ {b}
       /\ committed_word_count' = committed_word_count + b.words
  /\ hot_tail' = NoTail
  /\ next_sequence' = next_sequence + 1
  /\ step' = AfterCommit
  /\ UNCHANGED <<operation, resume, remaining, builder, words_since_tail_publish, encoding,
                 completions, next_dispatch_sequence, segmenting, status, pending_blocks,
                 remove_on_drop, repository, query, maintenance, history>>

(***************************************************************************)
(* publish_active_segment: the artifact first, then the pending blocks it  *)
(* replaces.                                                               *)
(***************************************************************************)
PublishSegment ==
  /\ step = "publish"
  /\ segments' = [segments EXCEPT ![active_segment.sequence] = store]
  /\ step' = "release"
  /\ UNCHANGED <<operation, resume, remaining, blocks, segmenting, shared, index, manifest,
                 query, maintenance, history>>

ReleasePending ==
  /\ step = "release"
  /\ pending_blocks' = pending_blocks \ active_segment.blocks
  /\ active_segment' = NoSegment
  /\ step' = IF resume = "index" THEN "index" ELSE "commit"
  /\ UNCHANGED <<operation, resume, remaining, blocks, next_segment_sequence, status,
                 directory, committed_word_count, hot_tail, remove_on_drop, repository, query, maintenance, history>>

-----------------------------------------------------------------------------
(* finish_inner after the dispatch.                                        *)

AfterFlush == IF active_segment.open THEN "publish" ELSE "index"

Flush ==
  /\ step = "flush"
  /\ OutstandingBlocks > 0
  /\ Accept("commit")
  /\ resume' = "flush"

Flushed ==
  /\ step = "flush"
  /\ OutstandingBlocks = 0
  /\ step' = AfterFlush
  /\ resume' = "index"
  /\ UNCHANGED <<operation, remaining, blocks, segmenting, shared, repository, query,
                 maintenance, history>>

(***************************************************************************)
(* persistent::publish: the index, then the manifest; both are flushed.    *)
(***************************************************************************)
PublishIndex ==
  /\ step = "index"
  /\ index' = [store |-> store, words |-> committed_word_count, directory |-> directory]
  /\ step' = "manifest"
  /\ UNCHANGED <<operation, resume, remaining, blocks, segmenting, shared, segments, manifest,
                 query, maintenance, history>>

PublishManifest ==
  /\ step = "manifest"
  /\ manifest' = store
  /\ step' = "finished"
  /\ UNCHANGED <<operation, resume, remaining, blocks, segmenting, shared, segments, index, query,
                 maintenance, history>>

MarkFinished ==
  /\ step = "finished"
  /\ remove_on_drop' = FALSE
  /\ status' = "Finished"
  /\ step' = "terminal"
  /\ UNCHANGED <<operation, resume, remaining, blocks, segmenting, directory, committed_word_count, hot_tail,
                 pending_blocks, repository, query, maintenance, history>>

-----------------------------------------------------------------------------
(* Failures of what the writer calls.                                      *)

(***************************************************************************)
(* The executor refuses the block, the repository the write, or the words  *)
(* of a batch are found out of order, after the first drain of             *)
(* append_batch_inner and before the builder takes one of them.            *)
(***************************************************************************)
OperationFails ==
  /\ \/ step = "room" /\ HasRoom
     \/ step = "commit" /\ (Ready # {} \/ resume = "fill")
     \/ step \in {"publish", "index", "manifest"}
  /\ faults < MaxFaults
  /\ faults' = faults + 1
  /\ Failing
  /\ UNCHANGED <<operation, resume, remaining, blocks, segmenting, directory, committed_word_count, pending_blocks,
                 remove_on_drop, repository, query, maintenance, store, appended, interrupted>>

(***************************************************************************)
(* A task of the executor: prepare_encoded_block under catch_unwind, and   *)
(* the bounded completion channel.                                         *)
(***************************************************************************)
Encode(b) ==
  /\ b \in encoding
  /\ Len(completions) < MaxOutstanding
  /\ encoding' = encoding \ {b}
  /\ \E outcome \in {"encoded", "failed", "panicked"} :
       /\ outcome # "encoded" => faults < MaxFaults
       /\ faults' = IF outcome = "encoded" THEN faults ELSE faults + 1
       /\ completions' = completions \o
            <<[sequence |-> b.sequence, words |-> b.words, outcome |-> outcome]>>
  /\ UNCHANGED <<control, builder, words_since_tail_publish, prepared_blocks,
                 next_dispatch_sequence, next_sequence, segmenting, shared, repository, query,
                 maintenance, store, appended, interrupted>>

-----------------------------------------------------------------------------
(* Handles.                                                                *)

SegmentsReclaimed ==
  [s \in SegmentNumbers |->
     IF \E i \in DOMAIN directory : directory[i].segment = s THEN 0 ELSE segments[s]]

(***************************************************************************)
(* StoreShared::drop, when the last of the writer and the query handles    *)
(* goes.                                                                   *)
(***************************************************************************)
DropShared ==
  segments' = IF remove_on_drop THEN SegmentsReclaimed ELSE segments

(***************************************************************************)
(* cancel, or the drop of a writer that is not terminal: first, under the  *)
(* lock of the pending blocks, discard_active_segment; then, under the     *)
(* lock of the state, the status.  A query may run in between.             *)
(***************************************************************************)
DiscardActiveSegment ==
  /\ step = "idle"
  /\ pending_blocks' = pending_blocks \ active_segment.blocks
  /\ active_segment' = NoSegment
  /\ step' = "cancel"
  /\ UNCHANGED <<operation, resume, remaining, blocks, next_segment_sequence, status, directory,
                 committed_word_count, hot_tail, remove_on_drop, repository, query, maintenance,
                 history>>

MarkCancelled ==
  /\ step = "cancel"
  /\ status' = "Cancelled"
  /\ hot_tail' = NoTail
  /\ step' = "terminal"
  /\ UNCHANGED <<operation, resume, remaining, blocks, segmenting, directory, committed_word_count,
                 pending_blocks, remove_on_drop, repository, query, maintenance, history>>

(***************************************************************************)
(* The drop of a terminal writer leaves the store as it is.                *)
(***************************************************************************)
ReleaseWriter ==
  /\ step = "terminal"
  /\ step' = "none"
  /\ active_segment' = NoSegment
  /\ encoding' = {} /\ completions' = <<>> /\ prepared_blocks' = {}
  /\ IF held THEN UNCHANGED segments ELSE DropShared
  /\ UNCHANGED <<operation, resume, remaining, builder, words_since_tail_publish,
                 next_dispatch_sequence, next_sequence, next_segment_sequence, shared, index,
                 manifest, query, maintenance, history>>

ReleaseHandle ==
  /\ held
  /\ held' = FALSE
  /\ reader' = NoReader
  /\ IF step = "none" THEN DropShared ELSE UNCHANGED segments
  /\ UNCHANGED <<control, blocks, segmenting, shared, index, manifest, maintenance, history>>

-----------------------------------------------------------------------------
(***************************************************************************)
(* A query copies directory entries under the lock, then looks for the     *)
(* block among the pending ones, then in its segment (read_entry_bytes).   *)
(***************************************************************************)
Snapshot ==
  /\ held /\ reader.step = "idle"
  /\ \E i \in DOMAIN directory : reader' = [step |-> "pending", entry |-> directory[i]]
  /\ UNCHANGED <<control, blocks, segmenting, shared, repository, held, maintenance, history>>

ReadPending ==
  /\ reader.step = "pending"
  /\ reader' = IF reader.entry.sequence \in pending_blocks
                 THEN NoReader ELSE [reader EXCEPT !.step = "segment"]
  /\ UNCHANGED <<control, blocks, segmenting, shared, repository, held, maintenance, history>>

ReadSegment ==
  /\ reader.step = "segment"
  /\ reader' = IF segments[reader.entry.segment] # 0
                 THEN NoReader ELSE [reader EXCEPT !.step = "missing"]
  /\ UNCHANGED <<control, blocks, segmenting, shared, repository, held, maintenance, history>>

-----------------------------------------------------------------------------
(* cleanup_cache, on the executor, with this key among the pinned ones.    *)

(***************************************************************************)
(* The cleanup lists the manifests.  An entry that has one is inspected:   *)
(* first the manifest, then the index; one that validates is only evicted  *)
(* when it is not pinned.                                                  *)
(***************************************************************************)
ListManifests ==
  /\ cleanup.step = "idle"
  /\ cleanups < MaxCleanups
  /\ cleanups' = cleanups + 1
  /\ cleanup' = [step |-> IF manifest # 0 THEN "inspect" ELSE "unpublished", listed |-> 0]
  /\ UNCHANGED <<control, blocks, segmenting, shared, repository, query, swept, history>>

InspectManifest ==
  /\ cleanup.step = "inspect"
  /\ cleanup' = IF manifest = 0 THEN [step |-> "idle", listed |-> 0]
                ELSE [step |-> "inspect_index", listed |-> manifest]
  /\ UNCHANGED <<control, blocks, segmenting, shared, repository, query, cleanups, swept, history>>

InspectIndex ==
  /\ cleanup.step = "inspect_index"
  /\ cleanup' = [step |-> IF index.store = cleanup.listed THEN "idle" ELSE "remove_manifest",
                 listed |-> 0]
  /\ UNCHANGED <<control, blocks, segmenting, shared, repository, query, cleanups, swept, history>>

(***************************************************************************)
(* A key that had no manifest in the list but has artifacts is removed,    *)
(* pinned or not.                                                          *)
(***************************************************************************)
SweepUnpublished ==
  /\ cleanup.step = "unpublished"
  /\ cleanup' = [step |-> IF \/ manifest # 0
                             \/ index # NoIndex
                             \/ \E s \in SegmentNumbers : segments[s] # 0
                            THEN "remove_manifest" ELSE "idle",
                 listed |-> 0]
  /\ UNCHANGED <<control, blocks, segmenting, shared, repository, query, cleanups, swept, history>>

(***************************************************************************)
(* Does an artifact that store s published belong to an entry that is      *)
(* published, or to a store that is in use?                                *)
(***************************************************************************)
InUse(s) == s # 0 /\ (s = manifest \/ (s = store /\ (held \/ step # "none")))

CleanupRemoves ==
  /\ \/ /\ cleanup.step = "remove_manifest"
        /\ manifest' = 0
        /\ swept' = (swept \/ InUse(manifest))
        /\ cleanup' = [cleanup EXCEPT !.step = "remove_index"]
        /\ UNCHANGED <<segments, index>>
     \/ /\ cleanup.step = "remove_index"
        /\ index' = NoIndex
        /\ swept' = (swept \/ InUse(index.store))
        /\ cleanup' = [cleanup EXCEPT !.step = "remove_segments"]
        /\ UNCHANGED <<segments, manifest>>
     \/ /\ cleanup.step = "remove_segments"
        /\ segments' = [s \in SegmentNumbers |-> 0]
        /\ swept' = (swept \/ \E s \in SegmentNumbers : InUse(segments[s]))
        /\ cleanup' = [cleanup EXCEPT !.step = "idle"]
        /\ UNCHANGED <<index, manifest>>
  /\ UNCHANGED <<control, blocks, segmenting, shared, query, cleanups, history>>

-----------------------------------------------------------------------------
(***************************************************************************)
(* The process stops; the artifacts stay.                                  *)
(***************************************************************************)
Crash ==
  /\ faults < MaxFaults
  /\ faults' = faults + 1
  /\ interrupted' = TRUE
  /\ step' = "none" /\ resume' = "none" /\ operation' = "none" /\ remaining' = 0
  /\ encoding' = {} /\ completions' = <<>> /\ prepared_blocks' = {}
  /\ builder' = 0 /\ words_since_tail_publish' = 0
  /\ next_dispatch_sequence' = 0 /\ next_sequence' = 0
  /\ active_segment' = NoSegment /\ next_segment_sequence' = 0
  /\ status' = "none" /\ directory' = <<>> /\ committed_word_count' = 0 /\ hot_tail' = NoTail
  /\ pending_blocks' = {} /\ remove_on_drop' = FALSE
  /\ held' = FALSE /\ reader' = NoReader
  /\ cleanup' = [step |-> "idle", listed |-> 0]
  /\ UNCHANGED <<repository, store, appended, swept, cleanups>>

-----------------------------------------------------------------------------
Clearing == RemoveManifest \/ RemoveIndex \/ RemoveSegments

Opening == OpenIndex \/ TouchManifest

Committing ==
  Drain \/ Drained \/ Commit \/ Committed \/ CommitDirectory \/ PublishSegment \/ ReleasePending

Appending == Fill \/ WaitForRoom \/ Dispatch \/ PublishHotTail \/ SkipHotTail

Finishing == Flush \/ Flushed \/ PublishIndex \/ PublishManifest \/ MarkFinished

Writer == Clearing \/ Opening \/ Committing \/ Appending \/ Finishing \/ MarkCancelled

Run ==
  \/ BeginCreate \/ BeginClear \/ Open
  \/ \E words \in 1 .. MaxWords : AppendBatch(words)
  \/ Finish \/ DiscardActiveSegment \/ ReleaseWriter \/ ReleaseHandle

Query == Snapshot \/ ReadPending \/ ReadSegment

Cleanup ==
  ListManifests \/ InspectManifest \/ InspectIndex \/ SweepUnpublished \/ CleanupRemoves

Executor == \E b \in encoding : Encode(b)

Next == Writer \/ Run \/ Executor \/ Query \/ Cleanup \/ OperationFails \/ Crash

(***************************************************************************)
(* An operation of the writer goes on while it can, and the executor runs  *)
(* the tasks it accepted.                                                  *)
(***************************************************************************)
Fairness == WF_vars(Writer) /\ WF_vars(Executor)

Spec == Init /\ [][Next]_vars /\ Fairness

-----------------------------------------------------------------------------
TypeOK ==
  /\ step \in {"none", "clear_manifest", "clear_index", "clear_segments", "open_index", "touch",
               "idle", "drain", "commit", "fill", "room", "tail", "directory", "publish",
               "release", "flush", "index", "manifest", "finished", "cancel", "terminal"}
  /\ builder \in 0 .. BlockWords
  /\ encoding \subseteq Block
  /\ \A i \in DOMAIN completions : completions[i].outcome \in {"encoded", "failed", "panicked"}
  /\ status \in {"none", "Live", "Finished", "Cancelled", "Failed"}
  /\ \A i \in DOMAIN directory : directory[i] \in Entry
  /\ segments \in [SegmentNumbers -> 0 .. MaxStores]
  /\ manifest \in 0 .. MaxStores
  /\ held \in BOOLEAN
  /\ reader.step \in {"idle", "pending", "segment", "missing"}

\* A cancellation of the store has begun.
Cancelling == step = "cancel" \/ status = "Cancelled"

Visible == committed_word_count + hot_tail.words

\* The blocks of the directory in order, and a hot tail that begins where they end.
IsPrefix ==
  /\ \A i \in DOMAIN directory : directory[i].sequence = i - 1
  /\ hot_tail.words > 0 => hot_tail.start = committed_word_count

(***************************************************************************)
(* What a query sees is a prefix of what was appended, without a gap and   *)
(* without a word twice, whatever order the encoders finish in; and while  *)
(* a store is live no word that a query could see disappears, because a    *)
(* block takes over from the hot tail in one step.                         *)
(***************************************************************************)
VisibleGrows ==
  [][/\ IsPrefix'
     /\ status = "Live" /\ status' = "Live" /\ store' = store => Visible' >= Visible]_vars

(***************************************************************************)
(* A query finds every block that it saw in the directory, in the pending  *)
(* blocks or in a segment, however far the writer went in the meantime,    *)
(* unless a cancellation of the store has begun or its artifacts were      *)
(* swept.                                                                  *)
(***************************************************************************)
ReaderFindsBlocks == reader.step = "missing" => swept \/ Cancelling

(***************************************************************************)
(* An encoder never blocks a thread of the shared executor: the completion *)
(* channel has room for every block that is being encoded.                 *)
(***************************************************************************)
EncodersNeverBlock == Cardinality(encoding) + Len(completions) <= MaxOutstanding

(***************************************************************************)
(* A manifest in the repository, also after a restart at any point of a    *)
(* publication or of a removal, stands for the index and every segment of  *)
(* the one store that published it.                                        *)
(***************************************************************************)
EntryIsWhole ==
  manifest # 0 /\ ~swept =>
    /\ index.store = manifest
    /\ \A i \in DOMAIN index.directory : segments[index.directory[i].segment] = manifest

(***************************************************************************)
(* A store that says Finished, also one that a later run opened, holds     *)
(* every word that was appended to it.                                     *)
(***************************************************************************)
FinishedHasAll == status = "Finished" => committed_word_count = appended

(***************************************************************************)
(* "Unfinished ephemeral artifacts are reclaimed when their last store     *)
(* handle is dropped" (native_web_storage.md): without a restart, a store  *)
(* that was not finished leaves no segment behind.                         *)
(***************************************************************************)
UnfinishedLeavesNothing ==
  step = "none" /\ ~held /\ manifest = 0 /\ ~interrupted /\ ~swept =>
    \A s \in SegmentNumbers : segments[s] = 0

(***************************************************************************)
(* Appending and finishing return: the writer never waits for a block that *)
(* no encoder will deliver.                                                *)
(***************************************************************************)
WriterReturns ==
  step \notin {"none", "idle", "terminal"} ~> step \in {"none", "idle", "terminal"}

(***************************************************************************)
(* "`pinned_keys`: Cache identities that cleanup must not remove"          *)
(* (persistent.rs): a cleanup removes no artifact of a pinned key that is  *)
(* published or in use.                                                    *)
(***************************************************************************)
PinnedNotRemoved == ~swept
=============================================================================
