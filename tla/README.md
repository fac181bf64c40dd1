# TLA+ models of LogicConduit

LogicConduit captures, decodes and analyses digital signals.  A user draws a graph of
sources, transforms, decoders and sinks; the application compiles the graph and runs it
while the user goes on editing it.  On a desktop every node of the graph has a thread; in a
browser one thread calls the nodes in turn.  This directory holds specifications of the
parts of that machinery where several actors meet or where the process may stop between two
steps, TLC configurations that check them on small instances, and TLAPS proofs that hold for
every instance.

* `PROJECT.json` lists the components, the runs, the lines each definition stands for, the
  findings, the hazards and the theorems.
* `X.tla` models component X; `MCX.tla` and `X*.cfg` instantiate it for TLC;
  `XProofs.tla` holds its theorems.  `OrderedAnswers` and `CaptureLog` are abstract
  specifications that `WorkerOperationQueue` and `LiveCaptureStore` implement.
* Source paths below are relative to `src/crates/`.

To check a run: `tlc -config PipelineManager.cfg MCPipelineManager`; to check the proofs:
`tlapm SharedSendersProofs.tla`.

## 1. The system and its parts

### The streaming runtime (`signal_runtime`)

| part | state | operations | what is hard |
|---|---|---|---|
| `SharedSenders` (`sender.rs`) | subscribers with policy and pending value, last value, closed flag | subscribe, unsubscribe, close, send, send_batch, would_block, take_disconnected | a broadcast has two phases, and the second waits outside the lock; three overflow policies; joiners are primed |
| `Receiver`, `ReceiverSelector` (`receiver.rs`) | put-back buffer, end-of-stream flag | recv, peek, put back, drain, select | two ways to learn of the end: a message or the disconnection |
| `PipelineManager` (`manager.rs`) | registry of running nodes, stop and keep-open flags, threads | add, start, remove, restart, reconfigure, request_stop, stop_all, wait | joins threads that may wait in a send or a receive; a restarted node inherits lists |
| `CooperativeManager` (`cooperative_manager.rs`) | nodes with probes, lists, done flags | add, remove, restart, pump, stop | a call that waits would stop the application; nodes are visited in the order of a hash map |
| `Pipeline`, scheduler, watchdog | threads of an offline run | build, start, wait | covered in its supervised form |
| payload negotiation, type registry | none | choose a payload type and protocol for a connection | pure |

What makes them correct: nothing is lost, doubled or reordered on the way to a consumer that
must see everything; a consumer that may lose values keeps the newest; the end of a stream
arrives, and only after the stream; a list has one sending thread; the supervisor's calls
return; the cooperative scheduler never makes a call that waits, and finishes.

### Worker pools (`platform_runtime`, `platform`)

`WorkerOperationQueue` gives numbered requests to the workers of a pool and releases their
results in submission order.  The native host runs workers as threads, the web host as Web
Workers that post messages.  Messages come late, twice, or from a worker that was given up.
Correct means: one terminal result per accepted request, in order, whatever fails.

### Graph layers

`node_graph_document` holds the drawing; `logic_analyzer_graph_registry`, `_capabilities`,
`_nodes` and `_editor_registry` describe node types; `_compiler` and `_plan` turn a drawing into
a processing graph (sequential code).  `_graph_runtime` prepares sources asynchronously, brings
a graph up on a manager (`LiveRun`) and applies edits to it; an edit is a list of manager calls
that can fail half way.  In the browser `_graph_orchestration` moves a run into a Web Worker: the
page keeps a client, and what the run publishes is replicated to the page in chunks
(`platform_artifacts/src/replication.rs`).  Correct means: what the page can open is whole, a run
that reports success is mirrored, and every run ends.

### Capture

`logic_analyzer_acquisition` and `_device_dslogic` drive an instrument;
`signal_capture_session` stores what arrives (`live_capture_store`: a chunk, then the manifest
that makes it visible, and recovery after a crash), indexes it while it grows
(`growing_capture_index`) and steers retention; `signal_capture` holds the static waveform index
and the client and server of the capture worker; `logic_analyzer_trigger` evaluates trigger
programs.  Correct means for the store: nothing acknowledged is lost, nothing partial is called
complete, and a reader that follows a capture gets all of it.

### Processing, storage, presentation

`signal_derived` collects decoded words in stores that grow while they are read: blocks are
encoded in parallel, committed in order, and become a cache entry at the end.
`signal_transforms`, `_protocol_decoders`, `_sinks` and `_generators` are the nodes;
`platform_artifacts` is the contract of artifact repositories, `platform` its native and browser
hosts: in the browser the repository is in memory, and a worker mirrors it into the
origin-private file system.  `_capture_formats` and `_capture_export` read and write files;
`logic_analyzer_ui`, `widgets`, `input_bindings` and the two `app_*` crates present it all.

How the models fit together: `CooperativeManager` rests on `ClearSendNeverWaits` of
`SharedSenders`; `PipelineManager` has the threads and calls around such lists; the run inside
`GraphWorker` publishes the artifacts of one `DerivedWordStore` in that store's order (segments,
index, manifest); `BrowserArtifactRepository` is where the page keeps them.

The hazards of these parts, each at its line, are listed in `PROJECT.json`, with the properties
that cover each.

## 2. Modules

### WorkerOperationQueue

`worker_operation_queue.rs`.  The variables are the fields of the queue: `ready`, `failed` and
`running` per worker, `pending`, `submission_order`, `terminal`, `cancelled`, the `delivered`
messages, and `last_submitted_sequence`; `drained` is a history of what the caller took.  Each
public method is an action (`Submit`, `WorkerReady`, `WorkerProgress`, `WorkerCompleted`,
`WorkerFailed`, `Cancel`, `DrainMessages`) and each private one an operator (`RecordTerminal`,
`ReleaseOrdered`, `DispatchReadyWorkers`, `Orphaned`).  Methods are atomic, since the queue is
behind a mutex (native) or a RefCell (web).  The `Host` actions say what the hosts may report
and when: completions for the running request, for another one, or for none, and failures at any
time.  A request is its number.  A completion that the queue finds inconsistent makes the worker
failed, as in the code.  `worker_failed` releases twice; one release at the end pops the same
prefix.  `OrderedAnswers` is what this promises the caller: a bounded line of requests, answered
from its front; `AnswersInLine` maps `submission_order` to the line and the released or drained
results to the answers.  Not modelled: the payloads, the registered operations, and which error a failure carries
beyond the three kinds callers tell apart.

### SharedSenders

`sender.rs`, with `recv` of `receiver.rs`.  Values are numbered in the order of sending, and a
message is the interval it carries, so that "nothing lost" is a statement about intervals.
`send_message` is a sequence of steps: `SendMessage` takes the lock, `RetryPending` and
`OfferMessage` visit the subscribers in order, `ReleaseLock` ends the first phase, and
`DeliverBlocked` or `GiveUpBlocked` settle the subscribers that had no room, one at a time, while
the supervisor (`Subscribe`, `Unsubscribe`, `SupervisorClose`, `TakeDisconnected`) and the
consumers (`Receive`, `ReceiveDisconnected`, `DropReceiver`) run.  `HasRoom`, `Gone`, `Queue` and
`Disconnected` stand for the crossbeam channel.  `seen`, `eos`, `cut`, `expired` and `clear` are
history.  A deadline may expire at any time after the wait began.  Not modelled: labels, the static
`Sender`, `split_senders`, and the depth measured by readiness probes.

### PipelineManager

`manager.rs`.  A node reads at most one other node (a forest); an instance is one incarnation of a
node with its receiver and its thread, and a list is named by the instance it was made for.  A call
of the supervisor is a sequence of steps (`call`, `target`, `todo`), because threads run between
its stores, its list operations and its joins:

* `RemoveNode`, `DetachTarget`, `SignalTarget`, `CloseTarget`, `JoinRemoved`;
* `RestartNode` (which stores `keep_outputs_open`), `DetachTarget`, `SignalTarget`,
  `JoinRestarted`, `Rewire` or `RewireFails`, `StartNode`;
* `AddNodeDeferred`, `StartAllDeferred`, `StartNode` or `StartFails`; `AddNode`;
* `RequestStop` or `StopAll`, `StopNode` per node, `AllSignalled`, `DrainNext`, `JoinDrained`,
  `AllJoined`; `WaitForAll` drains and joins without a stop.

The thread is the closure of `start_node`: `LoopTop`, `Recv`, `Send`, `SendBlocked`, `WorkEnds`,
`DropPorts`, `CheckKeepOpen`, `CloseOutputs`.  A bring-up that fails drops the manager
(`logic_analyzer_graph_runtime/src/runtime/execution.rs`), which is `stop_all`.

Abstractions: values are alike and subscriptions block (SharedSenders has the rest of a list);
the removal from the registry and the keep-open store are one step, as are the stop flag and the
list close of `StopNode` (no thread tells the order apart); relaxed stores become visible in
program order.  Not modelled: control messages and `reconfigure`, cancellation handles,
self-threading nodes, protocols and payload negotiation, failure reports, and panics of a node.

### CooperativeManager

`cooperative_manager.rs`.  The graph is any acyclic one; an edge `<<c, p>>` is the subscription of c
to p with its channel and probe.  A pump is a series of passes over `order`, an arbitrary order of
the nodes that may change when the map does: `StartPump`, `WorkReturnsOk` or `WorkReturnsErr` for
the next node that `Callable` admits, `EndPass`.  `AfterCall` ends the pump when the budget is
spent or, at any call, when the deadline has passed.  `RecvWaits` and `SendWaits` say when the body
of `work` would wait, independently of what the scheduler asks (`InputsReady`, `WouldBlock`); a node
reads one item of each input, or one of any input if it multiplexes, or all of a complete input, and
sends at most once, as the documentation of the module demands.  Edits happen between pumps:
`AddNode`, `RemoveNode`, `RestartNode`, `RestartFails`, `StopAll`.  Not modelled: `wait` (tests
only), `reconfigure`, the priming of joiners, and nodes with several outputs.

### LiveCaptureStore and CaptureLog

`live_capture_store/artifact_store.rs`, `session_repository.rs`, `records.rs`, and the capture
worker of `logic_analyzer_ui` that drives them.  `chunks`, `manifest`, `metadata` and `plan` are what
is durable; `state`, `writer_open` and `writer_failure` are the handle's memory; `step`, `argument` and
`sequence` say how far the current operation is.  Each publication or removal of an artifact is one
step: `CreateManifest`, `CreateMetadata`; `PublishChunk`, `PublishCommit` (append); `Finish`;
`FinalizeManifest`, `FinalizeMetadata`; `RecoverMetadata`, `RecoverManifest`; `Open`; `Reclaim`,
`ReclaimChunk`, `ReclaimManifest`, `ReclaimMetadata`; `Discard`, `RemoveArtifact`.  `Crash` and
`OperationFails` come between any two.  A cursor (`OpenCursor`, `CursorItem`, `ReadChunk`,
`CloseCursor`) decides under the lock and reads after releasing it; it skips chunks that were reclaimed
(`Position`).  `CaptureLog` is the promise: a log
that grows chunk by chunk, is sealed once, then only loses chunks from its front, and is removed
whole; `ImplementsLog` maps `manifest` to it.  A chunk covers one unit of the sample axis.  The order of
pin and discard is that of the application, where both happen on one thread.

### DerivedWordStore

`derived_word_store/store.rs`, `persistent.rs`, and the collector's calls.  A step of the writer is one
access to something that another thread sees: the completion channel, the locked state (`status`,
`directory`, `committed_word_count`, `hot_tail`), `pending_blocks`, or the repository (`segments`,
`index`, `manifest`).  `BeginCreate`, `RemoveManifest`, `RemoveIndex`, `RemoveSegments`, `NewStore` create
a store; `Open`, `OpenIndex`, `TouchManifest` open a finished one, and clear what does not validate;
`AppendBatch`, `Fill`, `WaitForRoom`, `Drain`, `Accept`, `Dispatch`, `PublishHotTail` take
words; `Commit`, `CommitDirectory`, `PublishSegment`, `ReleasePending` commit a block; `Finish`,
`Flush`, `PublishIndex`, `PublishManifest`, `MarkFinished` end it.  `Encode` is the executor, in any
order.  `Snapshot`, `ReadPending`, `ReadSegment` are a query; `ListManifests`, `InspectManifest`,
`InspectIndex`, `CleanupRemoves`, `SweepUnpublished` the background maintenance.  A cancellation is two
steps, as it takes two locks one after the other: `DiscardActiveSegment`, `MarkCancelled`.  `ReleaseWriter`
and `ReleaseHandle` are the drop of the two owners, the second of which removes an unfinished store.  All
stores share one cache key; a word is its position.  A batch may be found out of order (`OperationFails`);
the times of words that make it so are left out.  Not modelled: the store of a lane without a cache key.
Its identity is its own, so that it shares nothing with other stores, and its `finish` sets the status
without publishing index or manifest (`store.rs:1032`); its blocks go the way modelled here.

### GraphWorker

`worker_client.rs` and `worker_execution.rs` of `logic_analyzer_graph_orchestration`, and
`platform_artifacts/src/replication.rs`.  The page starts, stops, abandons and polls a run (`StartRun`,
`StopRun`, `AbandonRun`, `PollRun`), posts requests (`PostRequests`) and takes messages (`Deliver`, which
applies replication events to `page` and `receiving`; in `ApplyFails` the page's repository refuses one of
them, the events before it stay, and the client gives up the worker).  The worker handles requests
(`HandleStart`, `HandleCancel`) and advances its run by slices (`Advance`), whose publications go into
`journal` and leave it in batches bounded in events and bytes (`DrainStep`, `Drain`); when a transfer fails
the run ends with it (`TransferFails`).  `LoseWorker` is the
host's failure.  An artifact is the run that published it; on the page it is the set of runs its chunks
came from, so that a mixture shows.

### BrowserArtifactRepository

`platform/src/host/web_artifact_repository.rs` and `opfs_worker_bootstrap.js`.  `memory` is the repository
the page reads; `commands`, `queued_bytes`, `in_flight` and `next_sequence` are `MirrorState`; `posted` and
`replies` are the two directions of the port; `task`, `stale`, `data` and `pointer` are the worker and its
files.  `Publish`, `Remove`, `Pump`, `HandleReply`, `HandleError` are the page; `TakeCommand`, `WriteData`,
`WritePointer`, `PointerOverQuota`, `CleanUp`, `RemovePointer`, `Evict`, `RemoveEvicted`, `MeetStale`,
`CommandFails` the worker, one file operation that matters to others at a time; `SiteDataLost` and `Reload`
the browser.  The browser may refuse to remove a file.  Where the code swallows that (`cleanupOldData`, the
orphans of `records`, `initialize`, the data of a publication whose pointer could not be written) the step goes on without it; elsewhere the command fails, with some of its
files removed and some not (`Discards`).  `task.victim` is the artifact whose pointer an eviction has removed
and whose data it is about to remove.  `lost` and `undeleted` are history: up to which command the mirror of a
key may miss something, and which files of a key the last complete clean-up had to leave.  All artifacts have
one length, the unit of the budgets and the quota; a pointer takes no room but may still be refused for want
of it.  The attempts of one command have one generation.  Not modelled: the empty file that a failed write
leaves, a pointer file that exists but cannot be read, and a browser without such a file system.

## 3. Runs

| run | instance | shows |
|---|---|---|
| `worker_queue` | 2 workers, 4 requests, 3 outstanding, any worker may fail | `TypeOK`, `NoRequestLost`, `DeliveredInOrder`, `FirstResultStays`; implements `OrderedAnswers` (`AnswersInLine`); `AnsweredWhilePoolLives` |
| `shared_senders` | one subscriber per policy, depth 1, 3 values, batches of 2, sticky | `Lossless`, `LossyKeepsNewest`, `NaturalEndIsComplete`, `ClearSendNeverWaits`, `SendCompletes`, `EndIsSeen` |
| `pipeline_manager` | producer and consumer, 3 instances, depth 1, starts may fail | `OneSenderPerList`, `RestartKeepsListOpen`, `NoForgottenSubscriber`, `CallReturns`, `EndPropagates` |
| `cooperative_manager` | two sources, a multiplexer, a sink with a complete input, 2 edits, refused restarts | `NeverBlocks`, `RunFinishes` |
| `capture_store` | one session, 3 chunks, 2 crashes or errors | `CommittedPrefixStored`, `ReaderGetsEveryChunk`, `CompleteMeansWhole`; implements `CaptureLog` (`ImplementsLog`); `InterruptedIsSealed`, `ReaderReachesEnd` |
| `derived_store` | 2 runs of one key, 6 words in blocks of 2, 2 blocks per segment, 2 encoders, 2 faults, a cleanup | `ReaderFindsBlocks`, `EncodersNeverBlock`, `EntryIsWhole`, `FinishedHasAll`, `UnfinishedLeavesNothing`, `VisibleGrows`, `WriterReturns` |
| `graph_worker` | 2 runs, up to 2 segments of length 3, batches of 4 events and 2 bytes, 1 fault | `PageEntryWhole`, `NeverRefused`, `FinishedIsMirrored`, `RunEnds` |
| `browser_repository` | 2 keys, 4 commands, memory 1, queue 2, 2 in flight, disk 2, 3 faults | `PointerIsWhole`, `QuietMirrorsMemory`, `CountersAreExact`, `MirrorSettles` |

The other four runs are expected to fail: each states what a comment says and shows a behaviour of the
code that contradicts it (section 5).  Each module defines `TypeOK`; a run checks it for the queue,
theorems prove it for all of them.

**Bounds.**  Two workers and three outstanding requests are enough for requests to overtake each
other, to queue and to be cancelled in each state; the fourth is submitted after releases.  Depth 1
makes every second message meet a full channel; three values let one supersede a pending one, and
two in a batch tell a lost value from a lost message.  One subscriber of each policy gives every
pair of policies.  Three instances allow one node of a pair to be replaced while the other runs.  A
budget of two calls makes pumps end within a pass.  Three chunks leave one before and one behind a
reclaimed prefix, and two faults interrupt a recovery that follows an interruption.  Six words make
three blocks, of which two may be encoded in either order while the third has to wait, in two
segments; the second store meets what the first left.  A segment of three bytes takes two batches, and a
batch holds fewer events than a start journals.  A memory for one artifact makes publications be refused
until the other key is removed.  A disk for two files holds both keys until a replacement, or a file that
could not be removed, needs the room; then publications evict each other or fail.  Three faults let a removal
be refused, and the site's data be cleared or the page reloaded, around a failing command.  With two keys an
eviction has one candidate; that it takes the oldest of several matters to none of the properties, and the
theorems hold for any number.  Instances with three keys, with a memory for two, and with four faults (up to 3.1
million states) pass too.
`MaxSequence`, `MaxProgress`, `MaxValues`, `MaxBatch`, `MaxSubscriptions`, `MaxInstances`, `MaxItems`,
`MaxEdits`, `MaxChunks`, `MaxWords`, `MaxStores`, `MaxCleanups`, `MaxRuns`, `MaxSegments`, `MaxSlice`,
`MaxCommands` and `MaxFaults` bound the models only; the other constants are parameters of the code.
Deadlock checking is off where the bounds end all behaviours or the system may rest: all of these
systems may stop.

**Fairness.**

* Worker queue: a started worker reports readiness or fails, and a kernel, being finite, answers.
* Senders: a broadcast goes on, a deadline expires, and the reader of a Block subscription keeps reading, as
  a work loop does; nothing is assumed of Lossy and Disconnect readers.
* Pipeline manager: the operating system runs every thread, the supervisor goes on with its call, and
  `wait` is called on graphs whose sources end (strong fairness of `WorkEnds` of sources during a wait).
* Cooperative manager: the host goes on pumping, as the comment on `pump` demands.
* Capture store: an operation that was begun goes on; the capture ends some time (strong fairness of
  `Finish`) and its worker finalizes what it finished, since that is straight-line code; the application
  recovers at start; a reader goes on reading.  Nothing is assumed of failures, reclamation or discard.
* Derived store: the writer goes on with its call and the executor with its jobs.  Nothing is assumed of
  whoever calls the writer, of queries or of the cleanup.
* Graph worker: the page polls its run and posts its requests, the browser delivers, the worker handles its
  requests and advances its run.
* Browser repository: the page's interval pumps, the browser delivers replies, the worker goes on.

**Mutants.**  Each property is known to fail for some plausible mistake: the operators at the head
of each module, marked as mutated forms, replace one definition each, as listed in `PROJECT.json`.

## 4. Proofs

`WorkerOperationQueueProofs`, from `QueueAssumption` (what `WorkerOperationQueue::new` accepts):

* `TypeCorrect`: `TypeOK` includes the bound on outstanding requests and is inductive.  The work is in
  `ReleaseOrdered`, whose prefix is given by CHOOSE (`ReleasablePrefix` shows that it exists, by a least
  counterexample), and in `DispatchReadyWorkers`, where the rank of a free worker must be a position in the
  queue (`RankIsPosition`).
* `QueueAnswersInLine`: the queue implements `OrderedAnswers`.  Every action either accepts at the back,
  releases a prefix (`Releases`), or maps to a stutter.
* `DeliveredInOrderHolds`: needs `LineOrdered`, that the line is increasing and younger than everything
  answered before.
* `NoRequestLostHolds`, from `PlacedInv`: every request in line is queued, with a worker or has its result;
  a queued one is queued once, without worker or result; no two workers have the same request, and none has
  one younger than the last submitted; a cancelled request has its result.  Without the last two
  the next request could be one that a worker has already, and a cancelled one could be lost with its worker.  `DispatchPlaces` follows the requests that a round of
  dispatching takes off the queue, `ReleasePlaces` those a release takes off the line.
* `FirstResultStaysHolds`, an action property from the same invariant: whatever a step records, it keeps the
  results that were there until `ReleaseOrdered` delivers them (`ReleaseDelivers`).

`SharedSendersProofs`, from `SharedSendersAssumption`:

* `TypeCorrect`: types, and no channel is longer than its capacity.
* `BroadcastStateHolds`: the strengthening that the next two theorems need.  It relates the
  producer's place in a broadcast to the list: who is still to be offered the message is on the
  list, nobody is both to be offered and awaited, the sets are empty outside their phases, the
  message being sent ends at the newest value, the last value of a sticky list is the newest, and
  only Lossy subscribers have pending values.
* `LosslessHolds`: each Block or Disconnect subscriber on the list has an unbroken sequence of
  values up to the newest, or up to the one before the message that it is still owed.  The proof goes
  subscriber by subscriber (`UpToDate`) through each action, with `ConsecutiveAppend` and
  `ConsecutiveTail` for the two ends of a channel.
* `ClearSendNeverWaitsHolds`: after `would_block` answered no, the broadcast waits for nobody.  Its
  invariant is that a subscriber still to be offered has room or no receiver; consumers only make
  room, and the lock keeps joiners out.
* `LossyKeepsNewestHolds`, from `LossyInv`: besides the property, all that a subscriber has which is still to
  be offered the message is older than the message, pending values belong to subscribers, and the producer
  never waits for a Lossy one.  A retried pending value therefore goes between what is queued and the message.
* `NaturalEndIsCompleteHolds`, from `EndInv` and `Lossless`: before the producer is done, a subscription that
  nobody cut is on the list or lost its receiver, and its consumer has seen no end; afterwards its channel
  holds all it misses, with or without the end-of-stream message behind (`Ending`).  `Lossless` gives this at
  the close, where no broadcast is under way, and `EndingTail` keeps it while the consumer reads on.

`PipelineManagerProofs`, for every forest of nodes, depth and number of instances:

* `TypeCorrect`.
* `OneSenderPerListHolds`, from `Ownership`: of the instances that are alive, pending, registered or the
  target of a call, no two have the same list.  The target of a call is not registered, and at `rewire`,
  where the list changes hands, its thread has ended; the join makes it so.
* `RestartKeepsListOpenHolds`, from `KeptOpen`: from the call to the rewiring, the replaced instance has
  `keep_outputs_open` set, is not closing, and its list is open; a replaced instance that will still send
  has an open list.
* `NoForgottenSubscriberHolds`, from `Wiring`: `detach` looks for the list of the node that is registered
  under the producer's name now, so the invariant says that there is no other: a subscriber is on the list of
  the node it reads, which is registered or is itself being removed or restarted.  A removal closes that list
  before it forgets the node, a failed rewiring drops it, a rewiring hands it on.

`LiveCaptureStoreProofs`, for any number of chunks, crashes and errors.  `StoreInv` joins `ManifestOK`,
`PlaceOK` (what the artifacts say at each place of each operation), `StoredOK` (the chunks between the
manifest's ends are there, except those a reclamation or discard has reached), `OutcomeOK` (what
`produced` is while no append failed, and that Complete implies a finalized manifest of all of it) and
`ReaderOK` (where the cursor may stand).  `StoreInvHolds` gives `CommittedPrefixStoredHolds`,
`ReaderGetsEveryChunkHolds` and `CompleteMeansWholeHolds`; `StoreImplementsLog` is the refinement of
`CaptureLog`, action by action.

`BrowserArtifactRepositoryProofs`, for every finite nonempty set of keys and all limits.  `RepositoryInv`
joins `TypeOK`; `TaskOK`; `OrderOK` (commands pass the queue, the port and the worker in the order of their numbers,
and no pointer is younger than what is still to be applied, so that a failed publication never removes
the data a pointer names); `FilesOK` (data is there before its pointer, a removed directory is empty);
`MirrorOK` (the last command under way for a key leads to what memory holds, unless it is older than what
the mirror may miss; a key without commands under way already agrees, but for the files that could not be
removed) and the counters.  `DiscardKeepsNamed` is the fact behind `FilesOK`: no step of the worker, failing
half way or not, removes data that a pointer names.
`PointerIsWholeHolds`, `QuietMirrorsMemoryHolds` and `CountersAreExactHolds` follow.  `QuietMirrorsMemory`
alone says nothing while anything is under way; `MirrorOK` is its strengthening.

`CooperativeManagerProofs`, for every finite graph, order of the nodes, channel depth, budget and
number of edits.  `NeverBlocksHolds`: what the scheduler calls does not wait.  A multiplexer is called because
an open input has a message; it waits nevertheless if the message is no item while another input is open and
empty.  `MarkersOK`, the strengthening, excludes this: the end-of-stream marker is only in channels of
closed lists, through all edits, refused restarts and stops.

`DerivedWordStoreProofs`, for every number of words, size of block, segment and completion channel, and any
number of runs, failures, restarts and cleanups.  `StoreInv` has three layers:

* what the writer counts: the types, with no more blocks under way than the channel holds; `PhaseOK` (what
  each place of an append or a finish implies); `WordsOK` (an appended word is in a dispatched block, in the
  builder or in the rest of the batch, and what is committed is the words of the first `next_sequence` blocks);
  `FlightOK` (no block between the committed and the dispatched ones is missing, and each has its words);
  `DirectoryOK`, `TailOK` and `EndOK` (directory, hot tail and index agree with these counts);
* where each block is: `OwnerOK` (a manifest is that of the last store, and no removal runs while a handle
  exists), `ActiveOK`, and `PlacedOK` (each block of the directory is in a published segment of this store or
  pending in memory, and, while writing, in a published segment or in the active one);
* what others rely on: `EntryIsWhole`, `ReaderOK` and `ReaderFindsBlocks`, and `LeftOK` (a segment in the
  repository belongs to a directory whose owner will remove it, or to a manifest).

`EncodersNeverBlockHolds` follows from the first layer and the guard of `Dispatch`, `FinishedHasAllHolds` and
`VisibleGrowsHolds` from the counts, the other three from the places.  The artifacts that a cleanup removed
(`swept`), a store whose cancellation has begun (`Cancelling`) and, for `UnfinishedLeavesNothing`, a restart
are excepted in the properties themselves; `derived_store_cleanup` shows that the first exception is needed,
and the two locks of a cancellation the second.

`GraphWorkerProofs`, from `GraphWorkerAssumption`: for every number of runs, segments and faults, every
length of a segment, every limit of a batch in events and bytes, every number of outstanding requests and
every slice.  The measure is a position in the plan of a store, `<<rank, offset>>`: the rank of the
artifact that is next (segments, index, manifest) and how much of it has been sent.  A removal, or the
start of a run, leads to `Origin`; a chunk leads from one position to the next.  `GraphInv` joins,
besides the types:

* `ClientOK`: a run that is pending and not cancelled is the one the UI shows; a run that was reported is
  no longer pending;
* `RequestsOK`: in the requests on their way, a start is younger than the active run and the starts
  before it, and each of these is cancelled in between (`QueueOK`), so that a start finds the worker
  free; while the host is connected the client has every run in its books that is active, will be
  started, or has a message under way (`Booked`);
* `WorkerOK`: messages under way and the journal form one chain of positions: each message begins where
  the one before it ended, the journal where the last message ended, and it ends at what the run has
  published;
* `PageOK`: whatever manifest the page has, its store is there; and for the run that is followed, the
  page has come exactly to the position where the first message under way begins, with no manifest until
  then.

None of the three properties is inductive: whether a chunk is accepted, and whether a manifest completes
its store, depends on every batch before it.  `DrainOK` shows that a drain cuts a journal into a chain of
events that ends where the rest of the journal begins, whatever the limits of the batch; `ApplyAllOK`
that the page accepts a chain that begins where the page is, comes to where it ends, and keeps every
manifest's store whole.  Both are about recursive functions, and the library's induction principles take
an operator that the provers cannot instantiate; `LeastElement` and `SetInduction` derive induction over
a set from the well-foundedness of the naturals instead.  `PageEntryWholeHolds` and `NeverRefusedHolds`
follow from the invariant, `FinishedIsMirroredHolds` from it and the step `Deliver`: the position before
a `Finished` message is the end of the plan.  An application that stops in the middle of a batch leaves
the page where a prefix of the chain ends (`ChainPrefix`, `ApplyFailsStep`).

Only model-checked:

* the liveness properties (`AnsweredWhilePoolLives`, `SendCompletes`, `EndIsSeen`, `CallReturns`,
  `EndPropagates`, `RunFinishes`, `InterruptedIsSealed`, `ReaderReachesEnd`, `WriterReturns`, `RunEnds`,
  `MirrorSettles`): fairness and ENABLED are out of the prover's reach.

All other properties of the passing runs are theorems.

## 5. Findings

Disagreements between the code and what its comments say, each with a run that exhibits it; the quotations
are in `PROJECT.json`.

1. `pipeline_manager_restart`: a node that ended by itself has closed its lists; a restart hands the
   closed lists to the fresh instance, which nobody hears.
2. `pipeline_manager_partial_start`: after a bring-up that failed half way, `stop_all` can wait for ever
   for a producer that waits for room in the channel of a node that was never started.
3. `cooperative_manager_join`: a node that is done keeps its receivers, so a producer behind its full
   channel is never called again and the run does not finish.
4. `derived_store_cleanup`: the background cleanup takes every key without a manifest for abandoned; a
   store that is being written has none yet, so a cleanup that listed the manifests before removes its
   segments although its key is pinned.

Seen while modelling and worth knowing, without a run of their own:

* Queue: a request submitted after the last worker failed is accepted and never answered
  (`worker_operation_queue.rs:155`); only those queued at the failure are rejected.
* Senders: a close by the supervisor while a send waits for room puts the end-of-stream message in front of
  the value in flight (`sender.rs:331`); `close` drops the pending value of a Lossy subscriber, so a display
  may end at an older level; a Disconnect consumer that left during a waiting send is reported like a laggard.
* Cooperative manager: an input that waits for the complete stream behind a shorter Block channel stops both
  nodes, and a refused `restart_node` drops the old lists without flipping their closed flag, so that the
  consumers are never called again (`RunFinishes` names these two states); a source that always has work can
  use up the budget of every pump (`cooperative_manager.rs:625`).
* Capture store: a finalization stopped between manifest and metadata leaves a sealed session InProgress
  (`artifact_store.rs:488`); a reclamation cut short leaves a manifest that names missing chunks; a discard
  leaves a chunk that was published but not committed (`artifact_store.rs:948`).
* Derived store: a cancellation discards the blocks of the active segment before it sets the status, so a
  query in between may miss a block of a store that still says Live (`store.rs:968`); a node failure upstream lets the collector finish, so the truncated store is published
  although the run reports Failed; segments are not flushed before a power cut (`store.rs:1248`); the late
  drop of an unfinished store's handle would remove its successor's segments, which only the order of
  `start_run` prevents (`store.rs:112`).
* Graph worker: a stop pressed as the run finishes makes the client drop its artifacts and yet report
  Finished.
* Browser repository: eviction is per artifact, so a manifest may outlive its segments
  (`persistent.rs:381` finds out); a publication dropped because the queue is full leaves the older
  generation on disk (`web_artifact_repository.rs:178`); a superseded file that the browser refuses to remove
  takes room until the next clean-up of its key, eviction or reload.

## 6. Not modelled

By component, with the reason for each, in `PROJECT.json`.  In short:

* Rendering, widgets, file formats, device protocols, decoders, transforms, the graph compiler and the
  document are the bulk of the repository: sequential code, or pure input and output.  What there is to say
  about them is about data, of sizes and widths that no small instance has.  Node bodies appear only as
  "reads, then sends at most once".
* The waveform index and the growing capture index: summaries over arrays of samples; one writer and
  readers of snapshots under one lock.
* The edit lists of a live run and source preparation: sequences of manager calls, each of which
  `PipelineManager` models.
* The capture worker's client: the pattern of numbered requests, cancellation and lost transport that
  `GraphWorker` has, with queries in place of replication.
* Inside modelled components: control messages and `reconfigure`, put-back and peek of receivers, panics of
  a node, memory ordering of the flags, allocation failures.
