---------------------------- MODULE GraphWorker ----------------------------
(***************************************************************************)
(* A graph run in the browser, from the page to the worker and back: the   *)
(* UI's run and the GraphWorkerClient on the page, the GraphWorkerRuntime  *)
(* in the worker, and the replication of the artifacts that the run        *)
(* publishes (logic_analyzer_graph_orchestration and                       *)
(* platform_artifacts/src/replication.rs).  Requests and messages are      *)
(* posted one by one and arrive in order.                                  *)
(*                                                                         *)
(* The artifacts are those of one derived-word store: segments, then an    *)
(* index, then a manifest.  An artifact holds the sequence number of the   *)
(* run that published it; on the page it is the set of the runs that its   *)
(* chunks came from, {} where there is none.                               *)
(***************************************************************************)
EXTENDS Naturals, Sequences, FiniteSets

CONSTANTS
  MaxRuns,         \* bound of the model: runs that are started
  MaxSegments,     \* bound of the model: segments of a store
  SegmentLength,   \* length of a segment; index and manifest have length 1
  MaxEvents,       \* MAX_REPLICATION_EVENTS
  MaxPayload,      \* MAX_REPLICATION_PAYLOAD_BYTES
  MaxOutstanding,  \* GraphWorkerClient::max_outstanding
  MaxSlice,        \* bound of the model: artifacts published in one slice
  MaxFaults        \* bound of the model: failures of runs and of the host

ASSUME GraphWorkerAssumption ==
  /\ {MaxRuns, MaxSegments, MaxFaults} \subseteq Nat
  /\ {SegmentLength, MaxEvents, MaxPayload, MaxOutstanding, MaxSlice} \subseteq Nat \ {0}

Run == 1 .. MaxRuns
Manifest == 0
Index == 1
SegmentKeys(count) == 2 .. count + 1
Key == 0 .. MaxSegments + 1

LengthOf(key) == IF key \in {Manifest, Index} THEN 1 ELSE SegmentLength

NoRun == [sequence |-> 0, finished |-> FALSE, stopping |-> FALSE]
Idle == [sequence |-> 0, published |-> 0, failed |-> FALSE]
NotReceiving == [next_offset |-> 0, from |-> {}]

VARIABLES
  run,            \* page: the UI's WorkerGraphRun
  next_sequence,  \* client state
  pending,
  cancelled,
  outbound,
  updates,        \* last messages for the run to take; it ignores the others
  disconnected,   \* "no", or why: "host" or "protocol"
  page,           \* page: the artifact repository
  receiving,      \* page: ArtifactReplicationReceiver::pending
  inbox,          \* requests on their way to the worker
  channel,        \* messages on their way to the page
  active,         \* worker: the active run, and how much of its store it published
  stored,         \* worker: the artifact repository
  journal,        \* worker: ReplicatingArtifactRepository::pending
  extent,         \* history: the segments of each run's store
  faults          \* history: failures so far

client == <<next_sequence, pending, cancelled, outbound, updates, disconnected>>
mirror == <<page, receiving>>
worker == <<active, stored, journal>>
vars == <<run, client, mirror, inbox, channel, worker, extent, faults>>

Init ==
  /\ run = NoRun
  /\ next_sequence = 0 /\ pending = {} /\ cancelled = {} /\ outbound = <<>>
  /\ updates = [s \in Run |-> {}] /\ disconnected = "no"
  /\ page = [k \in Key |-> {}] /\ receiving = [k \in Key |-> NotReceiving]
  /\ inbox = <<>> /\ channel = <<>>
  /\ active = Idle /\ stored = [k \in Key |-> 0] /\ journal = <<>>
  /\ extent \in [Run -> 1 .. MaxSegments]
  /\ faults = 0

-----------------------------------------------------------------------------
(* Mutated forms of definitions below; no specification uses them.         *)

PlanManifestFirst(count) ==
  [i \in 1 .. count |-> i + 1] \o <<Manifest, Index>>

TransferredEarly == TRUE

DroppedEvenTerminal(kind) == TRUE

NeverRestarts(e, r) == FALSE

-----------------------------------------------------------------------------
(* GraphWorkerClient.                                                      *)

(***************************************************************************)
(* cancel: the sequence stays pending until the worker's last message.     *)
(***************************************************************************)
Cancel(s) ==
  IF s \in pending
    THEN /\ cancelled' = cancelled \cup {s}
         /\ outbound' = IF s \in cancelled THEN outbound
                        ELSE Append(outbound, [kind |-> "Cancel", sequence |-> s])
    ELSE UNCHANGED <<cancelled, outbound>>

(***************************************************************************)
(* fail_all, from disconnect_host and disconnect_graph.                    *)
(***************************************************************************)
FailAll(why) ==
  /\ disconnected' = why
  /\ pending' = {}
  /\ cancelled' = {}
  /\ outbound' = <<>>
  /\ updates' = [s \in Run |-> IF s \in pending THEN updates[s] \cup {"Failed"}
                               ELSE updates[s]]

-----------------------------------------------------------------------------
(* The UI.                                                                 *)

Running == run.sequence # 0 /\ ~run.finished

(***************************************************************************)
(* start_run: the entry of this graph is cleared on the page, then the     *)
(* client takes the request or refuses it.                                 *)
(***************************************************************************)
StartRun ==
  /\ ~Running
  /\ next_sequence < MaxRuns
  /\ page' = IF page[Manifest] # {} THEN [k \in Key |-> {}] ELSE page
  /\ IF disconnected # "no" \/ Cardinality(pending) >= MaxOutstanding
       THEN run' = NoRun /\ UNCHANGED <<next_sequence, pending, outbound>>
       ELSE /\ next_sequence' = next_sequence + 1
            /\ pending' = pending \cup {next_sequence'}
            /\ outbound' = Append(outbound, [kind |-> "Start", sequence |-> next_sequence'])
            /\ run' = [NoRun EXCEPT !.sequence = next_sequence']
  /\ UNCHANGED <<cancelled, updates, disconnected, receiving, inbox, channel, worker, extent,
                 faults>>

(***************************************************************************)
(* stop_command.                                                           *)
(***************************************************************************)
StopRun ==
  /\ Running /\ ~run.stopping
  /\ Cancel(run.sequence)
  /\ run' = [run EXCEPT !.stopping = run.sequence \in pending]
  /\ UNCHANGED <<next_sequence, pending, updates, disconnected, mirror, inbox, channel, worker,
                 extent, faults>>

(***************************************************************************)
(* clear_derived_data_presentations: another document replaces the run;    *)
(* nobody takes its updates any more.                                      *)
(***************************************************************************)
AbandonRun ==
  /\ Running
  /\ Cancel(run.sequence)
  /\ run' = NoRun
  /\ UNCHANGED <<next_sequence, pending, updates, disconnected, mirror, inbox, channel, worker,
                 extent, faults>>

Terminal == {"Finished", "Failed", "Cancelled"}

(***************************************************************************)
(* poll_run: the run takes its updates.                                    *)
(***************************************************************************)
PollRun ==
  /\ Running
  /\ updates[run.sequence] # {}
  /\ run' = [run EXCEPT !.finished = TRUE]
  /\ updates' = [updates EXCEPT ![run.sequence] = {}]
  /\ UNCHANGED <<next_sequence, pending, cancelled, outbound, disconnected, mirror, inbox,
                 channel, worker, extent, faults>>

(***************************************************************************)
(* The host's pump posts what the client has queued.                       *)
(***************************************************************************)
PostRequests ==
  /\ disconnected = "no"
  /\ outbound # <<>>
  /\ inbox' = inbox \o outbound
  /\ outbound' = <<>>
  /\ UNCHANGED <<run, next_sequence, pending, cancelled, updates, disconnected, mirror, channel,
                 worker, extent, faults>>

-----------------------------------------------------------------------------
(* The worker: GraphWorkerRuntime over a ReplicatingArtifactRepository.    *)

Message(kind, s) == [kind |-> kind, sequence |-> s, events |-> <<>>]
Published(key, s) == [kind |-> "published", key |-> key, run |-> s, offset |-> 0]
Removed(key) == [kind |-> "removed", key |-> key]

(***************************************************************************)
(* The order in which a store publishes its artifacts.                     *)
(***************************************************************************)
Plan(count) == [i \in 1 .. count |-> i + 1] \o <<Index, Manifest>>

(***************************************************************************)
(* remove_cache_artifacts removes every segment that the repository has.   *)
(***************************************************************************)
SegmentRemovals ==
  LET R[n \in 0 .. MaxSegments] ==
        IF n = 0 THEN <<>>
        ELSE IF stored[n + 1] # 0 THEN Append(R[n - 1], Removed(n + 1))
        ELSE R[n - 1]
  IN  R[MaxSegments]

(***************************************************************************)
(* The journal of a start: clear_derived_caches removes what the worker    *)
(* has, and creating the store invalidates its key once more.              *)
(***************************************************************************)
StartJournal ==
  LET entry == <<Removed(Manifest), Removed(Index)>>
      cleared == IF \E k \in Key : stored[k] # 0 THEN entry \o SegmentRemovals ELSE <<>>
  IN  cleared \o entry

(***************************************************************************)
(* start: what was journalled and not sent is discarded first.  It may     *)
(* fail after clearing, in the compiler or in the runtime.                 *)
(***************************************************************************)
HandleStart ==
  /\ inbox # <<>>
  /\ Head(inbox).kind = "Start"
  /\ inbox' = Tail(inbox)
  /\ LET s == Head(inbox).sequence
     IN  IF active.sequence # 0
           THEN /\ channel' = Append(channel, Message("Busy", s))
                /\ UNCHANGED <<worker, faults>>
           ELSE /\ stored' = [k \in Key |-> 0]
                /\ journal' = StartJournal
                /\ \/ /\ active' = [Idle EXCEPT !.sequence = s]
                      /\ channel' = Append(channel, Message("Started", s))
                      /\ UNCHANGED faults
                   \/ /\ faults < MaxFaults
                      /\ faults' = faults + 1
                      /\ channel' = Append(channel, Message("Failed", s))
                      /\ UNCHANGED active
  /\ UNCHANGED <<run, client, mirror, extent>>

IsPublished == active.published = Len(Plan(extent[active.sequence]))

(***************************************************************************)
(* What the active run journals when it publishes the next count artifacts *)
(* of its store, and what the repository then holds.                       *)
(***************************************************************************)
Fresh(count) ==
  [i \in 1 .. count |-> Published(Plan(extent[active.sequence])[active.published + i],
                                  active.sequence)]

Written(count) ==
  [k \in Key |-> IF \E i \in 1 .. count : Plan(extent[active.sequence])[active.published + i] = k
                 THEN active.sequence ELSE stored[k]]

(***************************************************************************)
(* Dropping the active run: a store that is not finished removes its       *)
(* segments.                                                               *)
(***************************************************************************)
StoredAfterDrop(count) ==
  LET written == Written(count)
  IN  IF active.published + count = Len(Plan(extent[active.sequence])) THEN written
      ELSE [k \in Key |-> IF written[k] = active.sequence THEN 0 ELSE written[k]]

(***************************************************************************)
(* cancel: only the active run's own sequence, and what its end journals   *)
(* is discarded.                                                           *)
(***************************************************************************)
HandleCancel ==
  /\ inbox # <<>>
  /\ Head(inbox).kind = "Cancel"
  /\ inbox' = Tail(inbox)
  /\ IF active.sequence = Head(inbox).sequence
       THEN /\ stored' = StoredAfterDrop(0)
            /\ active' = Idle
            /\ journal' = <<>>
            /\ channel' = Append(channel, Message("Cancelled", active.sequence))
       ELSE UNCHANGED <<worker, channel>>
  /\ UNCHANGED <<run, client, mirror, extent, faults>>

(***************************************************************************)
(* drain: at most MaxEvents events and MaxPayload units, an artifact in    *)
(* consecutive chunks.                                                     *)
(***************************************************************************)
DrainStep(d) ==
  IF d.journal = <<>> THEN d
  ELSE LET mutation == Head(d.journal)
           budget == IF d.payload >= MaxPayload THEN 0 ELSE MaxPayload - d.payload
       IN  IF mutation.kind = "removed"
             THEN [d EXCEPT !.events = Append(@, mutation), !.journal = Tail(@)]
           ELSE IF budget = 0 /\ d.events # <<>> THEN d
           ELSE LET rest == LengthOf(mutation.key) - mutation.offset
                    room == IF budget = 0 THEN 1 ELSE budget
                    count == IF rest < room THEN rest ELSE room
                    chunk == [kind |-> "chunk", key |-> mutation.key, run |-> mutation.run,
                              offset |-> mutation.offset, count |-> count,
                              complete |-> count = rest]
                IN  [events |-> Append(d.events, chunk),
                     payload |-> d.payload + count,
                     journal |-> IF count = rest THEN Tail(d.journal)
                                 ELSE <<[mutation EXCEPT !.offset = @ + count]>>
                                      \o Tail(d.journal)]

\* A set of one element, which TLC evaluates once; so is ApplyAll below.
Drain(j) ==
  LET D[n \in 0 .. MaxEvents] ==
        IF n = 0 THEN {[events |-> <<>>, payload |-> 0, journal |-> j]}
        ELSE {DrainStep(d) : d \in D[n - 1]}
  IN  D[MaxEvents]

(***************************************************************************)
(* The run is over for the worker when everything it journalled was sent.  *)
(***************************************************************************)
Transferred == journal' = <<>>

(***************************************************************************)
(* advance_streaming: the run publishes the next artifacts of its store; a *)
(* node may fail, and then the run ends with what it has published.  One   *)
(* batch of events is sent, and when the run ended and the journal is      *)
(* empty, its last message.  What dropping the run journals then is never  *)
(* sent: the next start discards it.                                       *)
(***************************************************************************)
Advance(count, failure) ==
  /\ active.sequence # 0
  /\ LET s == active.sequence
         plan == Plan(extent[s])
         published == active.published + count
         artifacts(drained) ==
           IF drained.events = <<>> THEN <<>>
           ELSE <<[Message("Artifacts", s) EXCEPT !.events = drained.events]>>
         failed == active.failed \/ failure
     IN  /\ published <= Len(plan)
         /\ active.failed => count = 0
         /\ failure => faults < MaxFaults /\ ~active.failed /\ active.published < Len(plan)
         /\ faults' = IF failure THEN faults + 1 ELSE faults
         /\ \E drained \in Drain(journal \o Fresh(count)) :
              /\ journal' = drained.journal
              /\ IF (failed \/ published = Len(plan)) /\ Transferred
                   THEN /\ active' = Idle
                        /\ stored' = StoredAfterDrop(count)
                        /\ channel' = channel \o artifacts(drained)
                                      \o <<Message(IF failed THEN "Failed" ELSE "Finished", s)>>
                   ELSE /\ active' = [sequence |-> s, published |-> published, failed |-> failed]
                        /\ stored' = Written(count)
                        /\ channel' = channel \o artifacts(drained)
  /\ UNCHANGED <<run, client, mirror, inbox, extent>>

(***************************************************************************)
(* advance_streaming when emit_artifacts fails: drain cannot read back an  *)
(* artifact.  What it had drained is lost and the run ends at once.  What  *)
(* is left in the journal is never sent: the next start discards it.       *)
(***************************************************************************)
TransferFails(count) ==
  /\ active.sequence # 0
  /\ faults < MaxFaults
  /\ active.published + count <= Len(Plan(extent[active.sequence]))
  /\ active.failed => count = 0
  /\ count > 0 \/ \E i \in 1 .. Len(journal) : journal[i].kind = "published"
  /\ faults' = faults + 1
  /\ stored' = StoredAfterDrop(count)
  /\ active' = Idle
  /\ journal' = <<>>
  /\ channel' = Append(channel, Message("Failed", active.sequence))
  /\ UNCHANGED <<run, client, mirror, inbox, extent>>

-----------------------------------------------------------------------------
(* The page: GraphWorkerClient::publish and the replication receiver.      *)

(***************************************************************************)
(* A chunk at offset 0 starts an artifact over; any other must follow the  *)
(* one before it.                                                          *)
(***************************************************************************)
Restarts(e, r) == e.offset = 0

(***************************************************************************)
(* ArtifactReplicationReceiver::apply.  After an error the remaining       *)
(* events of the message are not applied.                                  *)
(***************************************************************************)
Apply(m, e) ==
  IF m.corrupt THEN m
  ELSE IF e.kind = "removed"
    THEN [m EXCEPT !.page[e.key] = {}, !.receiving[e.key] = NotReceiving]
  ELSE LET r == IF Restarts(e, m.receiving[e.key]) THEN NotReceiving
                ELSE m.receiving[e.key]
           from == r.from \cup {e.run}
       IN  IF r.next_offset # e.offset
             THEN [m EXCEPT !.corrupt = TRUE]
           ELSE IF e.complete
             THEN [m EXCEPT !.page[e.key] = from, !.receiving[e.key] = NotReceiving]
           ELSE [m EXCEPT !.receiving[e.key] =
                            [next_offset |-> e.offset + e.count, from |-> from]]

ApplyAll(events) ==
  LET A[n \in 0 .. Len(events)] ==
        IF n = 0 THEN {[page |-> page, receiving |-> receiving, corrupt |-> FALSE]}
        ELSE {Apply(m, events[n]) : m \in A[n - 1]}
  IN  A[Len(events)]

(***************************************************************************)
(* What the client drops of a cancelled run.                               *)
(***************************************************************************)
DroppedWhenCancelled(kind) == kind \in {"Started", "Artifacts"}

(***************************************************************************)
(* publish, and the host's reaction to an error: the worker is given up.   *)
(* "Busy" is a failure like another to the client.                         *)
(***************************************************************************)
Deliver ==
  /\ channel # <<>>
  /\ channel' = Tail(channel)
  /\ LET message == Head(channel)
         s == message.sequence
         kind == IF message.kind = "Busy" THEN "Failed" ELSE message.kind
     IN  IF s \notin pending
           THEN /\ IF disconnected = "no" THEN FailAll("protocol")
                   ELSE UNCHANGED <<pending, cancelled, outbound, updates, disconnected>>
                /\ UNCHANGED mirror
         ELSE IF s \in cancelled /\ DroppedWhenCancelled(kind)
           THEN UNCHANGED <<pending, cancelled, outbound, updates, disconnected, mirror>>
         ELSE \E applied \in ApplyAll(message.events) :
                /\ page' = applied.page
                /\ receiving' = applied.receiving
                /\ IF applied.corrupt THEN FailAll("protocol")
                   ELSE /\ updates' = [updates EXCEPT ![s] = @ \cup ({kind} \cap Terminal)]
                        /\ pending' = IF kind \in Terminal THEN pending \ {s} ELSE pending
                        /\ cancelled' = IF kind \in Terminal THEN cancelled \ {s} ELSE cancelled
                        /\ UNCHANGED <<outbound, disconnected>>
  /\ UNCHANGED <<run, next_sequence, inbox, worker, extent, faults>>

(***************************************************************************)
(* publish when the page's bounded repository refuses an event: the events *)
(* before it stay applied and the rest is not, and the worker is given up. *)
(* The event itself may have changed the repository, or only what was      *)
(* received of its artifact, before the error.                             *)
(***************************************************************************)
ApplyFails ==
  /\ channel # <<>>
  /\ channel' = Tail(channel)
  /\ faults < MaxFaults
  /\ faults' = faults + 1
  /\ LET message == Head(channel)
         events == message.events
     IN  /\ message.kind = "Artifacts" /\ message.sequence \in pending \ cancelled
         /\ \E n \in 0 .. Len(events) : \E applied \in ApplyAll(SubSeq(events, 1, n)) :
              /\ ~applied.corrupt
              /\ page' = applied.page
              /\ \/ receiving' = applied.receiving
                 \/ /\ n < Len(events)
                    /\ receiving' = [applied.receiving EXCEPT ![events[n + 1].key] = NotReceiving]
  /\ FailAll("host")
  /\ UNCHANGED <<run, next_sequence, inbox, worker, extent>>

(***************************************************************************)
(* The host gives the worker up: an error event, or a message that could   *)
(* not be posted or decoded.  The worker itself may go on.                 *)
(***************************************************************************)
LoseWorker ==
  /\ disconnected = "no"
  /\ faults < MaxFaults
  /\ faults' = faults + 1
  /\ FailAll("host")
  /\ UNCHANGED <<run, next_sequence, mirror, inbox, channel, worker, extent>>

Work == \E count \in 0 .. MaxSlice :
          (\E failure \in BOOLEAN : Advance(count, failure)) \/ TransferFails(count)

Next ==
  \/ StartRun \/ StopRun \/ AbandonRun \/ PollRun
  \/ PostRequests
  \/ HandleStart \/ HandleCancel \/ Work
  \/ Deliver \/ ApplyFails
  \/ LoseWorker

-----------------------------------------------------------------------------
(* Fairness: the page's frame loop pumps the host and polls the run, the   *)
(* browser delivers what was posted, and the worker's timer advances the   *)
(* active run, whose nodes produce what their store still lacks.           *)

Progress ==
  \/ \E count \in 1 .. MaxSlice, failure \in BOOLEAN : Advance(count, failure)
  \/ Advance(0, FALSE) /\ (active.failed \/ IsPublished)

Spec == Init /\ [][Next]_vars

FairSpec ==
  /\ Spec
  /\ WF_vars(PollRun) /\ WF_vars(PostRequests) /\ WF_vars(Deliver)
  /\ WF_vars(HandleStart \/ HandleCancel)
  /\ WF_vars(Progress)

-----------------------------------------------------------------------------
(* Properties.                                                             *)

TypeOK ==
  /\ run \in [sequence : 0 .. MaxRuns, finished : BOOLEAN, stopping : BOOLEAN]
  /\ next_sequence \in 0 .. MaxRuns
  /\ pending \subseteq Run /\ cancelled \subseteq Run
  /\ \A i \in DOMAIN outbound : outbound[i].sequence \in Run
  /\ updates \in [Run -> SUBSET Terminal]
  /\ disconnected \in {"no", "host", "protocol"}
  /\ page \in [Key -> SUBSET Run]
  /\ receiving \in [Key -> [next_offset : 0 .. SegmentLength - 1, from : SUBSET Run]]
  /\ \A i \in DOMAIN inbox : inbox[i].kind \in {"Start", "Cancel"}
  /\ \A i \in DOMAIN channel : channel[i].sequence \in Run
  /\ active \in [sequence : 0 .. MaxRuns, published : 0 .. MaxSegments + 2, failed : BOOLEAN]
  /\ stored \in [Key -> 0 .. MaxRuns]
  /\ \A i \in DOMAIN journal : journal[i].key \in Key
  /\ extent \in [Run -> 1 .. MaxSegments]
  /\ faults \in 0 .. MaxFaults

Mirrors(s) == \A k \in {Manifest, Index} \cup SegmentKeys(extent[s]) : page[k] = {s}

(***************************************************************************)
(* The cached-data loader opens whatever has a manifest.  A manifest that  *)
(* the page's repository holds belongs to a store that is wholly there:    *)
(* its index and all its segments come from the same run, however chunks,  *)
(* removals, cancelled runs and a lost worker interleave with new starts.  *)
(***************************************************************************)
PageEntryWhole == page[Manifest] # {} => \E s \in page[Manifest] : Mirrors(s)

(***************************************************************************)
(* A page and a worker that follow the protocol never refuse each other:   *)
(* the worker is never busy when a start arrives, no message belongs to a  *)
(* run that the client has forgotten, and no chunk is out of order.  Any   *)
(* of these would give up the worker for the rest of the session.          *)
(***************************************************************************)
NeverRefused ==
  /\ disconnected # "protocol"
  /\ \A i \in DOMAIN channel : channel[i].kind # "Busy"

(***************************************************************************)
(* "applies replicated artifact mutations before reporting completion": a  *)
(* run that was not stopped is reported finished only when its whole store *)
(* is in the page's repository.                                            *)
(***************************************************************************)
FinishedIsMirrored ==
  [][\A s \in Run : "Finished" \in updates'[s] \ updates[s]
                    /\ s \notin cancelled => Mirrors(s)']_vars

(***************************************************************************)
(* A run ends for the UI, whether it finishes, fails, is stopped while its *)
(* last message is on the way, or loses its worker; and the client forgets *)
(* every run, an abandoned one too, so that it has room for a later start. *)
(***************************************************************************)
RunEnds ==
  /\ Running ~> ~Running
  /\ \A s \in Run : s \in pending ~> s \notin pending
=============================================================================
