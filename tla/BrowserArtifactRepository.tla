--------------------- MODULE BrowserArtifactRepository ---------------------
(***************************************************************************)
(* The artifact repository of the browser build: a memory repository that  *)
(* answers every call at once, and its mirror in the origin-private file   *)
(* system, which a worker writes behind it                                 *)
(* (platform/src/host/web_artifact_repository.rs and                       *)
(* opfs_worker_bootstrap.js).  The page may be closed at any moment; the   *)
(* next page loads what the mirror holds.                                  *)
(*                                                                         *)
(* An artifact is its generation, a number that grows with each            *)
(* publication or removal and so also orders the artifacts by age; 0 is    *)
(* none.  All artifacts have one length, the unit of the limits.           *)
(***************************************************************************)
EXTENDS Naturals, Sequences, FiniteSets, FiniteSetsExt

CONSTANTS
  Key,            \* the artifacts' keys
  MaxBytes,       \* budget of the memory repository and of hydration
  MaxQueued,      \* MAX_QUEUED_PERSISTENCE_BYTES
  MaxInFlight,    \* MAX_IN_FLIGHT_COMMANDS
  Quota,          \* what the browser lets the origin store
  MaxCommands,    \* bound of the model: publications and removals
  MaxFaults       \* bound of the model: failures and closed pages

ASSUME BrowserRepositoryAssumption ==
  /\ IsFiniteSet(Key) /\ Key # {}
  /\ {MaxBytes, MaxQueued, Quota, MaxCommands, MaxFaults} \subseteq Nat
  /\ MaxInFlight \in Nat \ {0}

VARIABLES
  memory,         \* [Key -> generation]: MemoryArtifactRepository
  commands,       \* MirrorState
  queued_bytes,
  in_flight,
  next_sequence,
  posted,         \* commands on their way to the worker
  replies,        \* answers on their way to the page
  task,           \* the worker's command, and how far it is
  stale,          \* the worker's directory handle is of a removed directory
  data,           \* [Key -> set of generations]: the data files
  pointer,        \* [Key -> generation]: the pointer files
  lost,           \* history: commands before this one may be missing in the mirror
  undeleted,      \* history: data the last clean-up of a key could not remove
  miscounted,     \* history: in_flight was reset while commands were under way
  faults          \* history: failures so far

mirror == <<commands, queued_bytes, in_flight, next_sequence>>
files == <<data, pointer, undeleted>>
vars == <<memory, mirror, posted, replies, task, stale, files, lost, miscounted, faults>>

NoCommand == [kind |-> "none", key |-> CHOOSE k \in Key : TRUE, sequence |-> 0]
NoVictim == [key |-> CHOOSE k \in Key : TRUE, generation |-> 0]
NoTask == [command |-> NoCommand, step |-> "idle", retried |-> FALSE, victim |-> NoVictim]
Empty == [k \in Key |-> 0]
NoFiles == [k \in Key |-> {}]

Init ==
  /\ memory = Empty
  /\ commands = <<>> /\ queued_bytes = 0 /\ in_flight = 0 /\ next_sequence = 1
  /\ posted = <<>> /\ replies = 0 /\ task = NoTask /\ stale = FALSE
  /\ data = NoFiles /\ pointer = Empty /\ undeleted = NoFiles
  /\ lost = Empty /\ miscounted = FALSE /\ faults = 0

-----------------------------------------------------------------------------
(* Mutated forms of definitions below; no specification uses them.         *)

RemovalsFirst(command) ==
  IF command.kind = "remove" THEN <<command>> \o commands ELSE Append(commands, command)

OldAndNewData(k, keep) == data[k]

ReplyWhenComplete(outcome) == IF outcome = "complete" THEN replies + 1 ELSE replies

RetryInPlace ==
  /\ stale /\ task.step # "idle"
  /\ task' = [task EXCEPT !.step = "start", !.retried = TRUE]
  /\ UNCHANGED <<memory, mirror, posted, replies, stale, files, lost, miscounted, faults>>

-----------------------------------------------------------------------------
(* The page.                                                               *)

\* The mirror may miss the commands for this key up to this one.
Missed(k, sequence) == [lost EXCEPT ![k] = Max({@, sequence + 1})]

Used == Cardinality({k \in Key : memory[k] # 0})

ByteCount(command) == IF command.kind = "publish" THEN 1 ELSE 0

Enqueue(command) == Append(commands, command)

(***************************************************************************)
(* publish: into memory, then into the queue unless the queue is full.     *)
(***************************************************************************)
Publish(k) ==
  /\ next_sequence <= MaxCommands
  /\ IF memory[k] = 0 /\ Used >= MaxBytes
       THEN UNCHANGED <<memory, commands, queued_bytes, lost>>
     ELSE /\ memory' = [memory EXCEPT ![k] = next_sequence]
          /\ IF queued_bytes + 1 > MaxQueued
               THEN /\ lost' = Missed(k, next_sequence)
                    /\ UNCHANGED <<commands, queued_bytes>>
               ELSE /\ commands' = Enqueue([kind |-> "publish", key |-> k,
                                       sequence |-> next_sequence])
                    /\ queued_bytes' = queued_bytes + 1
                    /\ UNCHANGED lost
  /\ next_sequence' = next_sequence + 1
  /\ UNCHANGED <<in_flight, posted, replies, task, stale, files, miscounted, faults>>

(***************************************************************************)
(* remove.                                                                 *)
(***************************************************************************)
Remove(k) ==
  /\ next_sequence <= MaxCommands
  /\ memory' = [memory EXCEPT ![k] = 0]
  /\ commands' = Enqueue([kind |-> "remove", key |-> k, sequence |-> next_sequence])
  /\ next_sequence' = next_sequence + 1
  /\ UNCHANGED <<queued_bytes, in_flight, posted, replies, task, stale, files, lost, miscounted,
                 faults>>

(***************************************************************************)
(* One turn of pump_commands: the next command is posted, or posting it    *)
(* fails and it is dropped.                                                *)
(***************************************************************************)
Pump ==
  /\ in_flight < MaxInFlight
  /\ commands # <<>>
  /\ commands' = Tail(commands)
  /\ queued_bytes' = queued_bytes - ByteCount(Head(commands))
  /\ \/ /\ in_flight' = in_flight + 1
        /\ posted' = Append(posted, Head(commands))
        /\ UNCHANGED <<lost, faults>>
     \/ /\ faults < MaxFaults
        /\ faults' = faults + 1
        /\ lost' = Missed(Head(commands).key, Head(commands).sequence)
        /\ UNCHANGED <<in_flight, posted>>
  /\ UNCHANGED <<memory, next_sequence, replies, task, stale, files, miscounted>>

(***************************************************************************)
(* handle_worker_message: "complete" and "failed" count alike.             *)
(***************************************************************************)
AfterReply == IF in_flight = 0 THEN 0 ELSE in_flight - 1

HandleReply ==
  /\ replies > 0
  /\ replies' = replies - 1
  /\ in_flight' = AfterReply
  /\ UNCHANGED <<memory, commands, queued_bytes, next_sequence, posted, task, stale, files, lost,
                 miscounted, faults>>

(***************************************************************************)
(* The worker's error event, or a message of it that cannot be read.       *)
(***************************************************************************)
HandleError ==
  /\ faults < MaxFaults
  /\ faults' = faults + 1
  /\ in_flight' = 0
  /\ miscounted' = TRUE
  /\ UNCHANGED <<memory, commands, queued_bytes, next_sequence, posted, replies, task, stale,
                 files, lost>>

-----------------------------------------------------------------------------
(* The worker: one command at a time.                                      *)

DiskUsed == FoldSet(LAMBDA k, n : n + Cardinality(data[k]), 0, Key)

Reply(outcome) == replies + 1

Finish(outcome) ==
  /\ task' = NoTask
  /\ replies' = Reply(outcome)
  /\ LET c == task.command
     IN  lost' = IF outcome = "failed" THEN Missed(c.key, c.sequence)
                 ELSE IF lost[c.key] <= c.sequence THEN [lost EXCEPT ![c.key] = 0]
                 ELSE lost

AtStep(kind, step) == task.command.kind = kind /\ task.step = step

OnlyWorker == UNCHANGED <<memory, mirror, posted, miscounted>>

TakeCommand ==
  /\ task = NoTask
  /\ posted # <<>>
  /\ task' = [NoTask EXCEPT !.command = Head(posted), !.step = "start"]
  /\ posted' = Tail(posted)
  /\ UNCHANGED <<memory, mirror, replies, stale, files, lost, miscounted, faults>>

(***************************************************************************)
(* The data files of a key that the worker removes at its step: its own    *)
(* when the pointer could not be written, the other generations of the key *)
(* in cleanupOldData, what no pointer names in records, and that of the    *)
(* evicted artifact.                                                       *)
(***************************************************************************)
OldData(k, keep) == data[k] \ {keep}

Named(command) == IF command.kind = "publish" THEN command.sequence ELSE 0

Discards(k) ==
  CASE task.step = "point" /\ k = task.command.key -> {task.command.sequence}
    [] task.step = "clean" /\ k = task.command.key -> OldData(k, Named(task.command))
    [] task.step = "evict" -> OldData(k, pointer[k])
    [] task.step = "evicted" /\ k = task.victim.key -> {task.victim.generation}
    [] OTHER -> {}

AllDiscards == UNION {Discards(k) : k \in Key}

Discard(kept) == data' = [k \in Key |-> data[k] \ (Discards(k) \ kept)]

\* The browser refuses to remove these, if any.
Refuses(kept) ==
  /\ kept # {} => faults < MaxFaults
  /\ faults' = IF kept = {} THEN faults ELSE faults + 1

(***************************************************************************)
(* publishOnce, up to the end of the data file; without room for it the    *)
(* worker goes on to evict.  The attempts of one command, of which at most *)
(* the last leaves a file that is named, have one generation.              *)
(***************************************************************************)
WriteData ==
  /\ AtStep("publish", "start") /\ ~stale
  /\ IF DiskUsed >= Quota
       THEN task' = [task EXCEPT !.step = "evict"] /\ UNCHANGED data
       ELSE /\ data' = [data EXCEPT ![task.command.key] = @ \cup {task.command.sequence}]
            /\ task' = [task EXCEPT !.step = "point"]
  /\ OnlyWorker /\ UNCHANGED <<replies, stale, pointer, undeleted, lost, faults>>

(***************************************************************************)
(* The pointer is written; or there is no room for it, the data is removed *)
(* again if the browser lets it, and the worker goes on to evict.          *)
(***************************************************************************)
WritePointer ==
  /\ AtStep("publish", "point") /\ ~stale
  /\ pointer' = [pointer EXCEPT ![task.command.key] = task.command.sequence]
  /\ task' = [task EXCEPT !.step = "clean"]
  /\ OnlyWorker /\ UNCHANGED <<replies, stale, data, undeleted, lost, faults>>

PointerOverQuota ==
  /\ AtStep("publish", "point") /\ ~stale
  /\ faults < MaxFaults
  /\ faults' = faults + 1
  /\ \E kept \in SUBSET AllDiscards : Discard(kept)
  /\ task' = [task EXCEPT !.step = "evict"]
  /\ OnlyWorker /\ UNCHANGED <<replies, stale, pointer, undeleted, lost>>

(***************************************************************************)
(* cleanupOldData: a file that cannot be removed stays, and the command is *)
(* complete all the same.                                                  *)
(***************************************************************************)
CleanUp ==
  /\ task.step = "clean" /\ ~stale
  /\ \E kept \in SUBSET AllDiscards :
       /\ Refuses(kept)
       /\ Discard(kept)
       /\ undeleted' = [undeleted EXCEPT ![task.command.key] = kept]
  /\ Finish("complete")
  /\ OnlyWorker /\ UNCHANGED <<stale, pointer>>

(***************************************************************************)
(* remove.  A directory that is gone has nothing to remove.                *)
(***************************************************************************)
RemovePointer ==
  /\ AtStep("remove", "start")
  /\ IF stale
       THEN Finish("complete") /\ UNCHANGED pointer
       ELSE /\ pointer' = [pointer EXCEPT ![task.command.key] = 0]
            /\ task' = [task EXCEPT !.step = "clean"]
            /\ UNCHANGED <<replies, lost>>
  /\ OnlyWorker /\ UNCHANGED <<stale, data, undeleted, faults>>

(***************************************************************************)
(* evictOldest: data that no pointer names is removed on the way; then the *)
(* oldest artifact of another key goes, its pointer first.  Without one    *)
(* the publication fails.                                                  *)
(***************************************************************************)
Candidates == {k \in Key \ {task.command.key} : pointer[k] # 0}

Evict ==
  /\ AtStep("publish", "evict") /\ ~stale
  /\ \E kept \in SUBSET AllDiscards : Refuses(kept) /\ Discard(kept)
  /\ IF Candidates = {}
       THEN Finish("failed") /\ UNCHANGED pointer
       ELSE LET oldest == CHOOSE k \in Candidates :
                            \A other \in Candidates : pointer[k] <= pointer[other]
            IN  /\ pointer' = [pointer EXCEPT ![oldest] = 0]
                /\ lost' = Missed(oldest, task.command.sequence)
                /\ task' = [task EXCEPT !.step = "evicted",
                                        !.victim = [key |-> oldest, generation |-> pointer[oldest]]]
                /\ UNCHANGED replies
  /\ OnlyWorker /\ UNCHANGED <<stale, undeleted>>

RemoveEvicted ==
  /\ AtStep("publish", "evicted")
  /\ Discard({})
  /\ task' = [task EXCEPT !.step = "start", !.victim = NoVictim]
  /\ OnlyWorker /\ UNCHANGED <<replies, stale, pointer, undeleted, lost, faults>>

(***************************************************************************)
(* execute: a command that meets a removed directory is tried once more,   *)
(* in a new one.                                                           *)
(***************************************************************************)
MayRetry == ~task.retried

MeetStale ==
  /\ stale
  /\ \/ task.command.kind = "publish" /\ task.step \in {"start", "point", "clean", "evict"}
     \/ AtStep("remove", "clean")
  /\ IF MayRetry
       THEN /\ task' = [task EXCEPT !.step = "start", !.retried = TRUE]
            /\ stale' = FALSE
            /\ UNCHANGED <<replies, lost>>
       ELSE Finish("failed") /\ UNCHANGED stale
  /\ OnlyWorker /\ UNCHANGED <<files, faults>>

(***************************************************************************)
(* Any other failure of a file operation.  What the step removes may be    *)
(* removed in part by then.                                                *)
(***************************************************************************)
CommandFails ==
  /\ task.step # "idle"
  /\ faults < MaxFaults
  /\ faults' = faults + 1
  /\ \E kept \in SUBSET AllDiscards : Discard(kept)
  /\ Finish("failed")
  /\ OnlyWorker /\ UNCHANGED <<stale, pointer, undeleted>>

Work ==
  \/ TakeCommand \/ WriteData \/ WritePointer \/ CleanUp \/ RemovePointer
  \/ Evict \/ RemoveEvicted \/ MeetStale

-----------------------------------------------------------------------------
(* The browser.                                                            *)

(***************************************************************************)
(* The site's data is cleared under a running page.  What is under way is  *)
(* tried again, so only the commands before it are missed.                 *)
(***************************************************************************)
OldestUnderWay ==
  IF task # NoTask THEN task.command.sequence
  ELSE IF posted # <<>> THEN Head(posted).sequence
  ELSE IF commands # <<>> THEN Head(commands).sequence
  ELSE next_sequence

SiteDataLost ==
  /\ faults < MaxFaults
  /\ faults' = faults + 1
  /\ data' = NoFiles /\ pointer' = Empty
  /\ stale' = TRUE
  /\ lost' = [k \in Key |-> Max({lost[k], OldestUnderWay})]
  /\ UNCHANGED <<memory, mirror, posted, replies, task, undeleted, miscounted>>

(***************************************************************************)
(* The page is closed, and opened again: the new worker removes what no    *)
(* pointer names, and loads the youngest artifacts that fit (initialize,   *)
(* loadEntries, hydrate_entries).  The browser may refuse to remove data,  *)
(* or the pointers of artifacts that do not fit.                           *)
(***************************************************************************)
Younger(k) == {other \in Key : pointer[other] > pointer[k]}

Loaded == [k \in Key |-> IF Cardinality(Younger(k)) < MaxBytes THEN pointer[k] ELSE 0]

Reload ==
  /\ faults < MaxFaults
  /\ \E unfit \in SUBSET {k \in Key : pointer[k] # Loaded[k]},
        kept \in SUBSET UNION {OldData(k, Loaded[k]) : k \in Key} :
       /\ faults' = IF unfit = {} /\ kept = {} THEN faults + 1 ELSE faults + 2
       /\ faults' <= MaxFaults
       /\ pointer' = [k \in Key |-> IF k \in unfit THEN pointer[k] ELSE Loaded[k]]
       /\ undeleted' = [k \in Key |-> data[k] \cap kept]
       /\ data' = [k \in Key |-> data[k] \cap ({pointer'[k]} \cup kept)]
       /\ lost' = [k \in Key |-> IF k \in unfit THEN next_sequence ELSE 0]
  /\ memory' = Loaded
  /\ commands' = <<>> /\ queued_bytes' = 0 /\ in_flight' = 0
  /\ posted' = <<>> /\ replies' = 0 /\ task' = NoTask /\ stale' = FALSE
  /\ miscounted' = FALSE
  /\ UNCHANGED next_sequence

Next ==
  \/ \E k \in Key : Publish(k) \/ Remove(k)
  \/ Pump \/ HandleReply \/ HandleError
  \/ Work \/ PointerOverQuota \/ CommandFails
  \/ SiteDataLost \/ Reload

(***************************************************************************)
(* Fairness: the page's interval pumps, the browser delivers messages, and *)
(* the worker finishes its file operations.                                *)
(***************************************************************************)
Spec ==
  /\ Init /\ [][Next]_vars
  /\ WF_vars(Pump) /\ WF_vars(HandleReply) /\ WF_vars(Work)

-----------------------------------------------------------------------------
(* Properties.                                                             *)

Command == [kind : {"none", "publish", "remove"}, key : Key, sequence : 0 .. MaxCommands]

TypeOK ==
  /\ memory \in [Key -> 0 .. MaxCommands]
  /\ commands \in Seq(Command) /\ posted \in Seq(Command)
  /\ queued_bytes \in 0 .. MaxQueued
  /\ in_flight \in 0 .. MaxInFlight
  /\ next_sequence \in 1 .. MaxCommands + 1
  /\ replies \in Nat
  /\ task \in [command : Command, retried : BOOLEAN,
               step : {"idle", "start", "point", "clean", "evict", "evicted"},
               victim : [key : Key, generation : 0 .. MaxCommands]]
  /\ stale \in BOOLEAN
  /\ data \in [Key -> SUBSET (1 .. MaxCommands)] /\ undeleted \in [Key -> SUBSET (1 .. MaxCommands)]
  /\ pointer \in [Key -> 0 .. MaxCommands]
  /\ lost \in [Key -> 0 .. MaxCommands + 2]
  /\ miscounted \in BOOLEAN
  /\ faults \in 0 .. MaxFaults

(***************************************************************************)
(* "publishes a small pointer only after its data file closes, and removes *)
(* superseded or interrupted generations": whenever the page is closed, a  *)
(* pointer names data that is there; evictions, retries, failures and the  *)
(* clean-up of other keys included.                                        *)
(***************************************************************************)
PointerIsWhole == \A k \in Key : pointer[k] # 0 => pointer[k] \in data[k]

Quiet == commands = <<>> /\ posted = <<>> /\ task = NoTask

(***************************************************************************)
(* The mirror converges: when all commands are done, every key has on disk *)
(* what it has in memory, and no other generation of it that would eat up  *)
(* the quota but those the browser refused to remove, unless a command for *)
(* it was dropped, failed or evicted, or the site's data was lost, and no  *)
(* later command for that key was done since.  A command that was under    *)
(* way when the data was lost counts as a later one: it is tried again.    *)
(***************************************************************************)
QuietMirrorsMemory ==
  Quiet => \A k \in Key : lost[k] = 0 =>
             pointer[k] = memory[k] /\ data[k] \subseteq {pointer[k]} \cup undeleted[k]

(***************************************************************************)
(* The two counters that admit work never drift, whatever fails: a queue   *)
(* that is empty counts no bytes, and as long as the worker raised no      *)
(* error every command under way is counted once.                          *)
(***************************************************************************)
CountersAreExact ==
  /\ queued_bytes = Cardinality({i \in DOMAIN commands : commands[i].kind = "publish"})
  /\ ~miscounted =>
       in_flight = Len(posted) + replies + (IF task = NoTask THEN 0 ELSE 1)

(***************************************************************************)
(* Every command is done: in_flight always comes down again, so that the   *)
(* queue moves, a publication that finds no room stops evicting, and one   *)
(* that meets a removed directory stops retrying.                          *)
(***************************************************************************)
MirrorSettles == ~Quiet ~> Quiet
=============================================================================
