----------------------- MODULE DerivedWordStoreProofs ------------------------
(***************************************************************************)
(* The invariants of DerivedWordStore, what a step of the writer, of an    *)
(* encoder or of a cleanup does to the words, the blocks, the segments and *)
(* the manifest, and the theorems, for every number of words, blocks and   *)
(* segments and every capacity.                                            *)
(***************************************************************************)
EXTENDS DerivedWordStore, FiniteSetTheorems, TLAPS

(***************************************************************************)
(* The steps between the creation of a store and its manifest; those of a  *)
(* removal; those in which a writer exists.                                *)
(***************************************************************************)
Writing == {"idle", "drain", "commit", "fill", "room", "tail", "directory", "publish",
            "release", "flush", "index", "manifest"}
ClearSteps == {"clear_manifest", "clear_index", "clear_segments"}
InUseNow == held \/ step \in Writing \cup {"finished", "cancel", "terminal", "touch"}

\* What the writer is about, whatever commits it does on the way.
Phase ==
  IF step \in {"drain", "commit", "directory", "publish", "release"} THEN resume ELSE step

Completion == [sequence : Nat, words : Nat, outcome : {"encoded", "failed", "panicked"}]
Segment == [open : BOOLEAN, sequence : Nat, blocks : SUBSET Nat]
Index == [store : Nat, words : Nat, directory : Seq(Entry)]
HotTail == [start : Nat, words : Nat]

\* The blocks that were dispatched and are not yet in the directory.
Flying == encoding \cup prepared_blocks \cup {completions[i] : i \in DOMAIN completions}

\* The words of the batch that are not in a block yet.
Unfilled == IF operation = "append" /\ Phase # "idle" THEN remaining ELSE 0

\* The words of n full blocks, and the words block s of the run has to hold.
Words(n) == n * BlockWords
Size(s) == IF Words(s + 1) <= appended THEN BlockWords ELSE appended - Words(s)

(***************************************************************************)
(* What the writer has in memory.                                          *)
(***************************************************************************)
MemoryType ==
  /\ step \in Writing \cup ClearSteps
              \cup {"none", "finished", "cancel", "terminal", "open_index", "touch"}
  /\ resume \in {"none", "fill", "room", "tail", "flush", "index"}
  /\ operation \in {"none", "create", "clear", "append", "finish"}
  /\ status \in {"none", "Live", "Finished", "Cancelled", "Failed"}
  /\ remaining \in Nat /\ builder \in 0 .. BlockWords
  /\ words_since_tail_publish \in Nat
  /\ next_dispatch_sequence \in Nat /\ next_sequence \in Nat
  /\ next_segment_sequence \in Nat
  /\ appended \in 0 .. MaxWords /\ committed_word_count \in Nat
  /\ hot_tail \in HotTail
  /\ active_segment \in Segment
  /\ pending_blocks \subseteq Nat

(***************************************************************************)
(* The blocks that are under way, and that there are never more of them    *)
(* than the completion channel can hold.                                   *)
(***************************************************************************)
FlightType ==
  /\ encoding \subseteq Block /\ IsFiniteSet(encoding)
  /\ prepared_blocks \subseteq Completion /\ IsFiniteSet(prepared_blocks)
  /\ completions \in Seq(Completion)
  /\ OutstandingBlocks <= MaxOutstanding

(***************************************************************************)
(* The directory, the artifacts of the repository, the query and the       *)
(* history.                                                                *)
(***************************************************************************)
RepositoryType ==
  /\ directory \in Seq(Entry)
  /\ index \in Index
  /\ segments \in [SegmentNumbers -> 0 .. MaxStores]
  /\ manifest \in 0 .. MaxStores /\ store \in 0 .. MaxStores
  /\ operation = "create" /\ step \in ClearSteps => store < MaxStores
  /\ remove_on_drop \in BOOLEAN /\ held \in BOOLEAN /\ swept \in BOOLEAN
  /\ interrupted \in BOOLEAN
  /\ reader \in [step : {"idle", "pending", "segment", "missing"}, entry : Entry]

(***************************************************************************)
(* In each phase: where the commit loop returns to, the operation, what    *)
(* the builder holds, and that after the flush every dispatched block is   *)
(* committed.                                                              *)
(***************************************************************************)
PhaseOK ==
  step \in Writing =>
    /\ status = "Live"
    /\ Phase \in {"idle", "fill", "room", "tail", "flush", "index", "manifest"}
    /\ step \in {"drain", "commit", "directory"} => resume # "index"
    /\ step = "room" => resume = "room"
    /\ Phase \in {"fill", "tail"} => operation = "append"
    /\ Phase = "tail" => remaining = 0
    /\ Phase = "room" =>
         /\ builder >= 1
         /\ \/ operation = "append" /\ builder = BlockWords
            \/ operation = "finish"
    /\ Phase \in {"flush", "index", "manifest"} => operation = "finish" /\ builder = 0
    /\ next_sequence <= next_dispatch_sequence
    /\ Phase \in {"index", "manifest"} => next_sequence = next_dispatch_sequence

(***************************************************************************)
(* Every word that was appended is in a dispatched block, in the builder   *)
(* or still in the batch; the words that were committed are those of the   *)
(* first next_sequence blocks.                                             *)
(***************************************************************************)
WordsOK ==
  step \in Writing =>
    /\ Phase \in {"idle", "fill", "room", "tail"} =>
         appended = Words(next_dispatch_sequence) + builder + Unfilled
    /\ Phase \in {"flush", "index", "manifest"} =>
         /\ appended <= Words(next_dispatch_sequence)
         /\ Words(next_dispatch_sequence) <= appended + BlockWords
    /\ next_dispatch_sequence <= appended
    /\ committed_word_count =
         IF Words(next_sequence) <= appended THEN Words(next_sequence) ELSE appended

(***************************************************************************)
(* The blocks under way have the words that are theirs, and no block       *)
(* between the last committed and the last dispatched one is missing.      *)
(***************************************************************************)
FlightOK ==
  step \in Writing =>
    /\ \A b \in Flying : b.sequence < next_dispatch_sequence /\ b.words = Size(b.sequence)
    /\ \A s \in Nat : next_sequence <= s /\ s < next_dispatch_sequence =>
         \E b \in Flying : b.sequence = s

(***************************************************************************)
(* Entry i of a directory, in memory or in the index, is block i - 1.      *)
(***************************************************************************)
DirectoryOK ==
  /\ \A i \in DOMAIN directory :
       directory[i].sequence = i - 1 /\ directory[i].segment \in SegmentNumbers
  /\ \A i \in DOMAIN index.directory :
       index.directory[i].sequence = i - 1 /\ index.directory[i].segment \in SegmentNumbers
  /\ step \in Writing => Len(directory) = next_sequence

(***************************************************************************)
(* A hot tail begins where the committed words end, and the next block     *)
(* holds at least its words.                                               *)
(***************************************************************************)
TailOK ==
  hot_tail.words > 0 =>
    /\ hot_tail.start = committed_word_count
    /\ step \in Writing =>
         /\ hot_tail.start = Words(next_sequence)
         /\ Words(next_sequence) + hot_tail.words <= appended
         /\ hot_tail.words <= BlockWords

(***************************************************************************)
(* What is finished, in memory or in the index, has every word; there is   *)
(* no index of an earlier store once a store is created.                   *)
(***************************************************************************)
EndOK ==
  /\ step = "finished" => committed_word_count = appended /\ status = "Live"
  /\ status = "Finished" => committed_word_count = appended /\ step \notin Writing
  /\ index.store # 0 => index.words = appended
  /\ step \in (Writing \ {"manifest"}) \cup {"clear_segments"} => index = NoIndex

(***************************************************************************)
(* A manifest is that of the last store; a store that is being written has *)
(* none, nor, but for the last step of finish, one that removes its        *)
(* segments when it is dropped; no removal and no opening runs while a     *)
(* handle exists; a store that is being opened, or has just published its  *)
(* manifest, has one until it is swept.                                    *)
(***************************************************************************)
OwnerOK ==
  /\ manifest \in {0, store}
  /\ remove_on_drop => manifest = 0 \/ step = "finished"
  /\ step \in Writing => manifest = 0
  /\ step \in Writing => remove_on_drop
  /\ step \in {"clear_index", "clear_segments"} => manifest = 0
  /\ step \in ClearSteps => ~held
  /\ step \in {"open_index", "touch"} => ~held /\ ~remove_on_drop /\ store # 0
  /\ step \in {"open_index", "touch", "finished"} /\ ~swept => manifest = store
  /\ InUseNow => store # 0

(***************************************************************************)
(* The active segment: it exists when it is written to or published, it is *)
(* gone when the index is published, its number is one of the repository,  *)
(* and its blocks are in it.                                               *)
(***************************************************************************)
ActiveOK ==
  step \in Writing =>
    /\ step \in {"directory", "publish", "release"} => active_segment.open
    /\ step \in {"index", "manifest"} => ~active_segment.open
    /\ active_segment.open => active_segment.sequence \in SegmentNumbers
    /\ next_segment_sequence <= next_sequence + (IF step = "directory" THEN 1 ELSE 0)
    /\ active_segment.open /\ step # "directory" =>
         \E i \in DOMAIN directory : directory[i].segment = active_segment.sequence
    /\ step = "directory" =>
         next_sequence \in active_segment.blocks /\ next_sequence \in pending_blocks
    /\ \A i \in DOMAIN directory :
         directory[i].sequence \in active_segment.blocks =>
           directory[i].segment = active_segment.sequence

(***************************************************************************)
(* Every block of the directory is in a published segment or among the     *)
(* pending blocks; while the store is written, in a published segment or   *)
(* in the active one; the index that precedes the manifest is that of the  *)
(* directory.                                                              *)
(***************************************************************************)
PlacedOK ==
  ~swept =>
    /\ InUseNow /\ ~Cancelling =>
         \A i \in DOMAIN directory :
           \/ segments[directory[i].segment] = store
           \/ directory[i].sequence \in pending_blocks
    /\ step \in Writing =>
         \A i \in DOMAIN directory :
           \/ segments[directory[i].segment] = store
           \/ active_segment.open /\ directory[i].segment = active_segment.sequence
    /\ step = "release" => segments[active_segment.sequence] = store
    /\ step = "manifest" => index.store = store /\ index.directory = directory

(***************************************************************************)
(* A query holds an entry of the directory; when it goes to the segment,   *)
(* that one is published.                                                  *)
(***************************************************************************)
ReaderOK ==
  /\ reader.step # "idle" => held
  /\ reader.step \in {"pending", "segment"} =>
       \E i \in DOMAIN directory : directory[i] = reader.entry
  /\ reader.step = "segment" /\ ~swept /\ ~Cancelling =>
       segments[reader.entry.segment] = store

(***************************************************************************)
(* Without a restart and a sweep, a segment in the repository is in the    *)
(* directory of the store that will remove it, or there is a manifest.     *)
(***************************************************************************)
LeftOK ==
  ~interrupted /\ ~swept /\ step \notin ClearSteps =>
    IF remove_on_drop /\ (held \/ step # "none")
      THEN \A s \in SegmentNumbers :
             segments[s] # 0 => \E i \in DOMAIN directory : directory[i].segment = s
      ELSE manifest = 0 => \A s \in SegmentNumbers : segments[s] = 0

(***************************************************************************)
(* The three kinds of types together.                                      *)
(***************************************************************************)
Types == MemoryType /\ FlightType /\ RepositoryType

(***************************************************************************)
(* What is known of the blocks and the words.                              *)
(***************************************************************************)
CountInv == Types /\ PhaseOK /\ WordsOK /\ FlightOK

-----------------------------------------------------------------------------
(* The words and the blocks under way.                                     *)

(***************************************************************************)
(* A query, and a cleanup that only looks, changes nothing but its own     *)
(* progress.                                                               *)
(***************************************************************************)
LEMMA Aside ==
  ASSUME \/ Query \/ ListManifests \/ InspectManifest \/ InspectIndex \/ SweepUnpublished
         \/ UNCHANGED vars
  PROVE  UNCHANGED <<control, blocks, segmenting, shared, repository, held, swept, history>>
BY Zenon DEF Query, Snapshot, ReadPending, ReadSegment, ListManifests, InspectManifest, InspectIndex,
       SweepUnpublished, vars, query, maintenance

(***************************************************************************)
(* The words of full blocks: one block more is BlockWords words more.      *)
(***************************************************************************)
LEMMA WordsFacts ==
  /\ \A n \in Nat : Words(n) \in Nat /\ Words(n + 1) = Words(n) + BlockWords /\ n <= Words(n)
  /\ \A m, n \in Nat : m <= n => Words(m) <= Words(n)
  /\ Words(0) = 0
<1> BlockWords \in Nat \ {0}
  BY DerivedStoreAssumption, Zenon
<1>1. ASSUME NEW n \in Nat
      PROVE  Words(n) \in Nat /\ Words(n + 1) = Words(n) + BlockWords /\ n <= Words(n)
  BY DEF Words
<1>2. ASSUME NEW m \in Nat, NEW n \in Nat, m <= n
      PROVE  Words(m) <= Words(n)
  <2> DEFINE k == n - m
  <2>1. k \in Nat /\ n = m + k
    BY <1>2
  <2> HIDE DEF k
  <2>2. (m + k) * BlockWords = m * BlockWords + k * BlockWords
    BY <2>1
  <2>3. k * BlockWords \in Nat /\ m * BlockWords \in Nat
    BY <2>1
  <2> QED BY <2>1, <2>2, <2>3 DEF Words
<1>3. Words(0) = 0
  BY DEF Words
<1> QED BY <1>1, <1>2, <1>3, Zenon

(***************************************************************************)
(* An accepted block stays under way.                                      *)
(***************************************************************************)
LEMMA AcceptKeeps ==
  ASSUME FlightType, NEW next, Accept(next), step' # "terminal"
  PROVE  Flying' = Flying /\ step' = next
<1> DEFINE c == Head(completions)
           t == Tail(completions)
<1>1. /\ completions # <<>> /\ completions' = t /\ encoding' = encoding
      /\ prepared_blocks' = prepared_blocks \cup {c} /\ step' = next
  BY Zenon DEF Accept, Failing
<1>2. /\ c = completions[1] /\ 1 \in DOMAIN completions
      /\ \A i \in DOMAIN t : t[i] = completions[i + 1] /\ i + 1 \in DOMAIN completions
      /\ \A i \in DOMAIN completions : i # 1 => i - 1 \in DOMAIN t /\ t[i - 1] = completions[i]
  BY <1>1 DEF FlightType
<1> HIDE DEF c, t
<1>3. {completions[i] : i \in DOMAIN completions} = {c} \cup {t[i] : i \in DOMAIN t}
  <2>1. ASSUME NEW i \in DOMAIN completions PROVE completions[i] \in {c} \cup {t[j] : j \in DOMAIN t}
    BY <1>2, Zenon
  <2>2. ASSUME NEW i \in DOMAIN t PROVE t[i] \in {completions[j] : j \in DOMAIN completions}
    BY <1>2, Zenon
  <2>3. c \in {completions[j] : j \in DOMAIN completions}
    BY <1>2, Zenon
  <2> QED BY <2>1, <2>2, <2>3, Zenon
<1> QED BY <1>1, <1>3, Zenon DEF Flying

(***************************************************************************)
(* An encoded block keeps its number and its words.                        *)
(***************************************************************************)
LEMMA EncodeKeeps ==
  ASSUME FlightType, NEW b \in encoding, Encode(b)
  PROVE  /\ \A x \in Flying' : \E y \in Flying : x.sequence = y.sequence /\ x.words = y.words
         /\ \A y \in Flying : \E x \in Flying' : x.sequence = y.sequence
<1>1. PICK outcome \in {"encoded", "failed", "panicked"} :
        completions' = completions \o <<[sequence |-> b.sequence, words |-> b.words, outcome |-> outcome]>>
  BY Zenon DEF Encode
<1> DEFINE c == [sequence |-> b.sequence, words |-> b.words, outcome |-> outcome]
<1>2. c.sequence = b.sequence /\ c.words = b.words
  OBVIOUS
<1>3. completions' = completions \o <<c>>
  BY <1>1, Zenon
<1> HIDE DEF c
<1>4. /\ \A i \in DOMAIN completions' :
           completions'[i] = c \/ (i \in DOMAIN completions /\ completions'[i] = completions[i])
      /\ \A i \in DOMAIN completions : i \in DOMAIN completions' /\ completions'[i] = completions[i]
      /\ Len(completions) + 1 \in DOMAIN completions' /\ completions'[Len(completions) + 1] = c
  BY <1>3 DEF FlightType
<1>5. encoding' = encoding \ {b} /\ prepared_blocks' = prepared_blocks
  BY Zenon DEF Encode
<1>6. ASSUME NEW x \in Flying' PROVE \E y \in Flying : x.sequence = y.sequence /\ x.words = y.words
  <2>1. CASE x = c
    BY <2>1, <1>2, Zenon DEF Flying
  <2>2. CASE x # c
    BY <2>2, <1>4, <1>5, Zenon DEF Flying
  <2> QED BY <2>1, <2>2, Zenon
<1>7. ASSUME NEW y \in Flying PROVE \E x \in Flying' : x.sequence = y.sequence
  <2>1. CASE y = b
    <3>1. c \in Flying'
      BY <1>4, Zenon DEF Flying
    <3> QED BY <2>1, <3>1, <1>2, Zenon
  <2>2. CASE y # b
    <3>1. y \in Flying'
      BY <2>2, <1>4, <1>5, Zenon DEF Flying
    <3> QED BY <3>1, Zenon
  <2> QED BY <2>1, <2>2, Zenon
<1> QED BY <1>6, <1>7, Zenon

(***************************************************************************)
(* The blocks under way have a number and words.                           *)
(***************************************************************************)
LEMMA FlyingType ==
  ASSUME FlightType
  PROVE  \A b \in Flying : b.sequence \in Nat /\ b.words \in Nat
<1>1. \A b \in encoding : b.sequence \in Nat /\ b.words \in Nat
  BY Zenon DEF FlightType, Block
<1>2. \A b \in Completion : b.sequence \in Nat /\ b.words \in Nat
  BY Zenon DEF Completion
<1>3. \A i \in DOMAIN completions : completions[i] \in Completion
  BY DEF FlightType
<1> QED BY <1>1, <1>2, <1>3, Zenon DEF FlightType, Flying

(***************************************************************************)
(* The block that is to be committed next is one of those under way.       *)
(***************************************************************************)
LEMMA ReadyFlies ==
  ASSUME FlightType, NEW b \in Ready
  PROVE  b \in Flying /\ b \in Completion /\ b.sequence = next_sequence
BY Zenon DEF FlightType, Flying, Ready

(***************************************************************************)
(* No step of the writer loses a word or counts one twice.                 *)
(***************************************************************************)
LEMMA WordsStep ==
  ASSUME MemoryType, FlightType, PhaseOK, WordsOK, FlightOK, [Next]_vars
  PROVE  WordsOK'
<1> SUFFICES ASSUME step' \in Writing PROVE WordsOK'
  BY Zenon DEF WordsOK
<1> USE DEF Phase, Writing, control, blocks, history, shared
<1> BlockWords \in Nat \ {0}
  BY DerivedStoreAssumption, Zenon
<1>0. /\ Words(next_dispatch_sequence) \in Nat /\ Words(next_sequence) \in Nat
      /\ next_dispatch_sequence <= Words(next_dispatch_sequence)
      /\ Words(next_dispatch_sequence + 1) = Words(next_dispatch_sequence) + BlockWords
      /\ Words(next_sequence + 1) = Words(next_sequence) + BlockWords
  BY WordsFacts, Zenon DEF MemoryType
<1>00. step \in Writing => Words(next_sequence) <= Words(next_dispatch_sequence)
  BY WordsFacts, Zenon DEF MemoryType, PhaseOK
<1>000. ASSUME step \in Writing, Phase' = Phase, Unfilled' = Unfilled,
               UNCHANGED <<builder, next_dispatch_sequence, next_sequence, committed_word_count, appended>>
        PROVE  WordsOK'
  BY <1>000, Zenon DEF WordsOK, Words
<1>1. CASE RemoveSegments
  <2>1. /\ step' = "idle" /\ builder' = 0 /\ next_dispatch_sequence' = 0 /\ next_sequence' = 0
        /\ committed_word_count' = 0 /\ appended' = 0
    BY <1>1, Zenon DEF RemoveSegments, NewStore
  <2> QED BY <2>1, WordsFacts DEF WordsOK, Unfilled, Words
<1>2. CASE \E words \in 1 .. MaxWords : AppendBatch(words)
  <2>1. PICK words \in 1 .. MaxWords : AppendBatch(words)
    BY <1>2, Zenon
  <2>2. /\ words \in Nat /\ step = "idle" /\ appended' = appended + words /\ remaining' = words
        /\ operation' = "append" /\ step' = "drain" /\ resume' = "fill"
        /\ UNCHANGED <<builder, next_dispatch_sequence, next_sequence, committed_word_count>>
    BY <2>1, DerivedStoreAssumption DEF AppendBatch
  <2>3. /\ appended = Words(next_dispatch_sequence) + builder
        /\ committed_word_count = Words(next_sequence)
    BY <2>2, <1>0, <1>00 DEF WordsOK, Unfilled, MemoryType
  <2>4. Unfilled' = words /\ Phase' = "fill"
    BY <2>2, Zenon DEF Unfilled
  <2>5. /\ Words(next_dispatch_sequence)' = Words(next_dispatch_sequence)
        /\ Words(next_sequence)' = Words(next_sequence)
    BY <2>2, Zenon DEF Words
  <2> QED BY <2>2, <2>3, <2>4, <2>5, <1>0, <1>00 DEF WordsOK, MemoryType
<1>3. CASE Finish
  <2>1. /\ step = "idle" /\ operation' = "finish" /\ step' = AfterBuilder /\ resume' = "room"
        /\ UNCHANGED <<builder, next_dispatch_sequence, next_sequence, committed_word_count, appended>>
    BY <1>3, Zenon DEF Finish
  <2>2. Unfilled' = 0 /\ Unfilled = 0
    BY <2>1, Zenon DEF Unfilled
  <2>3. Phase' = IF builder = 0 THEN "flush" ELSE "room"
    BY <2>1, Zenon DEF AfterBuilder
  <2>4. /\ Words(next_dispatch_sequence)' = Words(next_dispatch_sequence)
        /\ Words(next_sequence)' = Words(next_sequence)
    BY <2>1, Zenon DEF Words
  <2> QED BY <2>1, <2>2, <2>3, <2>4, <1>0 DEF WordsOK, MemoryType
<1>4. CASE Drain
  BY <1>4, <1>000, AcceptKeeps, Zenon DEF Drain, Accept, Failing, Unfilled
<1>5. CASE Drained
  BY <1>5, <1>000, Zenon DEF Drained, Unfilled
<1>6. CASE Fill
  <2> DEFINE a == IF remaining < BlockWords - builder THEN remaining ELSE BlockWords - builder
  <2>0. /\ a \in Nat /\ a <= remaining /\ builder \in Nat /\ remaining \in Nat
        /\ remaining' = remaining - a /\ builder' = builder + a
    BY <1>6 DEF Fill, MemoryType
  <2> HIDE DEF a
  <2>1. /\ step = "fill" /\ step' = "drain" /\ resume' \in {"room", "tail"}
        /\ UNCHANGED <<operation, next_dispatch_sequence, next_sequence, committed_word_count, appended>>
    BY <1>6, Zenon DEF Fill
  <2>2. operation = "append"
    BY <2>1, Zenon DEF PhaseOK
  <2>3. Unfilled = remaining /\ Unfilled' = remaining' /\ Phase' \in {"room", "tail"}
    BY <2>1, <2>2, Zenon DEF Unfilled
  <2>4. /\ Words(next_dispatch_sequence)' = Words(next_dispatch_sequence)
        /\ Words(next_sequence)' = Words(next_sequence)
    BY <2>1, Zenon DEF Words
  <2>5. /\ appended = Words(next_dispatch_sequence) + builder + remaining
        /\ next_dispatch_sequence <= appended
        /\ committed_word_count =
             IF Words(next_sequence) <= appended THEN Words(next_sequence) ELSE appended
    BY <2>1, <2>3, Zenon DEF WordsOK
  <2>6. appended = Words(next_dispatch_sequence) + builder' + remaining'
    <3>1. Words(next_dispatch_sequence) \in Nat
      BY <1>0, Zenon
    <3> QED BY <2>0, <2>5, <3>1
  <2> QED BY <2>1, <2>3, <2>4, <2>5, <2>6, Zenon DEF WordsOK
<1>7. CASE WaitForRoom
  <2>1. step' = "commit"
    BY <1>7, AcceptKeeps, Zenon DEF WaitForRoom, Accept, Failing
  <2> QED BY <1>7, <2>1, <1>000, Zenon DEF WaitForRoom, Accept, Unfilled, PhaseOK
<1>8. CASE Dispatch
  <2>1. /\ step = "room" /\ builder' = 0 /\ next_dispatch_sequence' = next_dispatch_sequence + 1
        /\ step' = (IF operation = "finish" THEN "flush" ELSE "fill")
        /\ UNCHANGED <<operation, remaining, next_sequence, committed_word_count, appended>>
    BY <1>8, Zenon DEF Dispatch
  <2>2. /\ builder >= 1
        /\ \/ operation = "append" /\ builder = BlockWords
           \/ operation = "finish"
    BY <2>1, Zenon DEF PhaseOK
  <2>3. /\ Words(next_dispatch_sequence)' = Words(next_dispatch_sequence) + BlockWords
        /\ Words(next_sequence)' = Words(next_sequence)
    BY <2>1, <1>0, Zenon DEF Words
  <2>4. Unfilled' = Unfilled /\ Unfilled \in Nat /\ (operation = "finish" => Unfilled = 0)
    BY <2>1, <2>2, Zenon DEF Unfilled, MemoryType
  <2> QED BY <2>1, <2>2, <2>3, <2>4, <1>0 DEF WordsOK, MemoryType
<1>9. CASE PublishHotTail \/ SkipHotTail
  <2>1. /\ step = "tail" /\ step' = "idle"
        /\ UNCHANGED <<operation, remaining, builder, next_dispatch_sequence, next_sequence,
                       committed_word_count, appended>>
    BY <1>9, Zenon DEF PublishHotTail, SkipHotTail
  <2>2. Unfilled = 0 /\ Unfilled' = 0
    BY <2>1, Zenon DEF Unfilled, PhaseOK
  <2> QED BY <2>1, <2>2, Zenon DEF WordsOK, Words
<1>11. CASE Commit
  BY <1>11, <1>000, Zenon DEF Commit, Failing, Unfilled
<1>12. CASE Committed
  BY <1>12, <1>000, Zenon DEF Committed, Unfilled, PhaseOK
<1>13. CASE CommitDirectory
  <2>1. PICK b \in Ready : committed_word_count' = committed_word_count + b.words
    BY <1>13, Zenon DEF CommitDirectory
  <2>2. /\ step = "directory" /\ step' = "commit" /\ next_sequence' = next_sequence + 1
        /\ UNCHANGED <<operation, resume, remaining, builder, next_dispatch_sequence, appended>>
    BY <1>13, Zenon DEF CommitDirectory, AfterCommit
  <2>3. next_sequence < next_dispatch_sequence /\ b.words = Size(next_sequence)
    BY <2>2, ReadyFlies, Zenon DEF FlightOK
  <2>4. Words(next_sequence + 1) <= Words(next_dispatch_sequence)
    BY <2>3, WordsFacts DEF MemoryType
  <2>5. Words(next_sequence) <= appended
    BY <2>2, <2>4, <1>0 DEF WordsOK, PhaseOK, MemoryType, Unfilled
  <2>6. committed_word_count' =
          IF Words(next_sequence + 1) <= appended THEN Words(next_sequence + 1) ELSE appended
    BY <2>1, <2>2, <2>3, <2>5, <1>0 DEF WordsOK, Size, MemoryType
  <2>7. Phase' = Phase /\ Unfilled' = Unfilled
    BY <2>2, Zenon DEF Unfilled
  <2> QED BY <2>2, <2>6, <2>7, Zenon DEF WordsOK, Words
<1>14. CASE PublishSegment
  BY <1>14, <1>000, Zenon DEF PublishSegment, Unfilled
<1>15. CASE ReleasePending
  BY <1>15, <1>000, Zenon DEF ReleasePending, Unfilled
<1>16. CASE Flush
  <2>1. step' = "commit" /\ operation = "finish"
    BY <1>16, AcceptKeeps, Zenon DEF Flush, Accept, Failing, PhaseOK
  <2> QED BY <1>16, <2>1, <1>000, Zenon DEF Flush, Accept, Unfilled
<1>17. CASE Flushed
  <2>1. /\ step = "flush" /\ Phase' = "index"
        /\ UNCHANGED <<builder, next_dispatch_sequence, next_sequence, committed_word_count, appended>>
    BY <1>17, Zenon DEF Flushed, AfterFlush
  <2> QED BY <2>1, Zenon DEF WordsOK, Words
<1>18. CASE PublishIndex
  <2>1. /\ step = "index" /\ Phase' = "manifest"
        /\ UNCHANGED <<builder, next_dispatch_sequence, next_sequence, committed_word_count, appended>>
    BY <1>18, Zenon DEF PublishIndex
  <2> QED BY <2>1, Zenon DEF WordsOK, Words
<1>19. CASE Executor
  BY <1>19, <1>000, Zenon DEF Executor, Encode, Unfilled
<1>20. CASE ReleaseHandle \/ CleanupRemoves
  BY <1>20, <1>000, Zenon DEF ReleaseHandle, CleanupRemoves, Unfilled
<1>21. CASE \/ Query \/ ListManifests \/ InspectManifest \/ InspectIndex \/ SweepUnpublished
            \/ UNCHANGED vars
  BY <1>21, <1>000, Aside, Zenon DEF Unfilled
<1>22. ~(\/ RemoveManifest \/ RemoveIndex \/ BeginCreate \/ BeginClear \/ Open \/ OpenIndex
         \/ TouchManifest \/ PublishManifest \/ MarkFinished \/ OperationFails
         \/ DiscardActiveSegment \/ MarkCancelled \/ ReleaseWriter \/ Crash)
  BY Zenon DEF RemoveManifest, RemoveIndex, BeginCreate, BeginClear, Open, OpenIndex, TouchManifest,
         PublishManifest, MarkFinished, OperationFails, Failing, DiscardActiveSegment, MarkCancelled,
         ReleaseWriter, Crash
<1> QED
  BY Zenon, <1>1, <1>2, <1>3, <1>4, <1>5, <1>6, <1>7, <1>8, <1>9, <1>11, <1>12, <1>13, <1>14,
     <1>15, <1>16, <1>17, <1>18, <1>19, <1>20, <1>21, <1>22
     DEF Next, Writer, Clearing, Opening, Committing, Appending, Finishing, Run, Cleanup

(***************************************************************************)
(* No step loses a block, nor the order of the blocks.                     *)
(***************************************************************************)
LEMMA FlightOKStep ==
  ASSUME MemoryType, FlightType, PhaseOK, WordsOK, FlightOK, [Next]_vars
  PROVE  FlightOK'
<1> SUFFICES ASSUME step' \in Writing PROVE FlightOK'
  BY Zenon DEF FlightOK
<1> USE DEF Writing, control, blocks, history, shared
<1> BlockWords \in Nat \ {0}
  BY DerivedStoreAssumption, Zenon
<1>0. ASSUME step \in Writing, Flying' = Flying,
             UNCHANGED <<next_dispatch_sequence, next_sequence, appended>>
      PROVE  FlightOK'
  <2>1. \A s : Size(s)' = Size(s)
    BY <1>0, Zenon DEF Size, Words
  <2> QED BY <1>0, <2>1, Zenon DEF FlightOK
<1>00. ASSUME step \in Writing,
              UNCHANGED <<encoding, completions, prepared_blocks, next_dispatch_sequence, next_sequence, appended>>
       PROVE  FlightOK'
  BY <1>0, <1>00, Zenon DEF Flying
<1>1. CASE RemoveSegments
  <2>1. /\ encoding' = {} /\ completions' = <<>> /\ prepared_blocks' = {}
        /\ next_dispatch_sequence' = 0
    BY <1>1, Zenon DEF RemoveSegments, NewStore
  <2>2. Flying' = {}
    BY <2>1 DEF Flying
  <2> QED BY <2>1, <2>2 DEF FlightOK
<1>2. CASE \E words \in 1 .. MaxWords : AppendBatch(words)
  <2>1. PICK words \in 1 .. MaxWords : AppendBatch(words)
    BY <1>2, Zenon
  <2>a. /\ words \in Nat /\ step = "idle" /\ appended' = appended + words
        /\ UNCHANGED <<encoding, completions, prepared_blocks, next_dispatch_sequence, next_sequence>>
    BY <2>1, DerivedStoreAssumption DEF AppendBatch
  <2>b. Flying' = Flying
    BY <2>a, Zenon DEF Flying
  <2>2. /\ words \in Nat /\ step = "idle" /\ appended' = appended + words /\ Flying' = Flying
        /\ UNCHANGED <<next_dispatch_sequence, next_sequence>>
    BY <2>a, <2>b, Zenon
  <2>3. Words(next_dispatch_sequence) \in Nat /\ Words(next_dispatch_sequence) <= appended
    BY <2>2, WordsFacts DEF WordsOK, Phase, Unfilled, MemoryType
  <2>4. ASSUME NEW b \in Flying PROVE Size(b.sequence)' = Size(b.sequence)
    <3>1. b.sequence \in Nat /\ b.sequence < next_dispatch_sequence
      BY <2>2, FlyingType, Zenon DEF FlightOK
    <3>2. Words(b.sequence + 1) \in Nat /\ Words(b.sequence + 1) <= Words(next_dispatch_sequence)
      <4>1. b.sequence + 1 \in Nat /\ b.sequence + 1 <= next_dispatch_sequence
            /\ next_dispatch_sequence \in Nat
        BY <3>1 DEF MemoryType
      <4> QED BY <4>1, WordsFacts, Zenon
    <3> QED BY <2>2, <2>3, <3>2 DEF Size, MemoryType, Words
  <2> QED BY <2>2, <2>4, Zenon DEF FlightOK
<1>3. CASE Finish
  BY <1>3, <1>00, Zenon DEF Finish
<1>4. CASE Drain \/ WaitForRoom \/ Flush
  <2>1. Flying' = Flying
    BY <1>4, AcceptKeeps, Zenon DEF Drain, WaitForRoom, Flush
  <2> QED BY <1>4, <2>1, <1>0, Zenon DEF Drain, WaitForRoom, Flush, Accept
<1>5. CASE Drained \/ Commit \/ Committed \/ PublishSegment \/ ReleasePending
  BY <1>5, <1>00, Zenon DEF Drained, Commit, Committed, PublishSegment, ReleasePending
<1>6. CASE Fill \/ PublishHotTail \/ SkipHotTail \/ Flushed \/ PublishIndex
  BY <1>6, <1>00, Zenon DEF Fill, PublishHotTail, SkipHotTail, Flushed, PublishIndex
<1>8. CASE Dispatch
  <2> DEFINE n == [sequence |-> next_dispatch_sequence, words |-> builder]
  <2>1. /\ step = "room" /\ encoding' = encoding \cup {n}
        /\ next_dispatch_sequence' = next_dispatch_sequence + 1
        /\ UNCHANGED <<operation, remaining, completions, prepared_blocks, next_sequence, appended>>
    BY <1>8, Zenon DEF Dispatch
  <2>2. n.sequence = next_dispatch_sequence /\ n.words = builder
    OBVIOUS
  <2> HIDE DEF n
  <2>3. Flying' = Flying \cup {n}
    BY <2>1, Zenon DEF Flying
  <2>4. \A s : Size(s)' = Size(s)
    BY <2>1, Zenon DEF Size, Words
  <2>5. builder = Size(next_dispatch_sequence)
    <3>1. /\ Words(next_dispatch_sequence) \in Nat
          /\ Words(next_dispatch_sequence + 1) = Words(next_dispatch_sequence) + BlockWords
      BY WordsFacts, Zenon DEF MemoryType
    <3>2. appended = Words(next_dispatch_sequence) + builder + Unfilled
      BY <2>1, Zenon DEF WordsOK, Phase
    <3>3. /\ builder >= 1
          /\ \/ operation = "append" /\ builder = BlockWords /\ Unfilled \in Nat
             \/ operation = "finish" /\ Unfilled = 0
      BY <2>1, Zenon DEF PhaseOK, Phase, Unfilled, MemoryType
    <3> QED BY <3>1, <3>2, <3>3 DEF Size, MemoryType
  <2>6. ASSUME NEW s \in Nat, next_sequence <= s, s < next_dispatch_sequence + 1
        PROVE  \E b \in Flying' : b.sequence = s
    <3>1. CASE s = next_dispatch_sequence
      BY <3>1, <2>2, <2>3, Zenon
    <3>2. CASE s < next_dispatch_sequence
      BY <3>2, <2>1, <2>3, <2>6, Zenon DEF FlightOK
    <3> QED BY <2>6, <3>1, <3>2 DEF MemoryType
  <2>7. ASSUME NEW b \in Flying'
        PROVE  b.sequence < next_dispatch_sequence + 1 /\ b.words = Size(b.sequence)
    <3>1. CASE b = n
      BY <3>1, <2>2, <2>5 DEF MemoryType
    <3>2. CASE b \in Flying
      BY <3>2, <2>1, FlyingType DEF FlightOK, MemoryType
    <3> QED BY <2>3, <3>1, <3>2, Zenon
  <2> QED BY <2>1, <2>4, <2>6, <2>7, Zenon DEF FlightOK
<1>13. CASE CommitDirectory
  <2>1. PICK b \in Ready : prepared_blocks' = prepared_blocks \ {b}
    BY <1>13, Zenon DEF CommitDirectory
  <2>2. /\ step = "directory" /\ next_sequence' = next_sequence + 1
        /\ UNCHANGED <<encoding, completions, next_dispatch_sequence, appended>>
    BY <1>13, Zenon DEF CommitDirectory
  <2>3. Flying' \subseteq Flying /\ Flying \subseteq Flying' \cup {b} /\ b.sequence = next_sequence
    BY <2>1, <2>2, ReadyFlies, Zenon DEF Flying
  <2>4. \A s : Size(s)' = Size(s)
    BY <2>2, Zenon DEF Size, Words
  <2>5. ASSUME NEW s \in Nat, next_sequence + 1 <= s, s < next_dispatch_sequence
        PROVE  \E x \in Flying' : x.sequence = s
    <3>1. PICK x \in Flying : x.sequence = s
      BY <2>5, <2>2 DEF FlightOK, MemoryType
    <3>2. x # b
      BY <2>3, <2>5, <3>1 DEF MemoryType
    <3> QED BY <2>3, <3>1, <3>2, Zenon
  <2> QED BY <2>2, <2>3, <2>4, <2>5, Zenon DEF FlightOK
<1>19. CASE Executor
  <2>1. PICK b \in encoding : Encode(b)
    BY <1>19, Zenon DEF Executor
  <2>2. /\ step \in Writing
        /\ UNCHANGED <<next_dispatch_sequence, next_sequence, appended>>
    BY <2>1, Zenon DEF Encode
  <2>3. \A s : Size(s)' = Size(s)
    BY <2>2, Zenon DEF Size, Words
  <2>4. /\ \A x \in Flying' : \E y \in Flying : x.sequence = y.sequence /\ x.words = y.words
        /\ \A y \in Flying : \E x \in Flying' : x.sequence = y.sequence
    BY <2>1, EncodeKeeps, Zenon
  <2>5. \A x \in Flying' : x.sequence < next_dispatch_sequence /\ x.words = Size(x.sequence)
    BY <2>2, <2>4 DEF FlightOK
  <2>6. \A s \in Nat : next_sequence <= s /\ s < next_dispatch_sequence =>
          \E x \in Flying' : x.sequence = s
    BY <2>2, <2>4 DEF FlightOK
  <2> QED BY <2>2, <2>3, <2>5, <2>6, Zenon DEF FlightOK
<1>20. CASE ReleaseHandle \/ CleanupRemoves
  BY <1>20, <1>00, Zenon DEF ReleaseHandle, CleanupRemoves
<1>21. CASE \/ Query \/ ListManifests \/ InspectManifest \/ InspectIndex \/ SweepUnpublished
            \/ UNCHANGED vars
  BY Zenon, <1>21, <1>00, Aside
<1>22. ~(\/ RemoveManifest \/ RemoveIndex \/ BeginCreate \/ BeginClear \/ Open \/ OpenIndex
         \/ TouchManifest \/ PublishManifest \/ MarkFinished \/ OperationFails
         \/ DiscardActiveSegment \/ MarkCancelled \/ ReleaseWriter \/ Crash)
  BY Zenon DEF RemoveManifest, RemoveIndex, BeginCreate, BeginClear, Open, OpenIndex, TouchManifest,
         PublishManifest, MarkFinished, OperationFails, Failing, DiscardActiveSegment, MarkCancelled,
         ReleaseWriter, Crash
<1> QED
  BY Zenon, <1>1, <1>2, <1>3, <1>4, <1>5, <1>6, <1>8, <1>13, <1>19, <1>20, <1>21, <1>22
     DEF Next, Writer, Clearing, Opening, Committing, Appending, Finishing, Run, Cleanup

-----------------------------------------------------------------------------
(* Which actions change what.                                              *)

(***************************************************************************)
(* The last step of create: the store is new.                              *)
(***************************************************************************)
Creates == RemoveSegments /\ operation = "create"

(***************************************************************************)
(* For each part of the state, the actions that change it.                 *)
(***************************************************************************)
Frame ==
  /\ UNCHANGED directory \/ Creates \/ OpenIndex \/ CommitDirectory \/ Crash
  /\ UNCHANGED committed_word_count \/ Creates \/ OpenIndex \/ CommitDirectory \/ Crash
  /\ UNCHANGED next_sequence \/ Creates \/ CommitDirectory \/ Crash
  /\ UNCHANGED hot_tail \/ hot_tail' = NoTail \/ PublishHotTail
  /\ UNCHANGED hot_tail \/ PublishHotTail \/ CommitDirectory \/ Creates \/ OpenIndex \/ MarkCancelled \/ Crash
     \/ status' = "Failed"
  /\ \/ UNCHANGED status \/ Creates \/ OpenIndex \/ MarkFinished \/ MarkCancelled \/ Crash
     \/ status' = "Failed" /\ step \in Writing /\ step' = "terminal"
  /\ UNCHANGED <<active_segment, next_segment_sequence>> \/ Creates \/ Commit \/ ReleasePending
     \/ DiscardActiveSegment \/ ReleaseWriter \/ Crash
  /\ UNCHANGED pending_blocks \/ Creates \/ OpenIndex \/ Commit \/ ReleasePending \/ DiscardActiveSegment
     \/ Crash
  /\ UNCHANGED remove_on_drop \/ Creates \/ OpenIndex \/ MarkFinished \/ Crash
  /\ UNCHANGED segments \/ RemoveSegments \/ PublishSegment \/ ReleaseWriter \/ ReleaseHandle
     \/ CleanupRemoves
  /\ UNCHANGED index \/ RemoveIndex \/ PublishIndex \/ CleanupRemoves
  /\ UNCHANGED manifest \/ RemoveManifest \/ PublishManifest \/ TouchManifest \/ CleanupRemoves
  /\ UNCHANGED held \/ Creates \/ TouchManifest \/ ReleaseHandle \/ Crash
  /\ UNCHANGED reader \/ Creates \/ ReleaseHandle \/ Query \/ Crash
  /\ UNCHANGED swept \/ CleanupRemoves
  /\ UNCHANGED interrupted \/ Creates \/ Crash
  /\ UNCHANGED store \/ Creates
  /\ UNCHANGED appended \/ Creates \/ \E words \in 1 .. MaxWords : AppendBatch(words)

(***************************************************************************)
(* No other action changes it.                                             *)
(***************************************************************************)
LEMMA Frames == [Next]_vars => Frame
<1> SUFFICES ASSUME [Next]_vars PROVE Frame
  OBVIOUS
<1> USE DEF Frame, control, blocks, segmenting, shared, repository, query, maintenance, history
<1>1. CASE BeginCreate \/ BeginClear
  BY <1>1, Zenon DEF BeginCreate, BeginClear
<1>2. CASE RemoveManifest \/ RemoveIndex
  BY <1>2, Zenon DEF RemoveManifest, RemoveIndex
<1>3. CASE RemoveSegments
  <2>1. CASE operation = "create"
    BY <1>3, <2>1, Zenon DEF RemoveSegments, NewStore, Creates
  <2>2. CASE operation # "create"
    BY <1>3, <2>2, Zenon DEF RemoveSegments
  <2> QED BY <2>1, <2>2, Zenon
<1>4. CASE Open \/ OpenIndex \/ TouchManifest
  BY <1>4, Zenon DEF Open, OpenIndex, TouchManifest
<1>5. CASE Finish \/ \E words \in 1 .. MaxWords : AppendBatch(words)
  BY <1>5, Zenon DEF Finish, AppendBatch
<1>6. ASSUME NEW next, Accept(next), step \in Writing PROVE Frame
  BY <1>6, Zenon DEF Accept, Failing
<1>7. CASE Drain \/ WaitForRoom \/ Flush
  BY <1>6, <1>7, Zenon DEF Drain, WaitForRoom, Flush, Writing
<1>8. CASE Drained \/ Committed \/ Fill \/ SkipHotTail
  BY <1>8, Zenon DEF Drained, Committed, Fill, SkipHotTail
<1>9. CASE Dispatch \/ PublishHotTail
  BY <1>9, Zenon DEF Dispatch, PublishHotTail, TailAtDispatch
<1>10. CASE Commit
  BY <1>10, Zenon DEF Commit, Failing, Writing
<1>11. CASE CommitDirectory
  BY <1>11, Zenon DEF CommitDirectory
<1>12. CASE PublishSegment \/ ReleasePending
  BY <1>12, Zenon DEF PublishSegment, ReleasePending
<1>13. CASE Flushed \/ PublishIndex
  BY <1>13, Zenon DEF Flushed, PublishIndex
<1>14. CASE PublishManifest \/ MarkFinished
  BY <1>14, Zenon DEF PublishManifest, MarkFinished
<1>15. CASE OperationFails
  BY <1>15, Zenon DEF OperationFails, Failing, Writing
<1>16. CASE Executor
  BY <1>16, Zenon DEF Executor, Encode
<1>17. CASE DiscardActiveSegment \/ MarkCancelled \/ ReleaseWriter \/ ReleaseHandle
  BY <1>17, Zenon DEF DiscardActiveSegment, MarkCancelled, ReleaseWriter, ReleaseHandle
<1>18. CASE CleanupRemoves
  BY <1>18, Zenon DEF CleanupRemoves
<1>19. CASE Crash
  BY <1>19, ZenonT(40) DEF Crash
<1>20. CASE Query
  BY <1>20, Aside, Zenon
<1>21. CASE \/ ListManifests \/ InspectManifest \/ InspectIndex \/ SweepUnpublished \/ UNCHANGED vars
  BY <1>21, Aside, Zenon DEF ListManifests, InspectManifest, InspectIndex, SweepUnpublished, vars
<1> QED
  BY <1>1, <1>2, <1>3, <1>4, <1>5, <1>7, <1>8, <1>9, <1>10, <1>11, <1>12, <1>13, <1>14, <1>15,
     <1>16, <1>17, <1>18, <1>19, <1>20, <1>21, Zenon
     DEF Next, Writer, Clearing, Opening, Committing, Appending, Finishing, Run, Cleanup

(***************************************************************************)
(* For the steps that matter to the repository, the actions that lead to   *)
(* them.                                                                   *)
(***************************************************************************)
Course ==
  /\ step' \in Writing => step \in Writing \/ Creates
  /\ step' \in ClearSteps => \/ step' = step \/ RemoveManifest \/ RemoveIndex
                             \/ step = "none" /\ ~held /\ UNCHANGED held
                             \/ step \in {"open_index", "touch"} /\ UNCHANGED held
  /\ step \in ClearSteps => step' \in ClearSteps \/ RemoveSegments \/ Crash
  /\ step' = "clear_index" => step' = step \/ RemoveManifest
  /\ step' = "clear_segments" => step' = step \/ RemoveIndex
  /\ step' = "directory" => step' = step \/ Commit
  /\ step' = "publish" => \/ step' = step \/ Commit
                          \/ Flushed /\ active_segment.open
  /\ step' = "release" => step' = step \/ PublishSegment
  /\ step' = "index" => \/ step' = step \/ ReleasePending
                        \/ Flushed /\ ~active_segment.open
  /\ step' = "manifest" => step' = step \/ PublishIndex
  /\ step' = "finished" => step' = step \/ PublishManifest
  /\ step = "finished" => step' = step \/ MarkFinished \/ Crash
  /\ step' = "cancel" => step' = step \/ DiscardActiveSegment
  /\ step = "cancel" => step' = step \/ MarkCancelled \/ Crash
  /\ step' = "terminal" => step' = step \/ step \in Writing \cup {"finished", "cancel"}
  /\ step' = "open_index" => step' = step \/ Open
  /\ step' = "touch" => step' = step \/ OpenIndex
  /\ step = "directory" => step' = step \/ CommitDirectory \/ Crash
  /\ step = "manifest" => step' = step \/ step' \in {"finished", "terminal", "none"}
  /\ step' = "none" => \/ step' = step \/ TouchManifest \/ ReleaseWriter \/ Crash
                       \/ RemoveSegments /\ operation # "create"

(***************************************************************************)
(* No other action leads there.                                            *)
(***************************************************************************)
LEMMA Courses ==
  ASSUME MemoryType, FlightType, PhaseOK, [Next]_vars
  PROVE  Course
<1> USE DEF Course, Writing, ClearSteps
<1>1. CASE BeginCreate \/ BeginClear
  BY <1>1, Zenon DEF BeginCreate, BeginClear, query
<1>2. CASE RemoveManifest \/ RemoveIndex
  BY <1>2, Zenon DEF RemoveManifest, RemoveIndex
<1>3. CASE RemoveSegments
  BY <1>3, Zenon DEF RemoveSegments, Creates
<1>4. CASE Open \/ OpenIndex \/ TouchManifest
  BY <1>4, Zenon DEF Open, OpenIndex, TouchManifest, query
<1>5. CASE Finish \/ \E words \in 1 .. MaxWords : AppendBatch(words)
  BY <1>5, Zenon DEF Finish, AppendBatch, AfterBuilder
<1>7. CASE Drain \/ WaitForRoom \/ Flush
  <2>1. step \in {"drain", "room", "flush"} /\ step' \in {"drain", "commit", "terminal"}
    BY <1>7, Zenon DEF Drain, WaitForRoom, Flush, Accept, Failing
  <2> QED BY Zenon, <2>1
<1>8. CASE Drained \/ Fill \/ SkipHotTail
  BY <1>8, Zenon DEF Drained, Fill, SkipHotTail
<1>9. CASE Committed
  <2>1. step = "commit" /\ step' \in {"fill", "room", "tail", "flush"}
    BY <1>9, Zenon DEF Committed, PhaseOK, Phase, MemoryType
  <2> QED BY <2>1, Zenon
<1>10. CASE Dispatch \/ PublishHotTail
  BY <1>10, Zenon DEF Dispatch, PublishHotTail
<1>11. CASE Commit
  BY <1>11, Zenon DEF Commit, Failing
<1>12. CASE CommitDirectory
  BY <1>12, Zenon DEF CommitDirectory, AfterCommit
<1>13. CASE PublishSegment \/ ReleasePending
  BY <1>13, Zenon DEF PublishSegment, ReleasePending
<1>14. CASE Flushed \/ PublishIndex
  BY <1>14, Zenon DEF Flushed, PublishIndex, AfterFlush
<1>15. CASE PublishManifest \/ MarkFinished
  BY <1>15, Zenon DEF PublishManifest, MarkFinished
<1>16. CASE OperationFails
  BY <1>16, Zenon DEF OperationFails, Failing
<1>17. CASE Executor \/ ReleaseHandle \/ CleanupRemoves
  <2>1. step' = step
    BY <1>17, Zenon DEF Executor, Encode, ReleaseHandle, CleanupRemoves, control
  <2> QED BY <2>1, Zenon
<1>18. CASE DiscardActiveSegment \/ MarkCancelled \/ ReleaseWriter
  BY <1>18, Zenon DEF DiscardActiveSegment, MarkCancelled, ReleaseWriter
<1>19. CASE Crash
  BY <1>19, Zenon DEF Crash
<1>20. CASE \/ Query \/ ListManifests \/ InspectManifest \/ InspectIndex \/ SweepUnpublished
            \/ UNCHANGED vars
  <2>1. step' = step
    BY <1>20, Aside, Zenon DEF control
  <2> QED BY <2>1, Zenon
<1> QED
  BY <1>1, <1>2, <1>3, <1>4, <1>5, <1>7, <1>8, <1>9, <1>10, <1>11, <1>12, <1>13, <1>14, <1>15,
     <1>16, <1>17, <1>18, <1>19, <1>20, Zenon
     DEF Next, Writer, Clearing, Opening, Committing, Appending, Finishing, Run, Cleanup

-----------------------------------------------------------------------------
(* The directory and the end of a run.                                     *)

(***************************************************************************)
(* What is counted is a number.                                            *)
(***************************************************************************)
LEMMA Numbers ==
  ASSUME Types
  PROVE  /\ hot_tail.words \in Nat /\ appended \in Nat /\ MaxWords \in Nat
         /\ next_sequence \in Nat /\ BlockWords \in Nat /\ builder \in Nat
         /\ Words(next_sequence) \in Nat
<1>1. MaxWords \in Nat /\ BlockWords \in Nat
  BY DerivedStoreAssumption, Zenon
<1>2. /\ appended \in 0 .. MaxWords /\ builder \in 0 .. BlockWords /\ next_sequence \in Nat
      /\ hot_tail \in HotTail
  BY Zenon DEF Types, MemoryType
<1>3. hot_tail.words \in Nat
  BY <1>2, Zenon DEF HotTail
<1>4. appended \in Nat /\ builder \in Nat
  BY <1>1, <1>2
<1>5. Words(next_sequence) \in Nat
  BY Zenon, <1>2, WordsFacts
<1> QED BY <1>1, <1>2, <1>3, <1>4, <1>5, Zenon

(***************************************************************************)
(* What commit_prepared_block adds to the directory.                       *)
(***************************************************************************)
LEMMA Appended ==
  ASSUME Types, PhaseOK, FlightOK, CommitDirectory
  PROVE  \E b \in Ready :
           /\ b.sequence = next_sequence /\ b.words \in Nat /\ b.words = Size(next_sequence)
           /\ committed_word_count' = committed_word_count + b.words
           /\ next_sequence' = next_sequence + 1
           /\ Len(directory') = Len(directory) + 1
           /\ \A i \in DOMAIN directory : i \in DOMAIN directory' /\ directory'[i] = directory[i]
           /\ Len(directory) + 1 \in DOMAIN directory'
           /\ \A i \in DOMAIN directory' : i \in DOMAIN directory \/ i = Len(directory) + 1
           /\ directory'[Len(directory) + 1].sequence = next_sequence
           /\ directory'[Len(directory) + 1].segment = active_segment.sequence
<1>1. PICK b \in Ready :
        /\ directory' = directory \o <<[sequence |-> b.sequence, words |-> b.words,
                                        segment |-> active_segment.sequence]>>
        /\ committed_word_count' = committed_word_count + b.words
  BY Zenon DEF CommitDirectory
<1> DEFINE e == [sequence |-> b.sequence, words |-> b.words, segment |-> active_segment.sequence]
<1>2. e.sequence = b.sequence /\ e.segment = active_segment.sequence
  OBVIOUS
<1>3. directory' = directory \o <<e>>
  BY <1>1, Zenon
<1> HIDE DEF e
<1>4. b.sequence = next_sequence /\ b.words \in Nat /\ b.words = Size(next_sequence)
  <2>1. step \in Writing
    BY Zenon DEF CommitDirectory, Writing
  <2>2. b \in Flying /\ b.sequence = next_sequence
    BY ReadyFlies, Zenon DEF Types
  <2> QED BY <2>1, <2>2, FlyingType, Zenon DEF FlightOK, Types
<1>5. directory \in Seq(Entry)
  BY Zenon DEF Types, RepositoryType
<1>6. /\ Len(directory') = Len(directory) + 1
      /\ \A i \in DOMAIN directory : i \in DOMAIN directory' /\ directory'[i] = directory[i]
      /\ Len(directory) + 1 \in DOMAIN directory'
      /\ \A i \in DOMAIN directory' : i \in DOMAIN directory \/ i = Len(directory) + 1
      /\ directory'[Len(directory) + 1] = e
  BY <1>3, <1>5
<1>7. next_sequence' = next_sequence + 1
  BY Zenon DEF CommitDirectory
<1> QED BY Zenon, <1>1, <1>2, <1>4, <1>6, <1>7

(***************************************************************************)
(* Every step keeps the directories in order.                              *)
(***************************************************************************)
LEMMA DirectoryStep ==
  ASSUME Types, PhaseOK, FlightOK, DirectoryOK, ActiveOK, [Next]_vars
  PROVE  DirectoryOK'
<1>0. Frame /\ Course
  BY Frames, Courses, Zenon DEF Types
<1>1. CASE CommitDirectory
  <2>1. step = "directory" /\ step \in Writing /\ index' = index
    BY <1>1, Zenon DEF CommitDirectory, repository, Writing
  <2>2. active_segment.sequence \in SegmentNumbers
    BY <2>1, Zenon DEF ActiveOK
  <2>3. Len(directory) = next_sequence
    BY <2>1, Zenon DEF DirectoryOK
  <2>4. Len(directory) \in Nat
    BY DEF Types, RepositoryType
  <2>5. /\ Len(directory') = next_sequence'
        /\ \A i \in DOMAIN directory' :
             directory'[i].sequence = i - 1 /\ directory'[i].segment \in SegmentNumbers
    <3>1. \A i \in DOMAIN directory :
            directory[i].sequence = i - 1 /\ directory[i].segment \in SegmentNumbers
      BY Zenon DEF DirectoryOK
    <3>2. PICK b \in Ready :
            /\ next_sequence' = next_sequence + 1 /\ Len(directory') = Len(directory) + 1
            /\ \A i \in DOMAIN directory : directory'[i] = directory[i]
            /\ \A i \in DOMAIN directory' : i \in DOMAIN directory \/ i = Len(directory) + 1
            /\ directory'[Len(directory) + 1].sequence = next_sequence
            /\ directory'[Len(directory) + 1].segment = active_segment.sequence
      BY <1>1, Appended, Zenon
    <3>3. next_sequence = (next_sequence + 1) - 1
      BY <2>3, <2>4
    <3>4. Len(directory') = next_sequence'
      BY <2>3, <3>2, Zenon
    <3>5. \A i \in DOMAIN directory' :
            directory'[i].sequence = i - 1 /\ directory'[i].segment \in SegmentNumbers
      BY <2>2, <2>3, <3>1, <3>2, <3>3, Zenon
    <3> QED BY <3>4, <3>5, Zenon
  <2> QED BY <2>1, <2>5, Zenon DEF DirectoryOK
<1>2. CASE ~CommitDirectory
  <2>1. \A i \in DOMAIN directory' :
          directory'[i].sequence = i - 1 /\ directory'[i].segment \in SegmentNumbers
    <3>1. CASE UNCHANGED directory
      BY <3>1, Zenon DEF DirectoryOK
    <3>2. CASE directory' = <<>>
      BY <3>2
    <3>3. CASE directory' = index.directory
      BY <3>3, Zenon DEF DirectoryOK
    <3> QED BY <1>0, <1>2, <3>1, <3>2, <3>3, Zenon DEF Frame, Creates, RemoveSegments, NewStore, OpenIndex, shared, Crash
  <2>2. \A i \in DOMAIN index'.directory :
          index'.directory[i].sequence = i - 1 /\ index'.directory[i].segment \in SegmentNumbers
    <3>1. CASE UNCHANGED index
      BY <3>1, Zenon DEF DirectoryOK
    <3>2. CASE index' = NoIndex
      BY <3>2 DEF NoIndex
    <3>3. CASE index'.directory = directory
      BY <3>3, Zenon DEF DirectoryOK
    <3>4. CASE PublishIndex
      <4>1. index' = [store |-> store, words |-> committed_word_count, directory |-> directory]
        BY <3>4, Zenon DEF PublishIndex
      <4>2. index'.directory = directory
        BY <4>1, Zenon
      <4> QED BY Zenon, <3>3, <4>2
    <3> QED BY <1>0, <3>1, <3>2, <3>4, Zenon DEF Frame, RemoveIndex, CleanupRemoves
  <2>3. step' \in Writing => Len(directory') = next_sequence'
    <3>1. CASE Creates
      BY <3>1, Zenon DEF Creates, RemoveSegments, NewStore
    <3>2. CASE step' \in Writing /\ ~Creates
      <4>1. step \in Writing /\ ~OpenIndex /\ ~Crash
        BY <3>2, <1>0, Zenon DEF Course, OpenIndex, Crash, Writing
      <4> QED BY <1>0, <1>2, <3>2, <4>1, Zenon DEF Frame, DirectoryOK
    <3> QED BY <3>1, <3>2, Zenon
  <2> QED BY <2>1, <2>2, <2>3, Zenon DEF DirectoryOK
<1> QED BY <1>1, <1>2, Zenon

(***************************************************************************)
(* When the index and the manifest are published every word is committed.  *)
(***************************************************************************)
LEMMA AllCommitted ==
  ASSUME CountInv, step \in {"index", "manifest"}
  PROVE  committed_word_count = appended
<1>1. /\ next_sequence = next_dispatch_sequence
      /\ appended <= Words(next_dispatch_sequence)
      /\ committed_word_count =
           IF Words(next_sequence) <= appended THEN Words(next_sequence) ELSE appended
  BY Zenon DEF CountInv, PhaseOK, WordsOK, Phase, Writing
<1>2. Words(next_sequence) \in Nat /\ appended \in Nat
  BY Numbers, Zenon DEF CountInv
<1> QED BY <1>1, <1>2

(***************************************************************************)
(* Every step keeps what is finished complete.                             *)
(***************************************************************************)
LEMMA EndStep ==
  ASSUME CountInv, EndOK, OwnerOK, [Next]_vars
  PROVE  EndOK'
<1>0. Frame /\ Course
  BY Frames, Courses, Zenon DEF CountInv, Types
<1>n. NoIndex.store = 0
  BY Zenon DEF NoIndex
<1>1. (step \in (Writing \ {"manifest"}) \cup {"clear_segments"})' => index' = NoIndex
  <2> SUFFICES ASSUME step' \in (Writing \ {"manifest"}) \cup {"clear_segments"} PROVE index' = NoIndex
    OBVIOUS
  <2>1. ~PublishIndex
    BY Zenon DEF PublishIndex
  <2>2. index' = index \/ index' = NoIndex
    BY <1>0, <2>1, Zenon DEF Frame, RemoveIndex, CleanupRemoves
  <2>3. CASE RemoveIndex
    BY <2>3, Zenon DEF RemoveIndex
  <2>4. CASE ~RemoveIndex
    <3>1. step \in (Writing \ {"manifest"}) \cup {"clear_segments"}
      <4>1. CASE Creates
        BY <4>1, Zenon DEF Creates, RemoveSegments
      <4>2. CASE step = "manifest"
        <5>1. step' = "manifest" \/ step' \notin Writing \cup {"clear_segments"}
          BY <4>2, <1>0, Zenon DEF Course, Writing
        <5> QED BY Zenon, <5>1
      <4>3. CASE ~Creates /\ step # "manifest"
        BY <1>0, <2>4, <4>3, Zenon DEF Course, Writing
      <4> QED BY <4>1, <4>2, <4>3, Zenon
    <3> QED BY <2>2, <3>1, Zenon DEF EndOK
  <2> QED BY <2>3, <2>4, Zenon
<1>2. index'.store # 0 => index'.words = appended'
  <2>1. CASE PublishIndex
    <3>1. /\ step = "index" /\ appended' = appended
          /\ index' = [store |-> store, words |-> committed_word_count, directory |-> directory]
      BY <2>1, Zenon DEF PublishIndex, history
    <3> QED BY Zenon, <3>1, AllCommitted
  <2>2. CASE ~PublishIndex
    <3>1. index' = index \/ index' = NoIndex
      BY <1>0, <2>2, Zenon DEF Frame, RemoveIndex, CleanupRemoves
    <3>2. CASE UNCHANGED appended
      BY <3>1, <3>2, <1>n, Zenon DEF EndOK
    <3>3. CASE Creates \/ \E words \in 1 .. MaxWords : AppendBatch(words)
      <4>1. step \in {"clear_segments", "idle"}
        BY <3>3, Zenon DEF Creates, RemoveSegments, AppendBatch
      <4>2. index = NoIndex
        BY <4>1, Zenon DEF EndOK, Writing
      <4> QED BY Zenon, <3>1, <4>2, <1>n
    <3> QED BY <1>0, <3>2, <3>3, Zenon DEF Frame
  <2> QED BY Zenon, <2>1, <2>2
<1>3. step' = "finished" => committed_word_count' = appended' /\ status' = "Live"
  <2>1. CASE PublishManifest
    <3>1. step = "manifest" /\ UNCHANGED <<committed_word_count, appended, status>>
      BY <2>1, Zenon DEF PublishManifest, history, shared
    <3>2. status = "Live"
      BY <3>1, Zenon DEF CountInv, PhaseOK, Writing
    <3> QED BY Zenon, <3>1, <3>2, AllCommitted
  <2>2. CASE step' = "finished" /\ ~PublishManifest
    <3>1. step = "finished"
      BY <1>0, <2>2, Zenon DEF Course
    <3>2. UNCHANGED <<committed_word_count, appended, status>>
      BY <1>0, <2>2, <3>1, Zenon
         DEF Frame, Creates, RemoveSegments, OpenIndex, CommitDirectory, Crash, AppendBatch, MarkFinished,
             MarkCancelled
    <3> QED BY <3>1, <3>2, Zenon DEF EndOK
  <2> QED BY <2>1, <2>2, Zenon
<1>4. status' = "Finished" => committed_word_count' = appended' /\ step' \notin Writing
  <2> SUFFICES ASSUME status' = "Finished"
               PROVE  committed_word_count' = appended' /\ step' \notin Writing
    OBVIOUS
  <2>0. ~Creates /\ ~Crash /\ ~(status' = "Failed")
    BY Zenon DEF Creates, RemoveSegments, NewStore, Crash
  <2>1. CASE MarkFinished
    BY <2>1, Zenon DEF MarkFinished, history, EndOK, Writing
  <2>2. CASE OpenIndex
    <3>1. step' \notin Writing /\ store # 0
      BY <2>2, Zenon DEF OpenIndex, Writing, OwnerOK
    <3>2. CASE index.store = store
      BY <2>2, <3>1, <3>2, Zenon DEF OpenIndex, history, EndOK
    <3>3. CASE index.store # store
      BY <2>2, <3>1, <3>3, Zenon DEF OpenIndex, history, EndOK, shared
    <3> QED BY <3>2, <3>3, Zenon
  <2>3. CASE UNCHANGED status /\ ~OpenIndex
    <3>1. committed_word_count = appended /\ step \notin Writing
      BY <2>3, Zenon DEF EndOK
    <3>2. step' \notin Writing
      BY <1>0, <2>0, <3>1, Zenon DEF Course
    <3>3. ~CommitDirectory /\ ~\E words \in 1 .. MaxWords : AppendBatch(words)
      BY <3>1, Zenon DEF CommitDirectory, AppendBatch, Writing
    <3> QED BY <1>0, <2>0, <2>3, <3>1, <3>2, <3>3, Zenon DEF Frame
  <2>4. ~MarkCancelled
    BY Zenon DEF MarkCancelled
  <2> QED BY <1>0, <2>0, <2>1, <2>2, <2>3, <2>4, Zenon DEF Frame
<1> QED BY <1>1, <1>2, <1>3, <1>4, Zenon DEF EndOK

-----------------------------------------------------------------------------
(* The repository.                                                         *)

(***************************************************************************)
(* A cleanup that removes nothing of a pinned key in use leaves the        *)
(* manifest, and its index and segments.                                   *)
(***************************************************************************)
LEMMA SweepSpares ==
  ASSUME CleanupRemoves, ~swept'
  PROVE  /\ ~swept
         /\ UNCHANGED <<step, resume, status, directory, active_segment, pending_blocks, next_sequence,
                        remove_on_drop, held, reader, store, interrupted>>
         /\ manifest' = manifest
         /\ \/ index' = index
            \/ index' = NoIndex /\ (index.store = 0 \/ ~InUse(index.store))
         /\ \/ segments' = segments
            \/ /\ segments' = [s \in SegmentNumbers |-> 0]
               /\ \A s \in SegmentNumbers : ~InUse(segments[s])
<1>1. ~swept
  BY Zenon DEF CleanupRemoves
<1>2. UNCHANGED <<step, resume, status, directory, active_segment, pending_blocks, next_sequence,
                  remove_on_drop, held, reader, store, interrupted>>
  BY Zenon DEF CleanupRemoves, control, blocks, segmenting, shared, query, history
<1>3. manifest' = manifest
  <2>1. CASE cleanup.step = "remove_manifest"
    <3>1. manifest' = 0 /\ ~InUse(manifest)
      BY <2>1, Zenon DEF CleanupRemoves
    <3> QED BY <3>1, Zenon DEF InUse
  <2> QED BY <2>1, Zenon DEF CleanupRemoves
<1>4. \/ index' = index
      \/ index' = NoIndex /\ (index.store = 0 \/ ~InUse(index.store))
  BY Zenon DEF CleanupRemoves
<1>5. \/ segments' = segments
      \/ /\ segments' = [s \in SegmentNumbers |-> 0]
         /\ \A s \in SegmentNumbers : ~InUse(segments[s])
  BY Zenon DEF CleanupRemoves
<1> QED BY <1>1, <1>2, <1>3, <1>4, <1>5, Zenon

(***************************************************************************)
(* Every step keeps the manifest that of the last store.                   *)
(***************************************************************************)
LEMMA OwnerStep ==
  ASSUME Types, PhaseOK, OwnerOK, [Next]_vars
  PROVE  OwnerOK'
<1>0. Frame /\ Course
  BY Frames, Courses, Zenon DEF Types
<1>b. /\ held \in BOOLEAN /\ remove_on_drop \in BOOLEAN /\ store \in Nat
  BY DerivedStoreAssumption DEF Types, RepositoryType
<1>1. CASE Creates
  <2>1. /\ step = "clear_segments" /\ step' = "idle" /\ remove_on_drop' = TRUE /\ held' = TRUE
        /\ store' = store + 1 /\ manifest' = manifest
    BY <1>1, Zenon DEF Creates, RemoveSegments, NewStore
  <2>2. manifest' = 0
    BY <2>1, Zenon DEF OwnerOK
  <2>3. step' \in Writing /\ step' \notin ClearSteps
    BY <2>1, Zenon DEF Writing, ClearSteps
  <2>4. store' # 0
    BY <2>1, <1>b
  <2> QED BY <2>1, <2>2, <2>3, <2>4, Zenon DEF OwnerOK, ClearSteps
<1>2. CASE PublishManifest
  <2>1. /\ step = "manifest" /\ manifest' = store /\ step' = "finished" /\ UNCHANGED <<held, store>>
    BY <1>2, Zenon DEF PublishManifest, query, history
  <2>2. store # 0
    BY <2>1, Zenon DEF OwnerOK, InUseNow, Writing
  <2> QED BY <2>1, <2>2, Zenon DEF OwnerOK, Writing, ClearSteps
<1>3. CASE Open \/ OpenIndex
  <2>1. /\ step \in {"none", "open_index"} /\ UNCHANGED <<manifest, store, held, swept>>
        /\ step = "none" => ~held /\ manifest # 0
        /\ step' \in {"open_index", "touch", "clear_manifest"}
        /\ remove_on_drop' = FALSE \/ remove_on_drop' = remove_on_drop
    BY <1>3, Zenon DEF Open, OpenIndex, repository, history, shared, query, maintenance
  <2>2. store # 0 /\ ~remove_on_drop /\ ~held /\ (~swept => manifest = store)
    BY <2>1, Zenon DEF OwnerOK
  <2>3. ~remove_on_drop' /\ store' # 0 /\ ~held' /\ manifest' \in {0, store'}
    BY <2>1, <2>2 DEF OwnerOK
  <2>4. step' \notin Writing /\ step' \notin {"clear_index", "clear_segments"}
    BY <2>1, Zenon DEF Writing
  <2> QED BY <2>1, <2>2, <2>3, <2>4, Zenon DEF OwnerOK
<1>4. CASE TouchManifest
  <2>1. /\ step = "touch" /\ step' \in {"none", "clear_manifest"} /\ UNCHANGED <<store, remove_on_drop>>
        /\ manifest' \in {manifest, store} /\ (held' = held \/ step' = "none")
    BY <1>4, Zenon DEF TouchManifest, shared
  <2>2. store # 0 /\ ~remove_on_drop /\ ~held
    BY <2>1, Zenon DEF OwnerOK
  <2>3. step' \notin Writing
    BY <2>1, Zenon DEF Writing
  <2>4. step' \in ClearSteps => ~held'
    BY <2>1, <2>2, Zenon DEF ClearSteps
  <2> QED BY <2>1, <2>2, <2>3, <2>4, Zenon DEF OwnerOK
<1>5. CASE Crash
  <2>1. step' = "none" /\ held' = FALSE /\ remove_on_drop' = FALSE /\ UNCHANGED <<manifest, store>>
    BY <1>5, Zenon DEF Crash, repository
  <2> QED BY <2>1, Zenon DEF OwnerOK, InUseNow, Writing, ClearSteps
<1>6. CASE MarkFinished
  <2>1. /\ step = "finished" /\ step' = "terminal" /\ remove_on_drop' = FALSE
        /\ UNCHANGED <<manifest, store, held>>
    BY <1>6, Zenon DEF MarkFinished, repository, history, query
  <2>2. store # 0
    BY <2>1, Zenon DEF OwnerOK, InUseNow
  <2> QED BY <2>1, <2>2, Zenon DEF OwnerOK, Writing, ClearSteps
<1>7. CASE /\ ~Creates /\ ~PublishManifest /\ ~Open /\ ~OpenIndex /\ ~TouchManifest /\ ~Crash
           /\ ~MarkFinished
  <2>1. UNCHANGED <<remove_on_drop, store>>
    BY <1>0, <1>7, Zenon DEF Frame
  <2>2. manifest' = manifest \/ manifest' = 0
    BY <1>0, <1>7, Zenon DEF Frame, RemoveManifest, CleanupRemoves
  <2>3. step' \in Writing => step \in Writing
    BY <1>0, <1>7, Zenon DEF Course
  <2>4. step' \in {"clear_index", "clear_segments"} => manifest' = 0
    <3>1. CASE RemoveManifest
      BY <3>1, Zenon DEF RemoveManifest
    <3>2. CASE RemoveIndex
      BY <3>2, <2>2, Zenon DEF RemoveIndex, OwnerOK
    <3> QED BY <1>0, <2>2, <3>1, <3>2, Zenon DEF Course, OwnerOK
  <2>5. held' => held
    BY <1>0, <1>7, Zenon DEF Frame, ReleaseHandle
  <2>6. step' \in ClearSteps => ~held'
    <3>1. CASE RemoveManifest \/ RemoveIndex
      BY <3>1, <2>5, Zenon DEF RemoveManifest, RemoveIndex, OwnerOK, ClearSteps
    <3> QED BY <1>0, <2>5, <3>1, Zenon DEF Course, OwnerOK
  <2>7. InUseNow' => store # 0
    <3>1. ASSUME step' \in {"finished", "cancel", "terminal", "touch"}
          PROVE  step \in Writing \cup {"finished", "cancel", "terminal", "touch"}
      BY <1>0, <1>7, <3>1, Zenon DEF Course, DiscardActiveSegment, Writing
    <3> QED BY <2>3, <2>5, <3>1, Zenon DEF InUseNow, OwnerOK
  <2>8. step' \in {"open_index", "touch", "finished"} => step' = step
    BY <1>0, <1>7, Zenon DEF Course
  <2>9. step' \in {"open_index", "touch", "finished"} /\ ~swept' => manifest' = store
    <3>1. CASE CleanupRemoves
      BY <2>8, <3>1, SweepSpares, Zenon DEF OwnerOK
    <3>2. CASE ~CleanupRemoves
      <4>1. swept' = swept /\ (manifest' = manifest \/ RemoveManifest)
        BY <1>0, <1>7, <3>2, Zenon DEF Frame
      <4>2. RemoveManifest => step' = "clear_index"
        BY Zenon DEF RemoveManifest
      <4> QED BY <2>8, <4>1, <4>2, Zenon DEF OwnerOK
    <3> QED BY <3>1, <3>2, Zenon
  <2>10. step = "finished" => step' = step
    BY <1>0, <1>7, Zenon DEF Course
  <2> QED BY <2>1, <2>2, <2>3, <2>4, <2>5, <2>6, <2>7, <2>8, <2>9, <2>10, Zenon DEF OwnerOK
<1> QED BY <1>1, <1>2, <1>3, <1>4, <1>5, <1>6, <1>7, Zenon

(***************************************************************************)
(* Every step keeps the active segment consistent with the directory.      *)
(***************************************************************************)
LEMMA ActiveStep ==
  ASSUME CountInv, DirectoryOK, ActiveOK, [Next]_vars
  PROVE  ActiveOK'
<1> SUFFICES ASSUME step' \in Writing PROVE ActiveOK'
  BY Zenon DEF ActiveOK
<1>0. Frame /\ Course
  BY Frames, Courses, Zenon DEF CountInv, Types
<1>t. /\ next_sequence \in Nat /\ next_segment_sequence \in Nat /\ active_segment \in Segment
      /\ MaxWords \in Nat
  BY DerivedStoreAssumption, Zenon DEF CountInv, Types, MemoryType
<1>o. NoSegment.open = FALSE /\ NoSegment.blocks = {} /\ NoSegment.sequence = 0
  BY Zenon DEF NoSegment
<1>1. CASE Creates
  <2>1. /\ step' = "idle" /\ active_segment' = NoSegment /\ next_segment_sequence' = 0
        /\ next_sequence' = 0 /\ directory' = <<>>
    BY <1>1, Zenon DEF Creates, RemoveSegments, NewStore
  <2> QED BY <2>1, <1>o DEF ActiveOK
<1>2. CASE Commit
  <2>1. PICK b \in Ready :
         \/ step' = "publish" /\ SegmentIsFull /\ UNCHANGED <<segmenting, pending_blocks>>
         \/ /\ ~SegmentIsFull /\ step' = "directory"
            /\ pending_blocks' = PendingWith(b)
            /\ IF active_segment.open
                 THEN /\ active_segment' = [active_segment EXCEPT !.blocks = @ \cup {b.sequence}]
                      /\ UNCHANGED next_segment_sequence
                 ELSE /\ active_segment' = [open |-> TRUE, sequence |-> next_segment_sequence,
                                            blocks |-> {b.sequence}]
                      /\ next_segment_sequence' = next_segment_sequence + 1
    BY <1>2, Zenon DEF Commit, Failing, Writing
  <2>2. step = "commit" /\ step \in Writing /\ UNCHANGED <<directory, next_sequence>>
    BY <1>2, Zenon DEF Commit, blocks, Writing
  <2>3. b.sequence = next_sequence /\ next_sequence < next_dispatch_sequence
    BY <2>2, ReadyFlies, Zenon DEF CountInv, Types, FlightOK
  <2>4. next_sequence <= MaxWords
    BY <2>2, <2>3, <1>t DEF CountInv, Types, MemoryType, WordsOK
  <2>5. \A i \in DOMAIN directory : directory[i].sequence # next_sequence
    <3>1. directory \in Seq(Entry) /\ Len(directory) = next_sequence
      BY <2>2, Zenon DEF CountInv, Types, RepositoryType, DirectoryOK
    <3>2. \A i \in DOMAIN directory : i \in Nat /\ 1 <= i /\ i <= next_sequence
      BY <3>1
    <3>3. \A i \in DOMAIN directory : directory[i].sequence = i - 1
      BY Zenon DEF DirectoryOK, CountInv
    <3> QED BY <3>2, <3>3, <1>t
  <2>6. next_segment_sequence <= next_sequence
    BY <2>2, <1>t DEF ActiveOK
  <2>7. CASE step' = "publish"
    <3>1. SegmentIsFull /\ UNCHANGED <<active_segment, next_segment_sequence, pending_blocks>>
      BY <2>1, <2>7, Zenon DEF segmenting
    <3>2. active_segment.open
      BY <3>1, Zenon DEF SegmentIsFull
    <3> QED BY <2>2, <2>7, <3>1, <3>2, Zenon DEF ActiveOK
  <2>8. CASE step' = "directory" /\ active_segment.open
    <3>1. /\ active_segment' = [active_segment EXCEPT !.blocks = @ \cup {b.sequence}]
          /\ UNCHANGED next_segment_sequence /\ pending_blocks' = PendingWith(b)
      BY <2>1, <2>8, Zenon
    <3>2. /\ active_segment'.open /\ active_segment'.sequence = active_segment.sequence
          /\ active_segment'.blocks = active_segment.blocks \cup {next_sequence}
      BY <2>3, <2>8, <3>1, <1>t, Zenon DEF Segment
    <3>3. active_segment.sequence \in SegmentNumbers
      BY <2>2, <2>8, Zenon DEF ActiveOK
    <3>4. next_sequence \in pending_blocks'
      BY <2>3, <3>1, Zenon DEF PendingWith
    <3>5. \A i \in DOMAIN directory :
            directory[i].sequence \in active_segment'.blocks =>
              directory[i].segment = active_segment'.sequence
      BY <2>2, <2>5, <3>2, Zenon DEF ActiveOK
    <3> QED BY <2>2, <2>6, <2>8, <3>1, <3>2, <3>3, <3>4, <3>5, <1>t DEF ActiveOK
  <2>9. CASE step' = "directory" /\ ~active_segment.open
    <3>1. /\ active_segment' = [open |-> TRUE, sequence |-> next_segment_sequence,
                                blocks |-> {b.sequence}]
          /\ next_segment_sequence' = next_segment_sequence + 1 /\ pending_blocks' = PendingWith(b)
      BY Zenon, <2>1, <2>9
    <3>2. /\ active_segment'.open /\ active_segment'.sequence = next_segment_sequence
          /\ active_segment'.blocks = {next_sequence}
      BY <2>3, <3>1, Zenon
    <3>3. next_segment_sequence \in SegmentNumbers
      BY <2>4, <2>6, <1>t DEF SegmentNumbers
    <3>4. next_sequence \in pending_blocks'
      BY <2>3, <3>1, Zenon DEF PendingWith
    <3>5. \A i \in DOMAIN directory : directory[i].sequence \notin active_segment'.blocks
      BY Zenon, <2>5, <3>2
    <3>6. next_segment_sequence' <= next_sequence' + 1
      BY <2>2, <2>6, <3>1, <1>t
    <3>7. step' \notin {"index", "manifest"}
      BY <2>9, Zenon
    <3> QED BY <2>2, <2>9, <3>2, <3>3, <3>4, <3>5, <3>6, <3>7, Zenon DEF ActiveOK
  <2> QED BY <2>1, <2>7, <2>8, <2>9, Zenon
<1>3. CASE CommitDirectory
  <2>1. /\ step = "directory" /\ step' = "commit" /\ step \in Writing
        /\ UNCHANGED <<active_segment, next_segment_sequence, pending_blocks>>
    BY <1>3, Zenon DEF CommitDirectory, AfterCommit, segmenting, Writing
  <2>2. next_sequence' = next_sequence + 1
    BY <1>3, Zenon DEF CommitDirectory
  <2>3. PICK n \in DOMAIN directory' :
          /\ directory'[n].segment = active_segment.sequence
          /\ \A i \in DOMAIN directory' :
               i = n \/ (i \in DOMAIN directory /\ directory'[i] = directory[i])
    BY <1>3, Appended, Zenon DEF CountInv
  <2>4. \A i \in DOMAIN directory' :
          directory'[i].sequence \in active_segment.blocks => directory'[i].segment = active_segment.sequence
    BY <2>1, <2>3, Zenon DEF ActiveOK
  <2>5. next_segment_sequence <= next_sequence'
    BY <2>1, <2>2, <1>t, Zenon DEF ActiveOK
  <2>6. next_segment_sequence' <= next_sequence' + 0
    BY <2>1, <2>2, <2>5, <1>t
  <2>7. step' \notin {"directory", "publish", "release", "index", "manifest"}
    BY <2>1, Zenon
  <2>8. active_segment.open => active_segment.sequence \in SegmentNumbers
    BY <2>1, Zenon DEF ActiveOK
  <2> QED BY <2>1, <2>3, <2>4, <2>6, <2>7, <2>8, Zenon DEF ActiveOK
<1>4. CASE ReleasePending
  <2>1. /\ step = "release" /\ step' \in {"index", "commit"} /\ active_segment' = NoSegment
        /\ UNCHANGED <<next_segment_sequence, next_sequence, directory>>
    BY <1>4, Zenon DEF ReleasePending, blocks
  <2> QED BY <2>1, <1>o, <1>t, Zenon DEF ActiveOK, Writing
<1>5. CASE ~Creates /\ ~Commit /\ ~CommitDirectory /\ ~ReleasePending
  <2>1. ~OpenIndex /\ ~Crash /\ ~DiscardActiveSegment /\ ~ReleaseWriter
    BY Zenon DEF OpenIndex, Crash, DiscardActiveSegment, ReleaseWriter, Writing
  <2>2. /\ step \in Writing
        /\ UNCHANGED <<active_segment, next_segment_sequence, pending_blocks, directory, next_sequence>>
    BY <1>0, <1>5, <2>1, Zenon DEF Frame, Course
  <2>3. (step = "directory") = (step' = "directory")
    BY <1>0, <1>5, <2>1, Zenon DEF Course
  <2>4. step' = "publish" => active_segment.open
    BY <1>0, <1>5, <2>2, Zenon DEF Course, ActiveOK
  <2>5. step' = "release" => active_segment.open
    BY <1>0, <1>5, <2>2, Zenon DEF Course, ActiveOK, PublishSegment
  <2>6. step' \in {"index", "manifest"} => ~active_segment.open
    BY <1>0, <1>5, <2>2, Zenon DEF Course, ActiveOK, PublishIndex
  <2> QED BY <2>2, <2>3, <2>4, <2>5, <2>6, Zenon DEF ActiveOK
<1> QED BY Zenon, <1>1, <1>2, <1>3, <1>4, <1>5

(***************************************************************************)
(* A store with a writer or a handle is in use.                            *)
(***************************************************************************)
LEMMA StepInUse ==
  ASSUME OwnerOK, InUseNow
  PROVE  InUse(store)
BY Zenon DEF OwnerOK, InUse, InUseNow, Writing

(***************************************************************************)
(* Every step keeps each block where a query finds it.                     *)
(***************************************************************************)
LEMMA PlacedStep ==
  ASSUME Types, PhaseOK, FlightOK, DirectoryOK, EndOK, OwnerOK, ActiveOK, PlacedOK, EntryIsWhole,
         [Next]_vars
  PROVE  PlacedOK'
<1> SUFFICES ASSUME ~swept' PROVE PlacedOK'
  BY Zenon DEF PlacedOK
<1>0. Frame /\ Course
  BY Frames, Courses, Zenon DEF Types
<1>t. /\ segments \in [SegmentNumbers -> 0 .. MaxStores] /\ held \in BOOLEAN
      /\ \A i \in DOMAIN directory : directory[i].segment \in SegmentNumbers
  BY Zenon DEF Types, RepositoryType, DirectoryOK
<1>1. CASE CleanupRemoves
  <2>1. /\ ~swept
        /\ UNCHANGED <<step, status, directory, active_segment, pending_blocks, held, store>>
    BY Zenon, <1>1, SweepSpares
  <2>2. InUseNow' = InUseNow
    BY <2>1, Zenon DEF InUseNow
  <2>3. ASSUME InUseNow, NEW s \in SegmentNumbers, segments[s] = store PROVE segments'[s] = store'
    <3>1. InUse(store)
      BY Zenon, <2>3, StepInUse
    <3> QED BY <1>1, <2>1, <2>3, <3>1, SweepSpares, Zenon
  <2>4. step = "manifest" => index' = index
    <3>1. ASSUME step = "manifest" PROVE index.store = store /\ InUse(store) /\ store # 0
      BY <2>1, <3>1, StepInUse, Zenon DEF PlacedOK, InUseNow, Writing, OwnerOK
    <3> QED BY <1>1, <3>1, SweepSpares, Zenon
  <2>5. /\ InUseNow' /\ ~Cancelling' =>
             \A i \in DOMAIN directory' :
               \/ segments'[directory'[i].segment] = store'
               \/ directory'[i].sequence \in pending_blocks'
        /\ step' \in Writing =>
             \A i \in DOMAIN directory' :
               \/ segments'[directory'[i].segment] = store'
               \/ active_segment'.open /\ directory'[i].segment = active_segment'.sequence
    BY <2>1, <2>2, <2>3, <1>t, Zenon DEF PlacedOK, InUseNow, Cancelling
  <2>6. step' = "release" => segments'[active_segment'.sequence] = store'
    BY <2>1, <2>3, Zenon DEF PlacedOK, InUseNow, Writing, ActiveOK
  <2> QED BY <2>1, <2>4, <2>5, <2>6, Zenon DEF PlacedOK
<1>s. CASE ~CleanupRemoves
 <2>s. ~swept
  BY <1>0, <1>s, Zenon DEF Frame
 <2>1. CASE Creates
  <3>1. directory' = <<>> /\ step' = "idle"
    BY <2>1, Zenon DEF Creates, RemoveSegments, NewStore
  <3> QED BY <3>1 DEF PlacedOK
 <2>2. CASE RemoveSegments /\ operation # "create"
  <3>1. step = "clear_segments" /\ step' = "none" /\ held' = held
    BY <2>2, Zenon DEF RemoveSegments, query
  <3>2. ~held
    BY <3>1, Zenon DEF OwnerOK, ClearSteps
  <3> QED BY <3>1, <3>2, Zenon DEF PlacedOK, InUseNow, Writing
 <2>3. CASE Crash
  <3>1. step' = "none" /\ held' = FALSE
    BY <2>3, Zenon DEF Crash
  <3> QED BY <3>1, Zenon DEF PlacedOK, InUseNow, Writing
 <2>4. CASE OpenIndex
  <3>1. /\ step = "open_index" /\ UNCHANGED <<segments, store, held>>
        /\ step' \in {"touch", "clear_manifest"}
        /\ step' = "touch" => directory' = index.directory
    BY <2>4, Zenon DEF OpenIndex, repository, history, query
  <3>2. store = manifest /\ manifest # 0 /\ ~held
    BY <2>s, <3>1, Zenon DEF OwnerOK
  <3>3. step' = "touch" => \A i \in DOMAIN directory' : segments'[directory'[i].segment] = store'
    BY <2>s, <3>1, <3>2, Zenon DEF EntryIsWhole
  <3> QED BY <3>1, <3>2, <3>3, Zenon DEF PlacedOK, InUseNow, Writing
 <2>5. CASE CommitDirectory
  <3>1. /\ step = "directory" /\ step' = "commit"
        /\ UNCHANGED <<active_segment, pending_blocks, segments, store, status, held>>
    BY <2>5, Zenon DEF CommitDirectory, AfterCommit, segmenting, repository, history, query
  <3>2. active_segment.open /\ next_sequence \in pending_blocks /\ InUseNow /\ step \in Writing
    BY <3>1, Zenon DEF ActiveOK, Writing, InUseNow
  <3>3. PICK n \in DOMAIN directory' :
          /\ directory'[n].segment = active_segment.sequence
          /\ directory'[n].sequence = next_sequence
          /\ \A i \in DOMAIN directory' :
               i = n \/ (i \in DOMAIN directory /\ directory'[i] = directory[i])
    BY Zenon, <2>5, Appended
  <3>4. ~Cancelling
    BY <3>1, <3>2, Zenon DEF PhaseOK, Cancelling
  <3> QED BY <2>s, <3>1, <3>2, <3>3, <3>4, Zenon DEF PlacedOK
 <2>6. CASE PublishSegment
  <3>1. /\ step = "publish" /\ step' = "release"
        /\ segments' = [segments EXCEPT ![active_segment.sequence] = store]
        /\ UNCHANGED <<directory, active_segment, pending_blocks, store, status, held>>
    BY <2>6, Zenon DEF PublishSegment, segmenting, shared, history, query
  <3>2. active_segment.open /\ active_segment.sequence \in SegmentNumbers /\ InUseNow /\ step \in Writing
    BY <3>1, Zenon DEF ActiveOK, Writing, InUseNow
  <3>3. /\ segments'[active_segment.sequence] = store
        /\ \A s \in SegmentNumbers : segments'[s] \in {segments[s], store}
    BY <3>1, <3>2, <1>t, Zenon
  <3>4. ~Cancelling
    BY <3>1, <3>2, Zenon DEF PhaseOK, Cancelling
  <3>5. \A i \in DOMAIN directory :
          segments[directory[i].segment] = store => segments'[directory[i].segment] = store
    BY Zenon, <3>3, <1>t
  <3> QED BY <2>s, <3>1, <3>2, <3>3, <3>4, <3>5, Zenon DEF PlacedOK
 <2>7. CASE ReleasePending
  <3>1. /\ step = "release" /\ step' \in {"index", "commit"} /\ active_segment' = NoSegment
        /\ pending_blocks' = pending_blocks \ active_segment.blocks
        /\ UNCHANGED <<directory, segments, store, status, held>>
    BY <2>7, Zenon DEF ReleasePending, repository, history, query
  <3>2. segments[active_segment.sequence] = store /\ InUseNow /\ step \in Writing
    BY <2>s, <3>1, Zenon DEF PlacedOK, InUseNow, Writing
  <3>3. ~Cancelling
    BY <3>1, <3>2, Zenon DEF PhaseOK, Cancelling
  <3>4. \A i \in DOMAIN directory : segments[directory[i].segment] = store
    BY <2>s, <3>2, Zenon DEF PlacedOK
  <3> QED BY <3>1, <3>4, Zenon DEF PlacedOK
 <2>8. CASE Commit
  <3>1. /\ step = "commit" /\ UNCHANGED <<directory, segments, store, held>>
        /\ step' \in {"terminal", "publish", "directory"} /\ status' \in {status, "Failed"}
        /\ pending_blocks \subseteq pending_blocks'
        /\ step' \in Writing /\ active_segment.open =>
             active_segment'.open /\ active_segment'.sequence = active_segment.sequence
    <4>1. /\ step = "commit" /\ UNCHANGED <<directory, segments, store, held>>
          /\ step' \in {"terminal", "publish", "directory"} /\ status' \in {status, "Failed"}
      BY <2>8, Zenon DEF Commit, Failing, repository, history, query
    <4>2. pending_blocks \subseteq pending_blocks'
      BY <2>8, Zenon DEF Commit, Failing, PendingWith
    <4>3. active_segment.open =>
            active_segment'.open /\ active_segment'.sequence = active_segment.sequence
      BY <2>8, Zenon DEF Commit, Failing, segmenting, Types, MemoryType, Segment
    <4> QED BY <4>1, <4>2, <4>3, Zenon
  <3>2. InUseNow /\ step \in Writing
    BY <3>1, Zenon DEF Writing, InUseNow
  <3>3. ~Cancelling
    BY <3>1, <3>2, Zenon DEF PhaseOK, Cancelling
  <3> QED BY <2>s, <3>1, <3>2, <3>3, Zenon DEF PlacedOK
 <2>9. CASE ReleaseWriter
  <3>1. /\ step = "terminal" /\ step' = "none"
        /\ UNCHANGED <<directory, store, held, status, pending_blocks>>
        /\ held => UNCHANGED segments
    BY <2>9, Zenon DEF ReleaseWriter, query, history, shared
  <3> QED BY <2>s, <3>1, Zenon DEF PlacedOK, InUseNow, Writing, Cancelling
 <2>10. CASE ReleaseHandle
  <3>1. /\ held' = FALSE /\ UNCHANGED <<step, status, directory, active_segment, pending_blocks, store, index>>
        /\ step # "none" => UNCHANGED segments
    BY <2>10, Zenon DEF ReleaseHandle, control, segmenting, shared, history
  <3> QED BY <2>s, <3>1, Zenon DEF PlacedOK, InUseNow, Writing, Cancelling
 <2>11. CASE PublishIndex
  <3>1. /\ step = "index" /\ step' = "manifest" /\ index'.store = store /\ index'.directory = directory
        /\ UNCHANGED <<status, directory, active_segment, pending_blocks, store, segments, held>>
    BY <2>11, Zenon DEF PublishIndex, segmenting, shared, history, query
  <3> QED BY <2>s, <3>1, Zenon DEF PlacedOK, InUseNow, Writing, Cancelling
 <2>12. CASE DiscardActiveSegment
  <3>1. step' = "cancel"
    BY <2>12, Zenon DEF DiscardActiveSegment
  <3> QED BY <3>1, Zenon DEF PlacedOK, Writing, Cancelling
 <2>13. CASE TouchManifest
  <3>1. /\ step = "touch" /\ step' \in {"none", "clear_manifest"}
        /\ UNCHANGED <<status, directory, pending_blocks, store, segments>>
    BY <2>13, Zenon DEF TouchManifest, shared
  <3> QED BY <2>s, <3>1, Zenon DEF PlacedOK, InUseNow, Writing, Cancelling
 <2>14. CASE /\ ~RemoveSegments /\ ~Crash /\ ~OpenIndex /\ ~CommitDirectory /\ ~PublishSegment
             /\ ~ReleasePending /\ ~Commit /\ ~ReleaseWriter /\ ~ReleaseHandle /\ ~PublishIndex
             /\ ~DiscardActiveSegment /\ ~TouchManifest
  <3>1. UNCHANGED <<directory, active_segment, pending_blocks, segments, store, held>>
    BY <1>0, <1>s, <2>14, Zenon DEF Frame, Creates
  <3>2. step' \in Writing => step \in Writing
    BY <1>0, <2>14, Zenon DEF Course, Creates
  <3>3. InUseNow' => InUseNow
    <4>1. ASSUME step' \in {"finished", "cancel", "terminal", "touch"}
          PROVE  step \in Writing \cup {"finished", "cancel", "terminal", "touch"}
      BY <1>0, <2>14, <4>1, Zenon DEF Course, PublishManifest, Writing
    <4> QED BY <3>1, <3>2, <4>1, Zenon DEF InUseNow
  <3>4. InUseNow' /\ ~Cancelling' => ~Cancelling
    <4>1. step = "cancel" => Cancelling'
      BY <1>0, <2>14, Zenon DEF Course, MarkCancelled, Cancelling
    <4>2. CASE UNCHANGED status
      BY <4>1, <4>2, Zenon DEF Cancelling
    <4>3. CASE MarkFinished
      BY <4>3, Zenon DEF MarkFinished, EndOK, Cancelling
    <4>4. CASE MarkCancelled
      BY <4>4, Zenon DEF MarkCancelled, Cancelling
    <4> QED BY <1>0, <2>14, <4>1, <4>2, <4>3, <4>4, Zenon DEF Frame, Creates, PhaseOK, Cancelling
  <3>5. step' = "release" => step = "release"
    BY <1>0, <2>14, Zenon DEF Course
  <3>6. step' = "manifest" => step = "manifest" /\ index' = index
    BY <1>0, <1>s, <2>14, Zenon DEF Course, Frame, RemoveIndex
  <3> QED BY <2>s, <3>1, <3>2, <3>3, <3>4, <3>5, <3>6, Zenon DEF PlacedOK
 <2> QED BY <2>1, <2>2, <2>3, <2>4, <2>5, <2>6, <2>7, <2>8, <2>9, <2>10, <2>11, <2>12, <2>13, <2>14, Zenon
         DEF Creates
<1> QED BY Zenon, <1>1, <1>s

(***************************************************************************)
(* Every step keeps the cache entry whole.                                 *)
(***************************************************************************)
LEMMA EntryStep ==
  ASSUME Types, PhaseOK, DirectoryOK, OwnerOK, ActiveOK, PlacedOK, EntryIsWhole, [Next]_vars
  PROVE  EntryIsWhole'
<1> SUFFICES ASSUME manifest' # 0, ~swept' PROVE EntryIsWhole'
  BY Zenon DEF EntryIsWhole
<1>0. Frame /\ Course
  BY Frames, Courses, Zenon DEF Types
<1>t. \A i \in DOMAIN index.directory : index.directory[i].segment \in SegmentNumbers
  BY Zenon DEF DirectoryOK
<1>1. CASE CleanupRemoves
  <2>1. ~swept /\ manifest' = manifest /\ manifest # 0
    BY Zenon, <1>1, SweepSpares
  <2>2. index.store = manifest /\ InUse(manifest)
    BY <2>1, Zenon DEF EntryIsWhole, InUse
  <2>3. index' = index
    BY Zenon, <1>1, <2>1, <2>2, SweepSpares
  <2>4. \A i \in DOMAIN index.directory : segments[index.directory[i].segment] = manifest
    BY <2>1, Zenon DEF EntryIsWhole
  <2>5. \A i \in DOMAIN index.directory : segments'[index.directory[i].segment] = manifest
    BY Zenon, <1>1, <1>t, <2>2, <2>4, SweepSpares
  <2> QED BY <2>1, <2>2, <2>3, <2>5, Zenon DEF EntryIsWhole
<1>2. CASE PublishManifest
  <2>1. step = "manifest" /\ manifest' = store /\ UNCHANGED <<segments, index, swept>>
    BY <1>2, Zenon DEF PublishManifest, maintenance
  <2>2. step \in Writing /\ ~active_segment.open
    BY <2>1, Zenon DEF ActiveOK, Writing
  <2> QED BY <2>1, <2>2, Zenon DEF EntryIsWhole, PlacedOK
<1>3. CASE ~CleanupRemoves /\ ~PublishManifest
  <2>1. ~swept /\ manifest' = manifest
    <3>1. ~swept /\ (manifest' = manifest \/ TouchManifest)
      BY <1>0, <1>3 DEF Frame, RemoveManifest
    <3>2. CASE TouchManifest
      <4>1. step = "touch" /\ manifest' \in {manifest, store}
        BY <3>2, Zenon DEF TouchManifest
      <4> QED BY <3>1, <4>1, Zenon DEF OwnerOK
    <3> QED BY <3>1, <3>2, Zenon
  <2>2. /\ step \notin Writing /\ step \notin {"clear_index", "clear_segments"}
        /\ ~remove_on_drop \/ step = "finished"
    BY <2>1, Zenon DEF OwnerOK
  <2>3. index' = index
    BY <1>0, <1>3, <2>2, Zenon DEF Frame, RemoveIndex, PublishIndex, Writing
  <2>4. segments' = segments
    <3>1. CASE ReleaseWriter \/ ReleaseHandle
      BY <2>2, <3>1, Zenon DEF ReleaseWriter, ReleaseHandle, DropShared
    <3> QED BY <1>0, <1>3, <2>2, <3>1, Zenon DEF Frame, RemoveSegments, PublishSegment, Writing
  <2> QED BY <2>1, <2>3, <2>4, Zenon DEF EntryIsWhole
<1> QED BY Zenon, <1>1, <1>2, <1>3

-----------------------------------------------------------------------------
(* Types.                                                                  *)

(***************************************************************************)
(* The empty values have their types.                                      *)
(***************************************************************************)
LEMMA Empties ==
  /\ NoSegment \in Segment /\ NoTail \in HotTail /\ NoIndex \in Index
  /\ NoReader \in [step : {"idle", "pending", "segment", "missing"}, entry : Entry]
BY DEF NoSegment, NoTail, NoIndex, NoReader, Segment, HotTail, Index, Entry

(***************************************************************************)
(* The types hold before the first run.                                    *)
(***************************************************************************)
LEMMA InitTypes == Init => MemoryType /\ FlightType /\ RepositoryType
<1> SUFFICES ASSUME Init PROVE MemoryType /\ FlightType /\ RepositoryType
  OBVIOUS
<1> USE DEF Init
<1>1. MemoryType
  BY DerivedStoreAssumption, Empties DEF MemoryType, Writing, ClearSteps
<1>2. FlightType
  BY DerivedStoreAssumption, FS_EmptySet DEF FlightType, OutstandingBlocks
<1>3. RepositoryType
  <2>1. directory \in Seq(Entry) /\ index \in Index
    BY Empties
  <2>2. segments \in [SegmentNumbers -> 0 .. MaxStores]
    BY DerivedStoreAssumption
  <2>3. manifest \in 0 .. MaxStores /\ store \in 0 .. MaxStores
    BY DerivedStoreAssumption
  <2>4. step \notin ClearSteps
    BY Zenon DEF ClearSteps
  <2>5. /\ remove_on_drop \in BOOLEAN /\ held \in BOOLEAN /\ swept \in BOOLEAN
        /\ interrupted \in BOOLEAN
    BY Zenon
  <2>6. reader \in [step : {"idle", "pending", "segment", "missing"}, entry : Entry]
    BY Empties, Zenon
  <2> QED BY <2>1, <2>2, <2>3, <2>4, <2>5, <2>6, Zenon DEF RepositoryType
<1> QED BY <1>1, <1>2, <1>3, Zenon

(***************************************************************************)
(* Every step keeps the types of the memory of the writer.                 *)
(***************************************************************************)
LEMMA MemoryStep ==
  ASSUME MemoryType, FlightType, RepositoryType, [Next]_vars
  PROVE  MemoryType'
<1> USE DEF MemoryType, control, blocks, segmenting, shared, repository, query, maintenance,
            history, ClearSteps, Writing
<1>1. CASE BeginCreate BY <1>1, Zenon DEF BeginCreate
<1>2. CASE BeginClear BY <1>2, Zenon DEF BeginClear
<1>3. CASE RemoveManifest BY <1>3, Zenon DEF RemoveManifest
<1>4. CASE RemoveIndex BY <1>4, Zenon DEF RemoveIndex
<1>5. CASE RemoveSegments
  <2>1. CASE operation = "create"
    BY <1>5, <2>1, DerivedStoreAssumption, Empties DEF RemoveSegments, NewStore
  <2>2. CASE operation # "create"
    BY <1>5, <2>2, Zenon DEF RemoveSegments
  <2> QED BY Zenon, <2>1, <2>2
<1>6. CASE Open \/ OpenIndex \/ TouchManifest
  BY <1>6, Empties, Zenon DEF Open, OpenIndex, TouchManifest, RepositoryType, Index
<1>7. CASE \E words \in 1 .. MaxWords : AppendBatch(words)
  BY <1>7, DerivedStoreAssumption DEF AppendBatch
<1>8. CASE Finish BY <1>8, Zenon DEF Finish, AfterBuilder
<1>9. ASSUME NEW next \in {"drain", "commit"}, Accept(next), resume' \in {resume, "flush"}
      PROVE  MemoryType'
  BY <1>9, Empties, Zenon DEF Accept, Failing
<1>10. CASE Drain BY <1>10, <1>9, Zenon DEF Drain
<1>11. CASE Drained BY <1>11, Zenon DEF Drained
<1>12. CASE Fill BY <1>12, DerivedStoreAssumption DEF Fill
<1>13. CASE WaitForRoom BY <1>13, <1>9, Zenon DEF WaitForRoom
<1>14. CASE Dispatch BY <1>14, DerivedStoreAssumption DEF Dispatch, TailAtDispatch
<1>15. CASE PublishHotTail
  BY <1>15, DerivedStoreAssumption DEF PublishHotTail, HotTail
<1>16. CASE SkipHotTail BY <1>16, Zenon DEF SkipHotTail
<1>17. CASE Commit
  <2>0. PICK b \in Ready :
         \/ Failing /\ UNCHANGED <<segmenting, pending_blocks>>
         \/ step' = "publish" /\ UNCHANGED <<segmenting, status, hot_tail, pending_blocks>>
         \/ /\ pending_blocks' = PendingWith(b)
            /\ \/ /\ active_segment' = [active_segment EXCEPT !.blocks = @ \cup {b.sequence}]
                  /\ UNCHANGED next_segment_sequence
               \/ /\ active_segment' = [open |-> TRUE, sequence |-> next_segment_sequence,
                                         blocks |-> {b.sequence}]
                  /\ next_segment_sequence' = next_segment_sequence + 1
            /\ step' = "directory"
            /\ UNCHANGED <<status, hot_tail>>
    BY <1>17, Zenon DEF Commit
  <2>1. b.sequence \in Nat
    BY Zenon DEF Ready, FlightType, Completion
  <2>2. pending_blocks' \subseteq Nat
    BY <2>0, <2>1, Zenon DEF PendingWith, Failing
  <2>3. active_segment' \in Segment /\ next_segment_sequence' \in Nat
    <3>1. /\ active_segment.open \in BOOLEAN /\ active_segment.sequence \in Nat
          /\ active_segment.blocks \cup {b.sequence} \in SUBSET Nat
          /\ active_segment = [open |-> active_segment.open, sequence |-> active_segment.sequence,
                               blocks |-> active_segment.blocks]
      BY <2>1, Zenon DEF Segment
    <3>2. [active_segment EXCEPT !.blocks = @ \cup {b.sequence}] \in Segment
      BY <3>1, Zenon DEF Segment
    <3>3. [open |-> TRUE, sequence |-> next_segment_sequence, blocks |-> {b.sequence}] \in Segment
      BY <2>1, Zenon DEF Segment
    <3>4. CASE UNCHANGED segmenting BY <3>4, Zenon
    <3>5. CASE /\ active_segment' = [active_segment EXCEPT !.blocks = @ \cup {b.sequence}]
               /\ UNCHANGED next_segment_sequence
      BY Zenon, <3>5, <3>2
    <3>6. CASE /\ active_segment' = [open |-> TRUE, sequence |-> next_segment_sequence,
                                      blocks |-> {b.sequence}]
               /\ next_segment_sequence' = next_segment_sequence + 1
      BY <3>6, <3>3
    <3> QED BY Zenon, <2>0, <3>4, <3>5, <3>6
  <2> QED BY <1>17, <2>0, <2>2, <2>3, Empties, Zenon DEF Commit, Failing
<1>18. CASE Committed BY <1>18, Zenon DEF Committed
<1>19. CASE CommitDirectory
  BY <1>19, Empties DEF CommitDirectory, Ready, FlightType, Completion, AfterCommit
<1>20. CASE PublishSegment BY <1>20, Zenon DEF PublishSegment
<1>21. CASE ReleasePending BY <1>21, Empties, Zenon DEF ReleasePending
<1>22. CASE Flush BY <1>22, <1>9, Zenon DEF Flush
<1>23. CASE Flushed BY <1>23, Zenon DEF Flushed, AfterFlush
<1>24. CASE PublishIndex BY <1>24, Zenon DEF PublishIndex
<1>25. CASE PublishManifest BY <1>25, Zenon DEF PublishManifest
<1>26. CASE MarkFinished BY <1>26, Zenon DEF MarkFinished
<1>27. CASE OperationFails BY <1>27, Empties, Zenon DEF OperationFails, Failing
<1>28. CASE Executor BY <1>28, Zenon DEF Executor, Encode
<1>29. CASE ReleaseWriter \/ MarkCancelled BY <1>29, Empties, Zenon DEF ReleaseWriter, MarkCancelled
<1>34. CASE DiscardActiveSegment
  BY <1>34, Empties, Zenon DEF DiscardActiveSegment
<1>30. CASE ReleaseHandle BY <1>30 DEF ReleaseHandle
<1>31. CASE CleanupRemoves
  <2>1. UNCHANGED <<control, blocks, segmenting, shared, query, cleanups, history>>
    BY <1>31, Zenon DEF CleanupRemoves
  <2> QED BY <2>1
<1>32. CASE Crash
  BY <1>32, DerivedStoreAssumption, Empties DEF Crash
<1>33. CASE \/ Query \/ ListManifests \/ InspectManifest \/ InspectIndex \/ SweepUnpublished
            \/ UNCHANGED vars
  BY <1>33, Aside, Zenon
<1> QED
  BY <1>1, <1>2, <1>3, <1>4, <1>5, <1>6, <1>7, <1>8, <1>10, <1>11, <1>12, <1>13, <1>14,
     <1>15, <1>16, <1>17, <1>18, <1>19, <1>20, <1>21, <1>22, <1>23, <1>24, <1>25, <1>26,
     <1>27, <1>28, <1>29, <1>30, <1>31, <1>32, <1>33, <1>34, ZenonT(40)
     DEF Next, Writer, Clearing, Opening, Committing, Appending, Finishing, Run, Cleanup

(***************************************************************************)
(* The numbers of blocks under way are numbers.                            *)
(***************************************************************************)
LEMMA Sizes ==
  ASSUME FlightType
  PROVE  Cardinality(encoding) \in Nat /\ Cardinality(prepared_blocks) \in Nat /\ Len(completions) \in Nat
BY FS_CardinalityType DEF FlightType

(***************************************************************************)
(* Accepting a completion moves one block from the channel to the prepared *)
(* ones.                                                                   *)
(***************************************************************************)
LEMMA AcceptFlight ==
  ASSUME FlightType, NEW next, Accept(next)
  PROVE  FlightType'
<1> DEFINE c == Head(completions)
<1>1. c \in Completion /\ Tail(completions) \in Seq(Completion) /\ Len(Tail(completions)) = Len(completions) - 1
  BY DEF Accept, FlightType
<1>2. completions' = Tail(completions) /\ encoding' = encoding
  BY Zenon DEF Accept
<1>3. prepared_blocks' = prepared_blocks \/ prepared_blocks' = prepared_blocks \cup {c}
  BY Zenon DEF Accept
<1>4. /\ prepared_blocks' \subseteq Completion /\ IsFiniteSet(prepared_blocks')
      /\ Cardinality(prepared_blocks') <= Cardinality(prepared_blocks) + 1
  <2>1. CASE prepared_blocks' = prepared_blocks
    BY <2>1, Sizes DEF FlightType
  <2>2. CASE prepared_blocks' = prepared_blocks \cup {c}
    <3>1. /\ IsFiniteSet(prepared_blocks \cup {c})
          /\ Cardinality(prepared_blocks \cup {c}) =
               IF c \in prepared_blocks THEN Cardinality(prepared_blocks) ELSE Cardinality(prepared_blocks) + 1
      BY FS_AddElement, Zenon DEF FlightType
    <3> HIDE DEF c
    <3> QED BY <2>2, <3>1, <1>1, Sizes DEF FlightType
  <2> QED BY <1>3, <2>1, <2>2, Zenon
<1>5. Cardinality(prepared_blocks') \in Nat
  BY Zenon, <1>4, FS_CardinalityType
<1>6. OutstandingBlocks' <= MaxOutstanding
  BY <1>1, <1>2, <1>4, <1>5, Sizes, DerivedStoreAssumption, SMTT(30) DEF FlightType, OutstandingBlocks
<1> QED BY <1>1, <1>2, <1>4, <1>6, Zenon DEF FlightType

(***************************************************************************)
(* A dispatch adds a block only where there is room for one.               *)
(***************************************************************************)
LEMMA DispatchFlight ==
  ASSUME MemoryType, FlightType, Dispatch
  PROVE  FlightType'
<1> DEFINE b == [sequence |-> next_dispatch_sequence, words |-> builder]
<1>1. b \in Block
  BY DerivedStoreAssumption DEF Block, MemoryType
<1>2. encoding' = encoding \cup {b} /\ UNCHANGED <<completions, prepared_blocks>> /\ HasRoom
  BY Zenon DEF Dispatch
<1>3. /\ IsFiniteSet(encoding \cup {b})
      /\ Cardinality(encoding \cup {b}) =
           IF b \in encoding THEN Cardinality(encoding) ELSE Cardinality(encoding) + 1
  BY FS_AddElement, Zenon DEF FlightType
<1> HIDE DEF b
<1>4. OutstandingBlocks' <= MaxOutstanding
  BY <1>2, <1>3, Sizes, DerivedStoreAssumption DEF HasRoom, OutstandingBlocks
<1> QED BY <1>1, <1>2, <1>3, <1>4, Zenon DEF FlightType

(***************************************************************************)
(* An encoder moves one block to the channel.                              *)
(***************************************************************************)
LEMMA EncodeFlight ==
  ASSUME FlightType, NEW b \in encoding, Encode(b)
  PROVE  FlightType'
<1>1. PICK outcome \in {"encoded", "failed", "panicked"} :
        completions' = completions \o <<[sequence |-> b.sequence, words |-> b.words, outcome |-> outcome]>>
  BY Zenon DEF Encode
<1> DEFINE c == [sequence |-> b.sequence, words |-> b.words, outcome |-> outcome]
<1>2. c \in Completion
  BY Zenon DEF FlightType, Block, Completion
<1> HIDE DEF c
<1>3. completions' \in Seq(Completion) /\ Len(completions') = Len(completions) + 1
  BY <1>1, <1>2 DEF FlightType, c
<1>4. encoding' = encoding \ {b} /\ prepared_blocks' = prepared_blocks
  BY Zenon DEF Encode
<1>5. IsFiniteSet(encoding \ {b}) /\ Cardinality(encoding \ {b}) = Cardinality(encoding) - 1
  BY FS_RemoveElement, Zenon DEF FlightType
<1>6. OutstandingBlocks' <= MaxOutstanding
  BY <1>3, <1>4, <1>5, Sizes, DerivedStoreAssumption, SMTT(30) DEF FlightType, OutstandingBlocks
<1> QED BY <1>3, <1>4, <1>5, <1>6, Zenon DEF FlightType

(***************************************************************************)
(* A commit takes one prepared block away.                                 *)
(***************************************************************************)
LEMMA CommitFlight ==
  ASSUME FlightType, CommitDirectory
  PROVE  FlightType'
<1>1. PICK b \in Ready : prepared_blocks' = prepared_blocks \ {b}
  BY Zenon DEF CommitDirectory
<1>2. /\ IsFiniteSet(prepared_blocks \ {b})
      /\ Cardinality(prepared_blocks \ {b}) = Cardinality(prepared_blocks) - 1
  BY FS_RemoveElement, Zenon DEF FlightType, Ready
<1>3. UNCHANGED <<encoding, completions>>
  BY Zenon DEF CommitDirectory
<1>4. OutstandingBlocks' <= MaxOutstanding
  BY <1>1, <1>2, <1>3, Sizes, DerivedStoreAssumption DEF FlightType, OutstandingBlocks
<1> QED BY <1>1, <1>2, <1>3, <1>4, Zenon DEF FlightType

(***************************************************************************)
(* No block is under way in a new store, nor without a writer.             *)
(***************************************************************************)
LEMMA ResetFlight ==
  ASSUME encoding' = {}, completions' = <<>>, prepared_blocks' = {}
  PROVE  FlightType'
BY FS_EmptySet, DerivedStoreAssumption DEF FlightType, OutstandingBlocks

(***************************************************************************)
(* Every step keeps the types and the bound of the blocks under way.       *)
(***************************************************************************)
LEMMA FlightStep ==
  ASSUME MemoryType, FlightType, [Next]_vars
  PROVE  FlightType'
<1>1. ASSUME UNCHANGED <<encoding, completions, prepared_blocks>> PROVE FlightType'
  BY <1>1, Zenon DEF FlightType, OutstandingBlocks
<1>2. CASE Clearing
  <2>1. CASE RemoveSegments /\ operation = "create"
    BY <2>1, ResetFlight, Zenon DEF RemoveSegments, NewStore
  <2> QED BY <1>2, <2>1, <1>1, Zenon DEF Clearing, RemoveManifest, RemoveIndex, RemoveSegments, blocks
<1>3. CASE Committing
  BY Zenon, <1>3, <1>1, AcceptFlight, CommitFlight
     DEF Committing, Drain, Drained, Commit, Committed, PublishSegment, ReleasePending, blocks
<1>4. CASE Appending
  BY Zenon, <1>4, <1>1, AcceptFlight, DispatchFlight
     DEF Appending, Fill, WaitForRoom, PublishHotTail, SkipHotTail, blocks
<1>5. CASE Finishing
  BY Zenon, <1>5, <1>1, AcceptFlight
     DEF Finishing, Flush, Flushed, PublishIndex, PublishManifest, MarkFinished, blocks
<1>6. CASE Run
  BY Zenon, <1>6, <1>1, ResetFlight
     DEF Run, BeginCreate, BeginClear, Open, AppendBatch, Finish, DiscardActiveSegment, ReleaseWriter,
         ReleaseHandle, blocks
<1>11. CASE Opening \/ MarkCancelled
  BY Zenon, <1>11, <1>1 DEF Opening, OpenIndex, TouchManifest, MarkCancelled, blocks
<1>7. CASE Executor
  BY <1>7, EncodeFlight, Zenon DEF Executor
<1>8. CASE OperationFails \/ CleanupRemoves
  BY <1>8, <1>1, Zenon DEF OperationFails, CleanupRemoves, blocks
<1>9. CASE Crash
  BY <1>9, ResetFlight, Zenon DEF Crash
<1>10. CASE \/ Query \/ ListManifests \/ InspectManifest \/ InspectIndex \/ SweepUnpublished
            \/ UNCHANGED vars
  BY <1>10, <1>1, Aside, Zenon DEF blocks
<1> QED
  BY <1>2, <1>3, <1>4, <1>5, <1>6, <1>7, <1>8, <1>9, <1>10, <1>11, Zenon DEF Next, Writer, Cleanup

(***************************************************************************)
(* Every step keeps the types of the directory and of the artifacts.       *)
(***************************************************************************)
LEMMA RepositoryStep ==
  ASSUME MemoryType, FlightType, RepositoryType, [Next]_vars
  PROVE  RepositoryType'
<1> DEFINE rest == <<directory, index, segments, manifest, store, remove_on_drop, held, swept,
                     interrupted, reader>>
<1> USE DEF RepositoryType, ClearSteps
<1>0. \A S, T : S \in Seq(Entry) /\ T \in Entry => S \o <<T>> \in Seq(Entry)
  OBVIOUS
<1>00. [s \in SegmentNumbers |-> 0] \in [SegmentNumbers -> 0 .. MaxStores]
  BY DerivedStoreAssumption
<1>1. ASSUME UNCHANGED rest, step' \notin ClearSteps PROVE RepositoryType'
  BY Zenon, <1>1
<1>2. CASE RemoveManifest \/ RemoveIndex
  BY <1>2, Empties, DerivedStoreAssumption
     DEF RemoveManifest, RemoveIndex, shared, repository, query, maintenance, history
<1>3. CASE RemoveSegments
  <2>1. CASE operation = "create"
    <3>1. /\ directory' = <<>> /\ segments' = [s \in SegmentNumbers |-> 0]
          /\ step' \notin ClearSteps /\ remove_on_drop' = TRUE /\ held' = TRUE
          /\ reader' = NoReader /\ interrupted' = FALSE /\ UNCHANGED <<index, manifest, swept>>
      BY <1>3, <2>1, Zenon DEF RemoveSegments, NewStore, maintenance
    <3>2. store' \in 0 .. MaxStores
      BY <1>3, <2>1, DerivedStoreAssumption DEF RemoveSegments, NewStore
    <3>3. directory' \in Seq(Entry) /\ segments' \in [SegmentNumbers -> 0 .. MaxStores]
      BY <3>1, <1>00
    <3>4. /\ remove_on_drop' \in BOOLEAN /\ held' \in BOOLEAN /\ swept' \in BOOLEAN
          /\ interrupted' \in BOOLEAN
      BY <3>1, Zenon
    <3>5. /\ index' \in Index /\ manifest' \in 0 .. MaxStores
          /\ reader' \in [step : {"idle", "pending", "segment", "missing"}, entry : Entry]
      BY Zenon, <3>1, Empties
    <3> QED BY <3>1, <3>2, <3>3, <3>4, <3>5, Zenon
  <2>2. CASE operation # "create"
    BY <1>3, <2>2, <1>00, Zenon DEF RemoveSegments, shared, query, maintenance
  <2> QED BY <2>1, <2>2, Zenon
<1>4. CASE Drain \/ WaitForRoom \/ Flush
  BY <1>4, <1>1, Zenon DEF Drain, WaitForRoom, Flush, Accept, Failing, repository, query, maintenance, history
<1>5. CASE Drained \/ Commit \/ ReleasePending
  BY Zenon, <1>5, <1>1
     DEF Drained, Commit, ReleasePending, Failing, shared, repository, query, maintenance, history
<1>6. CASE Committed
  BY <1>6, <1>1, Zenon DEF Committed, MemoryType, shared, repository, query, maintenance, history
<1>7. CASE CommitDirectory
  <2>1. PICK b \in Ready : directory' = directory \o <<[sequence |-> b.sequence, words |-> b.words,
                                                         segment |-> active_segment.sequence]>>
    BY <1>7, Zenon DEF CommitDirectory
  <2>2. [sequence |-> b.sequence, words |-> b.words, segment |-> active_segment.sequence] \in Entry
    BY Zenon DEF Ready, FlightType, Completion, MemoryType, Segment, Entry
  <2>3. directory' \in Seq(Entry)
    BY <2>1, <2>2
  <2>4. step' = "commit" /\ UNCHANGED <<index, segments, manifest, store, remove_on_drop, held, swept,
                                         interrupted, reader>>
    BY <1>7, Zenon DEF CommitDirectory, AfterCommit, repository, query, maintenance, history
  <2> QED BY <2>3, <2>4, Zenon
<1>8. CASE PublishSegment
  BY <1>8, Zenon DEF PublishSegment, shared, query, maintenance, history
<1>9. CASE \/ Fill \/ Dispatch \/ PublishHotTail \/ SkipHotTail \/ Flushed \/ OperationFails
           \/ DiscardActiveSegment \/ MarkCancelled
  BY Zenon, <1>9, <1>1
     DEF Fill, Dispatch, PublishHotTail, SkipHotTail, Flushed, OperationFails, AfterFlush,
         DiscardActiveSegment, MarkCancelled, Failing, shared, repository, query, maintenance, history
<1>10. CASE PublishIndex
  <2>1. index' \in Index
    <3>1. index' = [store |-> store, words |-> committed_word_count, directory |-> directory]
      BY <1>10, Zenon DEF PublishIndex
    <3>2. committed_word_count \in Nat
      BY Zenon DEF MemoryType
    <3>3. store \in Nat /\ directory \in Seq(Entry)
      BY DerivedStoreAssumption
    <3> HIDE DEF RepositoryType
    <3> QED BY <3>1, <3>2, <3>3, Zenon DEF Index
  <2> QED BY <1>10, <2>1, Zenon DEF PublishIndex, shared, query, maintenance, history
<1>11. CASE PublishManifest \/ MarkFinished
  BY <1>11, Zenon DEF PublishManifest, MarkFinished, shared, repository, query, maintenance, history
<1>12. CASE BeginCreate \/ BeginClear
  BY Zenon, <1>12, DerivedStoreAssumption
     DEF BeginCreate, BeginClear, shared, repository, query, maintenance, history
<1>13. CASE Open \/ OpenIndex \/ TouchManifest
  BY <1>13, Zenon
     DEF Open, OpenIndex, TouchManifest, Index, shared, repository, query, maintenance, history
<1>14. CASE Finish \/ \E words \in 1 .. MaxWords : AppendBatch(words)
  BY Zenon, <1>14, <1>1
     DEF Finish, AppendBatch, AfterBuilder, shared, repository, query, maintenance, history
<1>15. CASE ReleaseWriter \/ ReleaseHandle
  <2>1. segments' \in [SegmentNumbers -> 0 .. MaxStores]
    <3>1. SegmentsReclaimed \in [SegmentNumbers -> 0 .. MaxStores]
      BY DerivedStoreAssumption DEF SegmentsReclaimed
    <3> QED BY <1>15, <3>1, Zenon DEF ReleaseWriter, ReleaseHandle, DropShared
  <2>2. CASE ReleaseWriter
    BY <2>1, <2>2, Zenon DEF ReleaseWriter, shared, query, maintenance, history
  <2>3. CASE ReleaseHandle
    BY <2>1, <2>3, Empties, Zenon DEF ReleaseHandle, control, shared, maintenance, history
  <2> QED BY Zenon, <1>15, <2>2, <2>3
<1>16. CASE Executor
  BY <1>16, Zenon DEF Executor, Encode, control, shared, repository, query, maintenance
<1>17. CASE Query
  <2>1. UNCHANGED <<step, operation, directory, index, segments, manifest, store, remove_on_drop, held,
                    swept, interrupted>>
    BY <1>17, Aside, Zenon DEF control, shared, repository, history
  <2>2. reader' \in [step : {"idle", "pending", "segment", "missing"}, entry : Entry]
    <3>1. CASE Snapshot
      <4>1. PICK i \in DOMAIN directory : reader' = [step |-> "pending", entry |-> directory[i]]
        BY <3>1, Zenon DEF Snapshot
      <4>2. directory[i] \in Entry
        OBVIOUS
      <4> QED BY Zenon, <4>1, <4>2
    <3>2. CASE ReadPending
      BY <3>2, Empties, Zenon DEF ReadPending
    <3>3. CASE ReadSegment
      BY <3>3, Empties, Zenon DEF ReadSegment
    <3> QED BY <1>17, <3>1, <3>2, <3>3, Zenon DEF Query
  <2> QED BY Zenon, <2>1, <2>2
<1>18. CASE CleanupRemoves
  <2>1. UNCHANGED <<step, operation, directory, store, remove_on_drop, held, interrupted, reader>>
    BY <1>18, Zenon DEF CleanupRemoves, control, shared, query, history
  <2>2. swept' \in BOOLEAN
    BY <1>18, Zenon DEF CleanupRemoves
  <2>3. /\ segments' \in [SegmentNumbers -> 0 .. MaxStores] /\ index' \in Index
        /\ manifest' \in 0 .. MaxStores
    BY <1>18, <1>00, Empties, DerivedStoreAssumption DEF CleanupRemoves
  <2> QED BY <2>1, <2>2, <2>3, Zenon
<1>19. CASE Crash
  <2>1. /\ directory' = <<>> /\ step' \notin ClearSteps /\ remove_on_drop' = FALSE /\ held' = FALSE
        /\ reader' = NoReader /\ interrupted' = TRUE
        /\ UNCHANGED <<index, segments, manifest, store, swept>>
    BY <1>19, Zenon DEF Crash, repository
  <2>2. /\ remove_on_drop' \in BOOLEAN /\ held' \in BOOLEAN /\ swept' \in BOOLEAN
        /\ interrupted' \in BOOLEAN
    BY <2>1, Zenon
  <2>3. directory' \in Seq(Entry)
    BY <2>1
  <2> QED BY <2>1, <2>2, <2>3, Empties, Zenon
<1>20. CASE \/ ListManifests \/ InspectManifest \/ InspectIndex \/ SweepUnpublished \/ UNCHANGED vars
  BY Zenon, <1>20, Aside
     DEF ListManifests, InspectManifest, InspectIndex, SweepUnpublished, query, control, shared,
         repository, history, vars
<1> QED
  BY <1>2, <1>3, <1>4, <1>5, <1>6, <1>7, <1>8, <1>9, <1>10, <1>11, <1>12, <1>13, <1>14, <1>15,
     <1>16, <1>17, <1>18, <1>19, <1>20, Zenon
     DEF Next, Writer, Clearing, Opening, Committing, Appending, Finishing, Run, Cleanup

-----------------------------------------------------------------------------
(* The phases and the hot tail.                                            *)

(***************************************************************************)
(* When no block is outstanding none is under way.                         *)
(***************************************************************************)
LEMMA NoneFlying ==
  ASSUME FlightType, OutstandingBlocks = 0
  PROVE  Flying = {}
<1>1. Cardinality(encoding) = 0 /\ Cardinality(prepared_blocks) = 0 /\ Len(completions) = 0
  BY Sizes DEF OutstandingBlocks
<1>2. encoding = {} /\ prepared_blocks = {}
  BY <1>1, FS_EmptySet, Zenon DEF FlightType
<1>3. DOMAIN completions = {}
  BY <1>1 DEF FlightType
<1> QED BY <1>2, <1>3, Zenon DEF Flying

(***************************************************************************)
(* Every step of append_batches and finish goes from phase to phase.       *)
(***************************************************************************)
LEMMA PhaseStep ==
  ASSUME MemoryType, FlightType, PhaseOK, FlightOK, [Next]_vars
  PROVE  PhaseOK'
<1> SUFFICES ASSUME step' \in Writing PROVE PhaseOK'
  BY Zenon DEF PhaseOK
<1> USE DEF PhaseOK, Phase, Writing, control, blocks
<1>1. CASE RemoveSegments
  BY <1>1, DerivedStoreAssumption DEF RemoveSegments, NewStore
<1>2. CASE \E words \in 1 .. MaxWords : AppendBatch(words)
  BY <1>2, Zenon DEF AppendBatch, shared
<1>3. CASE Finish
  BY <1>3 DEF Finish, AfterBuilder, shared, MemoryType
<1>4. CASE Drain
  BY <1>4, AcceptKeeps, Zenon DEF Drain, Accept, Failing
<1>5. CASE Drained
  BY <1>5, Zenon DEF Drained, shared
<1>6. CASE Fill
  BY <1>6, DerivedStoreAssumption DEF Fill, shared, MemoryType
<1>7. CASE WaitForRoom
  BY <1>7, AcceptKeeps, Zenon DEF WaitForRoom, Accept, Failing
<1>8. CASE Dispatch
  BY <1>8 DEF Dispatch, MemoryType
<1>9. CASE PublishHotTail
  BY <1>9, Zenon DEF PublishHotTail
<1>10. CASE SkipHotTail
  BY <1>10, Zenon DEF SkipHotTail, shared
<1>11. CASE Commit
  BY <1>11, Zenon DEF Commit, Failing
<1>12. CASE Committed
  BY <1>12, Zenon DEF Committed, shared
<1>13. CASE CommitDirectory
  <2>1. next_sequence < next_dispatch_sequence
    BY <1>13, ReadyFlies, Zenon DEF CommitDirectory, FlightOK
  <2> QED BY <1>13, <2>1 DEF CommitDirectory, AfterCommit, MemoryType
<1>14. CASE PublishSegment
  BY <1>14, Zenon DEF PublishSegment, shared
<1>15. CASE ReleasePending
  BY <1>15, Zenon DEF ReleasePending
<1>16. CASE Flush
  BY <1>16, AcceptKeeps, Zenon DEF Flush, Accept, Failing
<1>17. CASE Flushed
  <2>1. next_sequence = next_dispatch_sequence
    BY <1>17, NoneFlying DEF Flushed, FlightOK, MemoryType
  <2> QED BY <1>17, <2>1, Zenon DEF Flushed, AfterFlush, shared
<1>18. CASE PublishIndex
  BY <1>18, Zenon DEF PublishIndex, shared
<1>19. CASE Executor
  BY <1>19, Zenon DEF Executor, Encode, shared
<1>20. CASE ReleaseHandle \/ CleanupRemoves
  BY <1>20, Zenon DEF ReleaseHandle, CleanupRemoves, shared
<1>21. CASE \/ Query \/ ListManifests \/ InspectManifest \/ InspectIndex \/ SweepUnpublished
            \/ UNCHANGED vars
  BY <1>21, Aside, Zenon DEF shared
<1>22. ~(\/ RemoveManifest \/ RemoveIndex \/ BeginCreate \/ BeginClear \/ Open \/ OpenIndex
         \/ TouchManifest \/ PublishManifest \/ MarkFinished \/ OperationFails
         \/ DiscardActiveSegment \/ MarkCancelled \/ ReleaseWriter \/ Crash)
  BY Zenon DEF RemoveManifest, RemoveIndex, BeginCreate, BeginClear, Open, OpenIndex, TouchManifest,
         PublishManifest, MarkFinished, OperationFails, Failing, DiscardActiveSegment, MarkCancelled,
         ReleaseWriter, Crash
<1> QED
  BY <1>1, <1>2, <1>3, <1>4, <1>5, <1>6, <1>7, <1>8, <1>9, <1>10, <1>11, <1>12, <1>13, <1>14,
     <1>15, <1>16, <1>17, <1>18, <1>19, <1>20, <1>21, <1>22, Zenon
     DEF Next, Writer, Clearing, Opening, Committing, Appending, Finishing, Run, Cleanup

(***************************************************************************)
(* Every step keeps the hot tail where the committed words end.            *)
(***************************************************************************)
LEMMA TailStep ==
  ASSUME CountInv, TailOK, [Next]_vars
  PROVE  TailOK'
<1>0. Frame /\ Course
  BY Frames, Courses, Zenon DEF CountInv, Types
<1>t. /\ hot_tail.words \in Nat /\ appended \in Nat /\ MaxWords \in Nat
      /\ next_sequence \in Nat /\ BlockWords \in Nat /\ builder \in Nat
      /\ Words(next_sequence) \in Nat
  BY Numbers, Zenon DEF CountInv
<1>1. CASE hot_tail' = NoTail
  BY <1>1 DEF TailOK, NoTail
<1>2. CASE PublishHotTail
  <2>1. /\ step = "tail" /\ OutstandingBlocks = 0
        /\ hot_tail' = [start |-> Words(next_dispatch_sequence), words |-> builder]
        /\ UNCHANGED <<committed_word_count, next_sequence, appended>>
    BY <1>2, Zenon DEF PublishHotTail, TailPublishable, Words, history
  <2>2. next_sequence = next_dispatch_sequence
    BY <2>1, NoneFlying DEF CountInv, Types, FlightOK, PhaseOK, Writing, MemoryType
  <2>3. Unfilled = 0
    BY <2>1, Zenon DEF CountInv, PhaseOK, Phase, Unfilled, Writing
  <2>4. appended = Words(next_sequence) + builder
    BY <2>1, <2>2, <2>3, <1>t DEF CountInv, WordsOK, Phase, Writing
  <2>5. committed_word_count = Words(next_sequence)
    BY <2>1, <2>4, <1>t DEF CountInv, WordsOK, Writing
  <2>6. hot_tail'.start = Words(next_sequence) /\ hot_tail'.words = builder
    BY Zenon, <2>1, <2>2
  <2>7. builder <= BlockWords
    BY DEF CountInv, Types, MemoryType
  <2> QED BY <2>1, <2>4, <2>5, <2>6, <2>7, <1>t DEF TailOK, Words
<1>3. CASE UNCHANGED hot_tail /\ hot_tail' # NoTail
  <2>1. ~Creates /\ ~CommitDirectory /\ ~Crash
    BY <1>3, Zenon DEF Creates, RemoveSegments, NewStore, CommitDirectory, Crash
  <2>2. UNCHANGED committed_word_count
    <3>1. CASE OpenIndex
      BY <1>3, <3>1, Zenon DEF OpenIndex, shared
    <3> QED BY <1>0, <2>1, <3>1, Zenon DEF Frame
  <2>3. UNCHANGED next_sequence
    BY <1>0, <2>1, Zenon DEF Frame
  <2>4. appended' \in Nat /\ appended' >= appended
    <3>1. CASE UNCHANGED appended
      BY <3>1, <1>t
    <3>2. CASE \E words \in 1 .. MaxWords : AppendBatch(words)
      BY <3>2, <1>t DEF AppendBatch
    <3> QED BY <1>0, <2>1, <3>1, <3>2, Zenon DEF Frame
  <2>5. step' \in Writing => step \in Writing
    BY <1>0, <2>1, Zenon DEF Course
  <2>6. Words(next_sequence)' = Words(next_sequence)
    BY <2>3, Zenon DEF Words
  <2> QED BY <1>3, <2>2, <2>3, <2>4, <2>5, <2>6, <1>t DEF TailOK
<1> QED BY <1>0, <1>1, <1>2, <1>3, Zenon DEF Frame

-----------------------------------------------------------------------------
(* The query, and what an unfinished store leaves.                         *)

(***************************************************************************)
(* Every step keeps the block of a query where it looks for it.            *)
(***************************************************************************)
LEMMA ReaderStep ==
  ASSUME Types, PhaseOK, FlightOK, DirectoryOK, EndOK, OwnerOK, PlacedOK, ReaderOK, ReaderFindsBlocks,
         [Next]_vars
  PROVE  ReaderOK' /\ ReaderFindsBlocks'
<1>0. Frame /\ Course
  BY Frames, Courses, Zenon DEF Types
<1>n. NoReader.step = "idle"
  BY Zenon DEF NoReader
<1>t. /\ reader \in [step : {"idle", "pending", "segment", "missing"}, entry : Entry]
      /\ \A i \in DOMAIN directory : directory[i].segment \in SegmentNumbers
      /\ held \in BOOLEAN /\ swept \in BOOLEAN
  BY Zenon DEF Types, RepositoryType, DirectoryOK
<1>1. ASSUME reader'.step = "idle" PROVE ReaderOK' /\ ReaderFindsBlocks'
  BY <1>1, Zenon DEF ReaderOK, ReaderFindsBlocks
<1>2. CASE reader'.step # "idle" /\ Query
  <2>1. UNCHANGED <<status, directory, segments, store, held, swept>> /\ Cancelling' = Cancelling
    BY <1>2, Aside, Zenon DEF shared, repository, history, control, Cancelling
  <2>2. CASE Snapshot
    <3>1. held /\ reader'.step = "pending" /\ \E i \in DOMAIN directory : directory[i] = reader'.entry
      BY <2>2 DEF Snapshot
    <3> QED BY <2>1, <3>1, Zenon DEF ReaderOK, ReaderFindsBlocks
  <2>3. CASE ReadPending
    <3>1. /\ reader.step = "pending" /\ reader'.step = "segment" /\ reader'.entry = reader.entry
          /\ reader.entry.sequence \notin pending_blocks
      BY <1>2, <1>n, <1>t, <2>3, Zenon DEF ReadPending
    <3>2. PICK i \in DOMAIN directory : directory[i] = reader.entry
      BY <3>1, Zenon DEF ReaderOK
    <3>3. held
      BY <3>1, Zenon DEF ReaderOK
    <3>4. ~swept /\ ~Cancelling => segments[reader.entry.segment] = store
      BY <3>1, <3>2, <3>3, Zenon DEF PlacedOK, InUseNow
    <3> QED BY <2>1, <3>1, <3>2, <3>3, <3>4, Zenon DEF ReaderOK, ReaderFindsBlocks
  <2>4. CASE ReadSegment
    <3>1. /\ reader.step = "segment" /\ reader'.step = "missing"
          /\ segments[reader.entry.segment] = 0
      BY <1>2, <1>n, <1>t, <2>4, Zenon DEF ReadSegment
    <3>2. held
      BY <3>1, Zenon DEF ReaderOK
    <3>3. store # 0
      BY <3>2, Zenon DEF OwnerOK, InUseNow
    <3>4. swept \/ Cancelling
      BY <3>1, <3>3, Zenon DEF ReaderOK
    <3> QED BY <2>1, <3>1, <3>2, <3>4, Zenon DEF ReaderOK, ReaderFindsBlocks
  <2> QED BY <1>2, <2>2, <2>3, <2>4, Zenon DEF Query
<1>3. CASE reader'.step # "idle" /\ ~Query
  <2>1. ~Creates /\ ~ReleaseHandle /\ ~Crash
    BY <1>3, <1>n, Zenon DEF Creates, RemoveSegments, NewStore, ReleaseHandle, Crash
  <2>2. reader' = reader /\ held
    BY <1>0, <1>3, <2>1, Zenon DEF Frame, ReaderOK
  <2>3. ~OpenIndex /\ ~TouchManifest
    BY <2>2, Zenon DEF OpenIndex, TouchManifest, OwnerOK
  <2>4. held' = held
    BY <1>0, <2>1, <2>3, Zenon DEF Frame
  <2>5. ~Cancelling' => ~Cancelling
    <3>1. step = "cancel" => Cancelling'
      BY <1>0, <2>1, Zenon DEF Course, MarkCancelled, Cancelling
    <3>2. CASE MarkFinished
      BY <3>2, Zenon DEF MarkFinished, EndOK, Cancelling
    <3>3. CASE MarkCancelled
      BY <3>3, Zenon DEF MarkCancelled, Cancelling
    <3>4. CASE UNCHANGED status
      BY <3>1, <3>4, Zenon DEF Cancelling
    <3> QED BY <1>0, <2>1, <2>3, <3>1, <3>2, <3>3, <3>4, Zenon DEF Frame, PhaseOK, Cancelling
  <2>6. swept => swept'
    BY <1>0, <1>t, Zenon DEF Frame, CleanupRemoves
  <2>7. \A i \in DOMAIN directory : i \in DOMAIN directory' /\ directory'[i] = directory[i]
    <3>1. CASE CommitDirectory
      BY Zenon, <3>1, Appended
    <3> QED BY <1>0, <2>1, <2>3, <3>1, Zenon DEF Frame
  <2>8. ASSUME reader.step = "segment", ~swept', ~Cancelling'
        PROVE  segments'[reader.entry.segment] = store'
    <3>1. segments[reader.entry.segment] = store
      BY <2>5, <2>6, <2>8, Zenon DEF ReaderOK
    <3>2. reader.entry.segment \in SegmentNumbers
      BY <1>t, <2>8, Zenon DEF ReaderOK
    <3>3. UNCHANGED store
      BY <1>0, <2>1, Zenon DEF Frame
    <3>4. InUseNow
      BY <2>2, Zenon DEF InUseNow
    <3>5. CASE UNCHANGED segments
      BY Zenon, <3>1, <3>3, <3>5
    <3>6. CASE RemoveSegments
      BY <3>6, <2>2, Zenon DEF RemoveSegments, OwnerOK, ClearSteps
    <3>7. CASE PublishSegment
      <4>1. segments' = [segments EXCEPT ![active_segment.sequence] = store]
        BY <3>7, Zenon DEF PublishSegment
      <4>2. segments \in [SegmentNumbers -> 0 .. MaxStores]
        BY Zenon DEF Types, RepositoryType
      <4> QED BY Zenon, <3>1, <3>2, <3>3, <4>1, <4>2
    <3>8. CASE ReleaseWriter
      <4>1. UNCHANGED segments
        BY <3>8, <2>2, Zenon DEF ReleaseWriter
      <4> QED BY Zenon, <3>5, <4>1
    <3>9. CASE CleanupRemoves
      BY Zenon, <3>1, <3>2, <3>3, <3>4, <3>9, <2>8, SweepSpares, StepInUse
    <3> QED BY <1>0, <2>1, <3>5, <3>6, <3>7, <3>8, <3>9, Zenon DEF Frame
  <2>9. ReaderOK'
    <3>1. reader'.step \in {"pending", "segment"} =>
            \E i \in DOMAIN directory' : directory'[i] = reader'.entry
      BY <2>2, <2>7, Zenon DEF ReaderOK
    <3> QED BY <2>2, <2>4, <2>8, <3>1, Zenon DEF ReaderOK
  <2>10. ReaderFindsBlocks'
    BY <2>2, <2>5, <2>6, Zenon DEF ReaderFindsBlocks
  <2> QED BY Zenon, <2>9, <2>10
<1> QED BY Zenon, <1>1, <1>2, <1>3

(***************************************************************************)
(* Every step keeps track of the segments of an unfinished store.          *)
(***************************************************************************)
LEMMA LeftStep ==
  ASSUME Types, PhaseOK, FlightOK, DirectoryOK, OwnerOK, ActiveOK, LeftOK, [Next]_vars
  PROVE  LeftOK'
<1> SUFFICES ASSUME ~interrupted', ~swept', step' \notin ClearSteps PROVE LeftOK'
  BY Zenon DEF LeftOK
<1>0. Frame /\ Course
  BY Frames, Courses, Zenon DEF Types
<1>t. /\ segments \in [SegmentNumbers -> 0 .. MaxStores]
      /\ held \in BOOLEAN /\ remove_on_drop \in BOOLEAN
  BY Zenon DEF Types, RepositoryType
<1>1. ASSUME \A s \in SegmentNumbers : segments'[s] = 0 PROVE LeftOK'
  BY <1>1, Zenon DEF LeftOK
<1>2. CASE RemoveSegments
  BY <1>1, <1>2, Zenon DEF RemoveSegments
<1>3. CASE ~RemoveSegments
  <2>1. ~Crash /\ interrupted' = interrupted
    BY <1>0, <1>3, Zenon DEF Frame, Creates, Crash
  <2>2. ~swept
    BY <1>0, SweepSpares, Zenon DEF Frame
  <2>3. step \notin ClearSteps
    BY <1>0, <1>3, <2>1, Zenon DEF Course
  <2>4. IF remove_on_drop /\ (held \/ step # "none")
          THEN \A s \in SegmentNumbers :
                 segments[s] # 0 => \E i \in DOMAIN directory : directory[i].segment = s
          ELSE manifest = 0 => \A s \in SegmentNumbers : segments[s] = 0
    BY <2>1, <2>2, <2>3, Zenon DEF LeftOK
  <2>5. CASE ReleaseWriter \/ ReleaseHandle
    <3>1. /\ UNCHANGED <<directory, manifest, remove_on_drop>>
          /\ \/ DropShared /\ step' = "none" /\ ~held'
             \/ UNCHANGED segments /\ (held' \/ step' # "none")
          /\ held \/ step # "none"
      <4>1. CASE ReleaseWriter
        BY <4>1, <1>t, Zenon DEF ReleaseWriter, query, shared
      <4>2. CASE ReleaseHandle
        BY <4>2, <1>t, Zenon DEF ReleaseHandle, control, shared
      <4> QED BY <2>5, <4>1, <4>2, Zenon
    <3>2. CASE DropShared /\ remove_on_drop
      <4>1. segments' = SegmentsReclaimed
        BY <3>2, Zenon DEF DropShared
      <4>2. \A s \in SegmentNumbers : segments'[s] = 0
        BY <2>4, <3>1, <3>2, <4>1, Zenon DEF SegmentsReclaimed
      <4> QED BY Zenon, <1>1, <4>2
    <3>3. CASE DropShared /\ ~remove_on_drop
      <4>1. UNCHANGED segments
        BY <3>3, Zenon DEF DropShared
      <4> QED BY <2>4, <3>1, <3>3, <4>1, Zenon DEF LeftOK
    <3>4. CASE UNCHANGED segments /\ (held' \/ step' # "none")
      BY <2>4, <3>1, <3>4, Zenon DEF LeftOK
    <3> QED BY Zenon, <3>1, <3>2, <3>3, <3>4
  <2>6. CASE CleanupRemoves
    <3>1. /\ UNCHANGED <<step, held, directory, remove_on_drop, manifest>>
          /\ segments' = segments \/ \A s \in SegmentNumbers : segments'[s] = 0
      BY Zenon, <2>6, SweepSpares
    <3> QED BY <1>1, <2>4, <3>1, Zenon DEF LeftOK
  <2>7. CASE PublishSegment
    <3>1. /\ step = "publish" /\ step' = "release"
          /\ segments' = [segments EXCEPT ![active_segment.sequence] = store]
          /\ UNCHANGED <<held, directory, remove_on_drop, manifest>>
      BY <2>7, Zenon DEF PublishSegment, shared, query
    <3>2. /\ remove_on_drop
          /\ \E i \in DOMAIN directory : directory[i].segment = active_segment.sequence
      BY <3>1, Zenon DEF OwnerOK, ActiveOK, Writing
    <3>3. \A s \in SegmentNumbers : s # active_segment.sequence => segments'[s] = segments[s]
      BY Zenon, <3>1, <1>t
    <3> QED BY <2>4, <3>1, <3>2, <3>3, Zenon DEF LeftOK
  <2>8. CASE PublishManifest
    <3>1. step = "manifest" /\ step' = "finished" /\ UNCHANGED <<segments, directory, remove_on_drop>>
      BY <2>8, Zenon DEF PublishManifest, shared
    <3>2. remove_on_drop
      BY <3>1, Zenon DEF OwnerOK, Writing
    <3> QED BY <2>4, <3>1, <3>2, Zenon DEF LeftOK
  <2>9. CASE Open \/ OpenIndex \/ TouchManifest \/ MarkFinished
    <3>1. /\ manifest' \in {manifest, store} /\ (remove_on_drop' = FALSE \/ remove_on_drop' = remove_on_drop)
          /\ step \in {"none", "open_index", "touch", "finished"}
          /\ step = "none" => manifest # 0
          /\ step = "finished" => remove_on_drop' = FALSE
      BY <2>9, Zenon DEF Open, OpenIndex, TouchManifest, MarkFinished, repository, shared
    <3>2. manifest # 0 /\ store # 0
      BY <2>2, <3>1, Zenon DEF OwnerOK, InUseNow
    <3>3. step # "finished" => ~remove_on_drop
      BY <3>2, Zenon DEF OwnerOK
    <3>4. manifest' # 0
      BY <3>1, <3>2, Zenon
    <3>5. ~remove_on_drop'
      BY <3>1, <3>3
    <3> QED BY <3>4, <3>5, Zenon DEF LeftOK
  <2>10. CASE CommitDirectory
    <3>1. /\ UNCHANGED <<segments, manifest, remove_on_drop, held>> /\ step = "directory" /\ step' = "commit"
      BY <2>10, Zenon DEF CommitDirectory, AfterCommit, repository, query
    <3>2. \A i \in DOMAIN directory : i \in DOMAIN directory' /\ directory'[i] = directory[i]
      BY Zenon, <2>10, Appended
    <3> QED BY <2>4, <3>1, <3>2, Zenon DEF LeftOK
  <2>11. CASE /\ ~ReleaseWriter /\ ~ReleaseHandle /\ ~CleanupRemoves /\ ~PublishSegment
              /\ ~PublishManifest /\ ~Open /\ ~OpenIndex /\ ~TouchManifest /\ ~MarkFinished
              /\ ~CommitDirectory
    <3>1. UNCHANGED <<segments, directory, remove_on_drop, held>>
      BY <1>0, <1>3, <2>1, <2>11, Zenon DEF Frame, Creates
    <3>2. manifest' = manifest
      BY <1>0, <1>3, <2>3, <2>11, Zenon DEF Frame, RemoveManifest, ClearSteps
    <3>3. (step = "none") = (step' = "none")
      <4>1. step' = "none" => step = "none"
        BY <1>0, <1>3, <2>1, <2>11, Zenon DEF Course
      <4>2. step = "none" => step' = "none"
        <5>1. ASSUME step = "none", step' # "none" PROVE FALSE
          <6>1. step' \notin Writing
            BY <1>0, <1>3, <5>1, Zenon DEF Course, Creates, Writing
          <6>2. step' \in {"finished", "cancel", "terminal", "open_index", "touch"}
            BY <5>1, <6>1, MemoryStep, Zenon DEF Types, MemoryType
          <6> QED BY <1>0, <2>11, <5>1, <6>2, Zenon DEF Course, Writing, DiscardActiveSegment
        <5> QED BY Zenon, <5>1
      <4> QED BY Zenon, <4>1, <4>2
    <3> QED BY <2>4, <3>1, <3>2, <3>3, Zenon DEF LeftOK
  <2> QED BY Zenon, <2>5, <2>6, <2>7, <2>8, <2>9, <2>10, <2>11
<1> QED BY Zenon, <1>2, <1>3

-----------------------------------------------------------------------------
(* The theorems.                                                           *)

(***************************************************************************)
(* The inductive invariant of the store.                                   *)
(***************************************************************************)
StoreInv ==
  /\ Types /\ PhaseOK /\ WordsOK /\ FlightOK
  /\ DirectoryOK /\ TailOK /\ EndOK
  /\ OwnerOK /\ ActiveOK /\ PlacedOK /\ EntryIsWhole
  /\ ReaderOK /\ ReaderFindsBlocks /\ LeftOK

(***************************************************************************)
(* The invariant holds before the first run.                               *)
(***************************************************************************)
LEMMA InitInv == Init => StoreInv
<1> SUFFICES ASSUME Init PROVE StoreInv
  OBVIOUS
<1>1. Types
  BY InitTypes, Zenon DEF Types
<1>2. /\ step = "none" /\ status = "none" /\ directory = <<>> /\ hot_tail = NoTail /\ index = NoIndex
      /\ manifest = 0 /\ store = 0 /\ remove_on_drop = FALSE /\ held = FALSE /\ reader = NoReader
      /\ segments = [s \in SegmentNumbers |-> 0]
  BY Zenon DEF Init
<1>3. step \notin Writing /\ step \notin ClearSteps /\ ~InUseNow
  BY <1>2, Zenon DEF Writing, ClearSteps, InUseNow
<1>4. PhaseOK /\ WordsOK /\ FlightOK /\ ActiveOK
  BY <1>3, Zenon DEF PhaseOK, WordsOK, FlightOK, ActiveOK
<1>5. DirectoryOK /\ TailOK /\ EndOK
  BY <1>2, <1>3 DEF DirectoryOK, TailOK, EndOK, NoIndex, NoTail, ClearSteps
<1>6. OwnerOK /\ EntryIsWhole
  BY <1>2, <1>3, Zenon DEF OwnerOK, EntryIsWhole
<1>7. PlacedOK
  BY <1>2, <1>3, Zenon DEF PlacedOK
<1>8. ReaderOK /\ ReaderFindsBlocks
  BY <1>2, Zenon DEF ReaderOK, ReaderFindsBlocks, NoReader
<1>9. LeftOK
  BY <1>2, Zenon DEF LeftOK
<1> QED BY <1>1, <1>4, <1>5, <1>6, <1>7, <1>8, <1>9, Zenon DEF StoreInv

(***************************************************************************)
(* Every step keeps the invariant.                                         *)
(***************************************************************************)
LEMMA StepInv == StoreInv /\ [Next]_vars => StoreInv'
<1> SUFFICES ASSUME StoreInv, [Next]_vars PROVE StoreInv'
  OBVIOUS
<1>1. Types'
  BY MemoryStep, FlightStep, RepositoryStep, Zenon DEF StoreInv, Types
<1>2. PhaseOK' /\ WordsOK' /\ FlightOK'
  BY PhaseStep, WordsStep, FlightOKStep, Zenon DEF StoreInv, Types
<1>3. CountInv
  BY Zenon DEF StoreInv, CountInv
<1>4. DirectoryOK' /\ TailOK' /\ EndOK'
  BY <1>3, DirectoryStep, TailStep, EndStep, Zenon DEF StoreInv
<1>5. OwnerOK' /\ ActiveOK' /\ PlacedOK' /\ EntryIsWhole'
  BY <1>3, OwnerStep, ActiveStep, PlacedStep, EntryStep, Zenon DEF StoreInv
<1>6. ReaderOK' /\ ReaderFindsBlocks' /\ LeftOK'
  BY ReaderStep, LeftStep, Zenon DEF StoreInv
<1> QED BY <1>1, <1>2, <1>4, <1>5, <1>6, Zenon DEF StoreInv

(***************************************************************************)
(* The invariant holds in every state of every run: any number of words,   *)
(* runs, failures, restarts and cleanups.                                  *)
(***************************************************************************)
THEOREM StoreInvHolds == Spec => []StoreInv
BY InitInv, StepInv, PTL DEF Spec

(***************************************************************************)
(* Every variable of the store has its type.                               *)
(***************************************************************************)
THEOREM TypeCorrect == Spec => []TypeOK
<1>1. StoreInv => TypeOK
  <2> SUFFICES ASSUME StoreInv PROVE TypeOK
    OBVIOUS
  <2>1. MemoryType /\ FlightType /\ RepositoryType
    BY Zenon DEF StoreInv, Types
  <2>2. \A i \in DOMAIN completions : completions[i].outcome \in {"encoded", "failed", "panicked"}
    <3>1. \A i \in DOMAIN completions : completions[i] \in Completion
      BY <2>1 DEF FlightType
    <3> QED BY <3>1, Zenon DEF Completion
  <2>3. \A i \in DOMAIN directory : directory[i] \in Entry
    BY <2>1 DEF RepositoryType
  <2>4. reader.step \in {"idle", "pending", "segment", "missing"}
    BY <2>1, Zenon DEF RepositoryType
  <2> QED BY Zenon, <2>1, <2>2, <2>3, <2>4
          DEF TypeOK, MemoryType, FlightType, RepositoryType, Writing, ClearSteps
<1> QED BY <1>1, StoreInvHolds, PTL

(***************************************************************************)
(* A task of the shared executor never waits for room in the completion    *)
(* channel: dispatch_current_block counts every block that is encoded,     *)
(* completed or prepared.                                                  *)
(***************************************************************************)
THEOREM EncodersNeverBlockHolds == Spec => []EncodersNeverBlock
<1>1. StoreInv => EncodersNeverBlock
  BY Sizes, DerivedStoreAssumption DEF StoreInv, Types, FlightType, OutstandingBlocks, EncodersNeverBlock
<1> QED BY <1>1, StoreInvHolds, PTL

(***************************************************************************)
(* A manifest stands for an index and for every segment of the store that  *)
(* published it, whatever stopped the process in publish, in               *)
(* remove_cache_artifacts or between two of their steps, unless a background*)
(* cleanup removed artifacts.                                              *)
(***************************************************************************)
THEOREM EntryIsWholeHolds == Spec => []EntryIsWhole
<1>1. StoreInv => EntryIsWhole
  BY Zenon DEF StoreInv
<1> QED BY <1>1, StoreInvHolds, PTL

(***************************************************************************)
(* A store that is Finished, or was opened from its manifest by a later    *)
(* run, holds every word that was appended to it.                          *)
(***************************************************************************)
THEOREM FinishedHasAllHolds == Spec => []FinishedHasAll
<1>1. StoreInv => FinishedHasAll
  BY Zenon DEF StoreInv, EndOK, FinishedHasAll
<1> QED BY <1>1, StoreInvHolds, PTL

(***************************************************************************)
(* A query finds each block of its directory snapshot, although            *)
(* publish_active_segment moves the block between the two lookups, unless  *)
(* cancel, or the drop of its writer, has begun to discard the blocks of   *)
(* the active segment or a cleanup removed the segments.                   *)
(***************************************************************************)
THEOREM ReaderFindsBlocksHolds == Spec => []ReaderFindsBlocks
<1>1. StoreInv => ReaderFindsBlocks
  BY Zenon DEF StoreInv
<1> QED BY <1>1, StoreInvHolds, PTL

(***************************************************************************)
(* Without a restart of the process, the segments of a store that was not  *)
(* finished are gone when StoreShared is dropped.                          *)
(***************************************************************************)
THEOREM UnfinishedLeavesNothingHolds == Spec => []UnfinishedLeavesNothing
<1>1. StoreInv => UnfinishedLeavesNothing
  BY Zenon DEF StoreInv, LeftOK, UnfinishedLeavesNothing, ClearSteps
<1> QED BY <1>1, StoreInvHolds, PTL

(***************************************************************************)
(* A step of a live store keeps the prefix and takes no word away: a new   *)
(* hot tail is at least the old one, and a block has at least the words of *)
(* the tail it replaces.                                                   *)
(***************************************************************************)
LEMMA GrowStep ==
  ASSUME StoreInv, [Next]_vars
  PROVE  /\ IsPrefix'
         /\ status = "Live" /\ status' = "Live" /\ store' = store => Visible' >= Visible
<1>0. Frame /\ Course
  BY Frames, Courses, Zenon DEF StoreInv, Types
<1>1. IsPrefix'
  BY StepInv, Zenon DEF StoreInv, DirectoryOK, TailOK, IsPrefix
<1>2. CountInv /\ TailOK
  BY Zenon DEF StoreInv, CountInv
<1>t. /\ hot_tail.words \in Nat /\ appended \in Nat /\ next_sequence \in Nat /\ BlockWords \in Nat
      /\ builder \in Nat /\ Words(next_sequence) \in Nat /\ committed_word_count \in Nat
  BY <1>2, Numbers, Zenon DEF CountInv, Types, MemoryType
<1>3. ASSUME status = "Live", status' = "Live", store' = store PROVE Visible' >= Visible
  <2>1. ~Creates /\ ~Crash
    <3>1. store + 1 # store
      BY DerivedStoreAssumption DEF StoreInv, Types, RepositoryType
    <3> QED BY <1>3, <3>1, Zenon DEF Creates, RemoveSegments, NewStore, Crash
  <2>2. CASE OpenIndex \/ MarkCancelled
    <3>1. UNCHANGED <<committed_word_count, hot_tail>>
      BY <1>3, <2>2, Zenon DEF OpenIndex, MarkCancelled, shared
    <3> QED BY <3>1, <1>t DEF Visible
  <2>3. CASE PublishHotTail
    <3>1. step = "tail" /\ hot_tail'.words = builder /\ UNCHANGED committed_word_count /\ OutstandingBlocks = 0
      BY <2>3, Zenon DEF PublishHotTail, TailPublishable
    <3>2. next_sequence = next_dispatch_sequence
      BY <1>2, <3>1, NoneFlying DEF CountInv, Types, FlightOK, PhaseOK, Writing, MemoryType
    <3>3. Unfilled = 0
      BY <1>2, <3>1, Zenon DEF CountInv, PhaseOK, Phase, Unfilled, Writing
    <3>4. appended = Words(next_sequence) + builder
      BY <1>2, <3>1, <3>2, <3>3, <1>t DEF CountInv, WordsOK, Phase, Writing
    <3>5. hot_tail.words > 0 => Words(next_sequence) + hot_tail.words <= appended
      BY <1>2, <3>1, Zenon DEF TailOK, Writing
    <3>6. builder >= hot_tail.words
      BY <3>4, <3>5, <1>t
    <3> QED BY <3>1, <3>6, <1>t DEF Visible
  <2>4. CASE CommitDirectory
    <3>1. step \in Writing /\ hot_tail' = NoTail
      BY <2>4, Zenon DEF CommitDirectory, Writing
    <3>2. PICK b \in Ready : /\ b.words \in Nat /\ b.words = Size(next_sequence)
                             /\ committed_word_count' = committed_word_count + b.words
      BY <2>4, Appended, Zenon DEF StoreInv
    <3>3. hot_tail.words > 0 =>
            Words(next_sequence) + hot_tail.words <= appended /\ hot_tail.words <= BlockWords
      BY <1>2, <3>1, Zenon DEF TailOK
    <3>4. b.words >= hot_tail.words
      BY <3>2, <3>3, <1>t DEF Size
    <3>5. hot_tail'.words = 0
      BY <3>1, Zenon DEF NoTail
    <3> QED BY <3>2, <3>4, <3>5, <1>t DEF Visible
  <2>5. CASE ~OpenIndex /\ ~MarkCancelled /\ ~PublishHotTail /\ ~CommitDirectory
    <3>1. UNCHANGED <<committed_word_count, hot_tail>>
      BY <1>0, <1>3, <2>1, <2>5, Zenon DEF Frame
    <3> QED BY <3>1, <1>t DEF Visible
  <2> QED BY Zenon, <2>2, <2>3, <2>4, <2>5
<1> QED BY Zenon, <1>1, <1>3

(***************************************************************************)
(* What a query of a live store sees is a prefix of the appended words and *)
(* never shrinks, although the hot tail and the blocks are published       *)
(* separately.                                                             *)
(***************************************************************************)
THEOREM VisibleGrowsHolds == Spec => VisibleGrows
<1>1. StoreInv /\ [Next]_vars =>
        [/\ IsPrefix'
         /\ status = "Live" /\ status' = "Live" /\ store' = store => Visible' >= Visible]_vars
  BY GrowStep, Zenon
<1> QED BY <1>1, StoreInvHolds, PTL DEF Spec, VisibleGrows

=============================================================================
