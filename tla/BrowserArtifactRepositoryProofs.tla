------------------ MODULE BrowserArtifactRepositoryProofs ------------------
(***************************************************************************)
(* Proofs about BrowserArtifactRepository for every set of keys, budget,   *)
(* quota and number of commands and failures.                              *)
(***************************************************************************)
EXTENDS BrowserArtifactRepository, FiniteSetTheorems, TLAPS

Elements(s) == {s[i] : i \in 1 .. Len(s)}

Increasing(s) == \A i, j \in 1 .. Len(s) : i < j => s[i].sequence < s[j].sequence

Publications(s) == {i \in DOMAIN s : s[i].kind = "publish"}

-----------------------------------------------------------------------------
(* Queues of commands.                                                     *)

(***************************************************************************)
(* A command that is enqueued, or posted, comes last.                      *)
(***************************************************************************)
LEMMA AppendCommand ==
  ASSUME NEW s \in Seq(Command), NEW c \in Command
  PROVE  /\ Append(s, c) \in Seq(Command)
         /\ Elements(Append(s, c)) = Elements(s) \cup {c}
         /\ Increasing(s) /\ (\A d \in Elements(s) : d.sequence < c.sequence) =>
              Increasing(Append(s, c))
<1> DEFINE t == Append(s, c)
<1>1. t \in Seq(Command) /\ Len(t) = Len(s) + 1 /\ t[Len(s) + 1] = c /\ Len(s) \in Nat
  OBVIOUS
<1>2. \A i \in 1 .. Len(s) : t[i] = s[i]
  OBVIOUS
<1> HIDE DEF t
<1>3. Elements(t) = Elements(s) \cup {c}
  BY <1>1, <1>2 DEF Elements
<1>4. ASSUME Increasing(s), \A d \in Elements(s) : d.sequence < c.sequence,
             NEW i \in 1 .. Len(t), NEW j \in 1 .. Len(t), i < j
      PROVE  t[i].sequence < t[j].sequence
  <2>1. i \in 1 .. Len(s)
    BY <1>1, <1>4
  <2>2. s[i] \in Elements(s)
    BY <2>1 DEF Elements
  <2>3. CASE j = Len(s) + 1
    BY <1>1, <1>2, <1>4, <2>1, <2>2, <2>3
  <2>4. CASE j \in 1 .. Len(s)
    BY <1>2, <1>4, <2>1, <2>4 DEF Increasing
  <2> QED
    BY <1>1, <2>3, <2>4
<1> QED
  BY <1>1, <1>3, <1>4 DEF t, Increasing

(***************************************************************************)
(* The command at the head is the oldest of the queue.                     *)
(***************************************************************************)
LEMMA TakeCommandOff ==
  ASSUME NEW s \in Seq(Command), s # <<>>
  PROVE  /\ Tail(s) \in Seq(Command) /\ Head(s) \in Command
         /\ Len(s) = Len(Tail(s)) + 1 /\ Len(Tail(s)) \in Nat
         /\ Elements(s) = Elements(Tail(s)) \cup {Head(s)}
         /\ Increasing(s) =>
              /\ Increasing(Tail(s))
              /\ \A d \in Elements(Tail(s)) : Head(s).sequence < d.sequence
<1> DEFINE t == Tail(s)
<1>1. t \in Seq(Command) /\ Len(s) = Len(t) + 1 /\ Len(t) \in Nat /\ Head(s) = s[1]
  OBVIOUS
<1>2. \A i \in 1 .. Len(t) : t[i] = s[i + 1]
  OBVIOUS
<1>3. Head(s) \in Command
  BY <1>1
<1> HIDE DEF t
<1>4. Elements(s) = Elements(t) \cup {Head(s)}
  <2>1. ASSUME NEW i \in 1 .. Len(s) PROVE s[i] \in Elements(t) \cup {Head(s)}
    <3>1. CASE i = 1
      BY <1>1, <3>1
    <3>2. CASE i # 1
      <4>1. i - 1 \in 1 .. Len(t) /\ (i - 1) + 1 = i
        BY <1>1, <3>2
      <4>2. s[i] = t[i - 1]
        BY <1>2, <4>1
      <4> QED
        BY <4>1, <4>2 DEF Elements
    <3> QED
      BY <3>1, <3>2
  <2>2. ASSUME NEW i \in 1 .. Len(t) PROVE t[i] \in Elements(s)
    <3>1. i + 1 \in 1 .. Len(s)
      BY <1>1
    <3> QED
      BY <1>2, <3>1 DEF Elements
  <2>3. Head(s) \in Elements(s)
    <3>1. 1 \in 1 .. Len(s)
      BY <1>1
    <3> QED
      BY <1>1, <3>1 DEF Elements
  <2> QED
    BY <2>1, <2>2, <2>3 DEF Elements
<1>5. ASSUME Increasing(s) PROVE Increasing(t)
  <2>1. ASSUME NEW i \in 1 .. Len(t), NEW j \in 1 .. Len(t), i < j
        PROVE  t[i].sequence < t[j].sequence
    <3>1. i + 1 \in 1 .. Len(s) /\ j + 1 \in 1 .. Len(s) /\ i + 1 < j + 1
      BY <1>1, <2>1
    <3> QED
      BY <1>2, <1>5, <3>1 DEF Increasing
  <2> QED
    BY <2>1 DEF Increasing
<1>6. ASSUME Increasing(s), NEW i \in 1 .. Len(t) PROVE Head(s).sequence < t[i].sequence
  <2>1. 1 \in 1 .. Len(s) /\ i + 1 \in 1 .. Len(s) /\ 1 < i + 1
    BY <1>1
  <2> QED
    BY <1>1, <1>2, <1>6, <2>1, Zenon DEF Increasing
<1> QED
  BY <1>1, <1>3, <1>4, <1>5, <1>6, Zenon DEF t, Elements

(***************************************************************************)
(* The number of publications in a queue, which queued_bytes counts.       *)
(***************************************************************************)
LEMMA PublicationsFinite ==
  ASSUME NEW s \in Seq(Command)
  PROVE  IsFiniteSet(Publications(s)) /\ Cardinality(Publications(s)) \in Nat
<1>1. IsFiniteSet(1 .. Len(s))
  BY FS_Interval
<1>2. Publications(s) \subseteq 1 .. Len(s)
  BY DEF Publications
<1> QED
  BY <1>1, <1>2, FS_Subset, FS_CardinalityType

(***************************************************************************)
(* A command that is enqueued counts if it is a publication.               *)
(***************************************************************************)
LEMMA CountAppend ==
  ASSUME NEW s \in Seq(Command), NEW c \in Command
  PROVE  Cardinality(Publications(Append(s, c)))
           = Cardinality(Publications(s)) + (IF c.kind = "publish" THEN 1 ELSE 0)
<1> DEFINE t == Append(s, c)
<1>1. Len(t) = Len(s) + 1 /\ DOMAIN t = 1 .. Len(s) + 1 /\ t[Len(s) + 1] = c
      /\ Len(s) \in Nat /\ DOMAIN s = 1 .. Len(s)
  OBVIOUS
<1>2. \A i \in 1 .. Len(s) : t[i] = s[i]
  OBVIOUS
<1> HIDE DEF t
<1>3. CASE c.kind = "publish"
  <2>1. Publications(t) = Publications(s) \cup {Len(s) + 1}
    BY <1>1, <1>2, <1>3 DEF Publications
  <2>2. Len(s) + 1 \notin Publications(s)
    BY <1>1 DEF Publications
  <2> QED
    BY <1>3, <2>1, <2>2, PublicationsFinite, FS_AddElement, Zenon DEF t
<1>4. CASE c.kind # "publish"
  <2>1. Publications(t) = Publications(s)
    BY <1>1, <1>2, <1>4 DEF Publications
  <2> QED
    BY <1>4, <2>1, PublicationsFinite DEF t
<1> QED
  BY <1>3, <1>4

(***************************************************************************)
(* So does the one that is taken off.                                      *)
(***************************************************************************)
LEMMA CountTail ==
  ASSUME NEW s \in Seq(Command), s # <<>>
  PROVE  Cardinality(Publications(s))
           = Cardinality(Publications(Tail(s))) + (IF Head(s).kind = "publish" THEN 1 ELSE 0)
<1> DEFINE t == Tail(s)
           P == Publications(t)
           Q == {i \in Publications(s) : i # 1}
           f == [i \in P |-> i + 1]
<1>1. t \in Seq(Command) /\ Len(s) = Len(t) + 1 /\ Len(t) \in Nat /\ Head(s) = s[1]
      /\ DOMAIN s = 1 .. Len(s) /\ DOMAIN t = 1 .. Len(t)
  OBVIOUS
<1>2. \A i \in 1 .. Len(t) : t[i] = s[i + 1]
  OBVIOUS
<1> HIDE DEF t
<1>3. f \in [P -> Q]
  BY <1>1, <1>2 DEF Publications
<1>4. \A i, j \in P : f[i] = f[j] => i = j
  BY <1>1 DEF Publications
<1>5. ASSUME NEW q \in Q PROVE \E i \in P : f[i] = q
  <2>1. q - 1 \in 1 .. Len(t) /\ (q - 1) + 1 = q
    BY <1>1 DEF Publications
  <2>2. q - 1 \in P
    BY <1>1, <1>2, <2>1 DEF Publications
  <2> QED
    BY <2>1, <2>2
<1>6. ExistsBijection(P, Q)
  <2> HIDE DEF P, Q
  <2>1. f \in Bijection(P, Q)
    BY <1>3, <1>4, <1>5 DEF Bijection, Injection, Surjection, IsInjective
  <2> QED
    BY <2>1 DEF ExistsBijection
<1>7. IsFiniteSet(Q) /\ Cardinality(Q) = Cardinality(P) /\ Cardinality(P) \in Nat
  <2>1. IsFiniteSet(P) /\ Cardinality(P) \in Nat
    BY <1>1, PublicationsFinite
  <2> HIDE DEF P, Q
  <2> QED
    BY <1>6, <2>1, FS_Bijection
<1>8. CASE Head(s).kind = "publish"
  <2>1. Publications(s) = Q \cup {1} /\ 1 \notin Q
    BY <1>1, <1>8 DEF Publications
  <2> HIDE DEF Q
  <2>2. Cardinality(Q \cup {1}) = Cardinality(Q) + 1
    BY <1>7, <2>1, FS_AddElement, Zenon
  <2> QED
    BY <1>7, <1>8, <2>1, <2>2 DEF t
<1>9. CASE Head(s).kind # "publish"
  <2>1. Publications(s) = Q
    BY <1>1, <1>9 DEF Publications
  <2> HIDE DEF Q
  <2> QED
    BY <1>7, <1>9, <2>1 DEF t
<1> QED
  BY <1>8, <1>9

-----------------------------------------------------------------------------
(* What the mirror may miss.                                               *)

(***************************************************************************)
(* The greater of two numbers, which Missed takes.                         *)
(***************************************************************************)
LEMMA MaxOfTwo ==
  ASSUME NEW m \in Nat, NEW n \in Nat
  PROVE  Max({m, n}) = IF m < n THEN n ELSE m
<1>1. CASE m < n
  <2>1. \A x \in {m, n} : (\A y \in {m, n} : x >= y) <=> x = n
    BY <1>1
  <2> QED
    BY <1>1, <2>1 DEF Max
<1>2. CASE ~(m < n)
  <2>1. \A x \in {m, n} : (\A y \in {m, n} : x >= y) <=> x = m
    BY <1>2
  <2> QED
    BY <1>2, <2>1 DEF Max
<1> QED
  BY <1>1, <1>2

(***************************************************************************)
(* A missed command is above all that was missed before.                   *)
(***************************************************************************)
LEMMA MissedEffect ==
  ASSUME TypeOK, NEW k \in Key, NEW n \in 0 .. MaxCommands
  PROVE  /\ Missed(k, n) \in [Key -> 0 .. MaxCommands + 2]
         /\ n < Missed(k, n)[k]
         /\ \A j \in Key : lost[j] <= Missed(k, n)[j]
         /\ \A j \in Key \ {k} : Missed(k, n)[j] = lost[j]
<1>1. lost \in [Key -> 0 .. MaxCommands + 2] /\ MaxCommands \in Nat
  BY BrowserRepositoryAssumption DEF TypeOK
<1>2. lost[k] \in Nat /\ n + 1 \in Nat /\ lost[k] <= MaxCommands + 2 /\ n + 1 <= MaxCommands + 2
  BY <1>1
<1>3. Missed(k, n) = [lost EXCEPT ![k] = IF lost[k] < n + 1 THEN n + 1 ELSE lost[k]]
  BY <1>2, MaxOfTwo, Zenon DEF Missed
<1> QED
  BY <1>1, <1>2, <1>3

-----------------------------------------------------------------------------
(* The inductive invariant.                                                *)

(***************************************************************************)
(* The worker's command, where it is, and what it evicts.                  *)
(***************************************************************************)
Step == {"idle", "start", "point", "clean", "evict", "evicted"}

Task == [command : Command, retried : BOOLEAN, step : Step,
         victim : [key : Key, generation : 0 .. MaxCommands]]

MovedTo(step) ==
  /\ task' \in Task /\ task' # NoTask
  /\ task'.command = task.command /\ task'.step = step

(***************************************************************************)
(* The worker's place, and what kind of command takes it there.            *)
(***************************************************************************)
TaskOK ==
  /\ task.step = "idle" <=> task = NoTask
  /\ task.step # "idle" => task.command.kind \in {"publish", "remove"}
  /\ task.step \in {"point", "evict", "evicted"} => task.command.kind = "publish"

(***************************************************************************)
(* Commands move through the queue, the port and the worker in the order   *)
(* of their numbers, and no pointer is younger than what is under way.     *)
(***************************************************************************)
Waiting == Elements(posted) \cup Elements(commands)

Placed(c) ==
  /\ c.kind \in {"publish", "remove"} /\ 0 < c.sequence /\ c.sequence < next_sequence
  /\ task.command.sequence < c.sequence
  /\ \A k \in Key : pointer[k] < c.sequence

WorkerPlaced ==
  /\ task.step # "idle" => 0 < task.command.sequence
  /\ task.command.sequence < next_sequence
  /\ \A k \in Key :
       /\ pointer[k] < next_sequence
       /\ task.step \in {"start", "point", "evict", "evicted"} =>
            pointer[k] < task.command.sequence

OrderOK ==
  /\ Increasing(commands) /\ Increasing(posted)
  /\ \A p \in Elements(posted), c \in Elements(commands) : p.sequence < c.sequence
  /\ \A c \in Waiting : Placed(c)
  /\ WorkerPlaced

(***************************************************************************)
(* Data before pointer; a removed directory holds nothing, and of what is  *)
(* evicted the pointer goes first.                                         *)
(***************************************************************************)
FilesOK ==
  /\ PointerIsWhole
  /\ stale => \A k \in Key : pointer[k] = 0 /\ data[k] = {}
  /\ task.step = "point" /\ ~stale => task.command.sequence \in data[task.command.key]
  /\ task.step = "clean" /\ ~stale => pointer[task.command.key] = Named(task.command)
  /\ task.step = "evicted" => pointer[task.victim.key] = 0

(***************************************************************************)
(* The last command under way for a key leads to what memory holds, unless *)
(* it is older than what the mirror may miss.                              *)
(***************************************************************************)
Outstanding == Waiting \cup (IF task.step = "idle" THEN {} ELSE {task.command})

LastOfKey(c) == \A d \in Outstanding : d.key = c.key => d.sequence <= c.sequence

MirrorOK ==
  /\ \A c \in Outstanding :
       LastOfKey(c) /\ lost[c.key] <= c.sequence => memory[c.key] = Named(c)
  /\ \A k \in Key :
       lost[k] = 0 /\ (\A c \in Outstanding : c.key # k) =>
         pointer[k] = memory[k] /\ data[k] \subseteq {pointer[k]} \cup undeleted[k]

RepositoryInv == TypeOK /\ TaskOK /\ OrderOK /\ FilesOK /\ MirrorOK /\ CountersAreExact

-----------------------------------------------------------------------------
(* The effects of the actions on what is under way.                        *)

(***************************************************************************)
(* What the type invariant says of the numbers of the page and the worker. *)
(***************************************************************************)
LEMMA Numbers ==
  ASSUME TypeOK
  PROVE  /\ MaxCommands \in Nat /\ MaxQueued \in Nat /\ MaxInFlight \in Nat /\ MaxFaults \in Nat
         /\ next_sequence \in Nat /\ in_flight \in Nat /\ queued_bytes \in Nat
         /\ replies \in Nat /\ faults \in Nat
         /\ \A k \in Key : pointer[k] \in Nat /\ lost[k] \in Nat /\ memory[k] \in Nat
         /\ task.command \in Command /\ task.command.key \in Key
         /\ task.command.sequence \in 0 .. MaxCommands
<1>1. MaxCommands \in Nat /\ MaxQueued \in Nat /\ MaxInFlight \in Nat /\ MaxFaults \in Nat
  BY BrowserRepositoryAssumption
<1>2. next_sequence \in Nat /\ in_flight \in Nat /\ queued_bytes \in Nat
      /\ replies \in Nat /\ faults \in Nat
  BY <1>1 DEF TypeOK
<1>3. \A k \in Key : pointer[k] \in Nat /\ lost[k] \in Nat /\ memory[k] \in Nat
  BY <1>1 DEF TypeOK
<1>4. task.command \in Command
  BY DEF TypeOK
<1> QED
  BY <1>1, <1>2, <1>3, <1>4 DEF Command

(***************************************************************************)
(* The worker without a command.                                           *)
(***************************************************************************)
LEMMA NoTaskType ==
  /\ NoCommand \in Command /\ NoTask.step = "idle" /\ NoTask.command = NoCommand
  /\ NoCommand.sequence = 0
  /\ NoTask \in Task /\ NoVictim \in [key : Key, generation : 0 .. MaxCommands]
<1>1. (CHOOSE k \in Key : TRUE) \in Key
  BY BrowserRepositoryAssumption
<1>2. 0 \in 0 .. MaxCommands
  BY BrowserRepositoryAssumption
<1> QED
  BY <1>1, <1>2 DEF NoCommand, NoTask, NoVictim, Command, Task, Step

(***************************************************************************)
(* What waits in the page's queue or at the worker's port is a command.    *)
(***************************************************************************)
LEMMA WaitingType ==
  ASSUME TypeOK
  PROVE  Elements(commands) \subseteq Command /\ Elements(posted) \subseteq Command
BY DEF TypeOK, Elements

(***************************************************************************)
(* The end of the worker's command.                                        *)
(***************************************************************************)
LEMMA FinishEffect ==
  ASSUME TypeOK, NEW outcome \in {"complete", "failed"}, Finish(outcome)
  PROVE  /\ task' = NoTask /\ replies' = replies + 1
         /\ lost' \in [Key -> 0 .. MaxCommands + 2]
         /\ \A j \in Key \ {task.command.key} : lost'[j] = lost[j]
         /\ outcome = "failed" =>
              /\ task.command.sequence < lost'[task.command.key]
              /\ lost[task.command.key] <= lost'[task.command.key]
         /\ outcome = "complete" =>
              lost'[task.command.key] = IF lost[task.command.key] <= task.command.sequence
                                          THEN 0 ELSE lost[task.command.key]
<1>1. task.command.key \in Key /\ task.command.sequence \in 0 .. MaxCommands
      /\ MaxCommands \in Nat
  BY Numbers
<1>2. lost \in [Key -> 0 .. MaxCommands + 2]
  BY DEF TypeOK
<1>3. CASE outcome = "failed"
  BY <1>1, <1>3, MissedEffect DEF Finish, Reply
<1>4. CASE outcome = "complete"
  BY <1>1, <1>2, <1>4 DEF Finish, Reply
<1> QED
  BY <1>3, <1>4

(***************************************************************************)
(* publish and remove put the youngest command last.                       *)
(***************************************************************************)
LEMMA EnqueueEffect ==
  ASSUME TypeOK, OrderOK, NEW c \in Command, c.sequence = next_sequence,
         commands' = Enqueue(c), UNCHANGED <<posted, task>>
  PROVE  /\ commands' \in Seq(Command)
         /\ Elements(commands') = Elements(commands) \cup {c}
         /\ Increasing(commands')
         /\ Waiting' = Waiting \cup {c}
         /\ Outstanding' = Outstanding \cup {c}
<1>1. commands \in Seq(Command)
  BY DEF TypeOK
<1>2. \A d \in Elements(commands) : d.sequence < c.sequence
  BY DEF OrderOK, Waiting, Placed
<1>3. Elements(commands') = Elements(commands) \cup {c} /\ commands' \in Seq(Command)
      /\ Increasing(commands')
  BY <1>1, <1>2, AppendCommand DEF Enqueue, OrderOK
<1> QED
  BY <1>3 DEF Waiting, Outstanding

(***************************************************************************)
(* pump_commands moves the oldest command of the queue to the port, or     *)
(* drops it.                                                               *)
(***************************************************************************)
LEMMA PumpEffect ==
  ASSUME TypeOK, OrderOK, Pump
  PROVE  LET c == Head(commands)
         IN  /\ commands' \in Seq(Command) /\ posted' \in Seq(Command) /\ c \in Command
             /\ Increasing(commands') /\ Increasing(posted')
             /\ Elements(commands) = Elements(commands') \cup {c}
             /\ \A d \in Elements(commands') : c.sequence < d.sequence
             /\ \/ posted' = Append(posted, c) /\ Elements(posted') = Elements(posted) \cup {c}
                   /\ in_flight' = in_flight + 1 /\ UNCHANGED <<lost, faults>>
                \/ UNCHANGED <<posted, in_flight>> /\ lost' = Missed(c.key, c.sequence)
                   /\ faults < MaxFaults /\ faults' = faults + 1
<1> DEFINE c == Head(commands)
<1>1. commands \in Seq(Command) /\ posted \in Seq(Command)
  BY DEF TypeOK
<1>2. commands # <<>> /\ commands' = Tail(commands) /\ Increasing(commands)
      /\ Increasing(posted)
  BY DEF Pump, OrderOK
<1>3. /\ commands' \in Seq(Command) /\ c \in Command /\ Increasing(commands')
      /\ Elements(commands) = Elements(commands') \cup {c}
      /\ \A d \in Elements(commands') : c.sequence < d.sequence
  BY <1>1, <1>2, TakeCommandOff
<1>4. c \in Elements(commands)
  BY <1>3
<1>5. \A d \in Elements(posted) : d.sequence < c.sequence
  BY <1>4 DEF OrderOK
<1>6. Append(posted, c) \in Seq(Command) /\ Increasing(Append(posted, c))
      /\ Elements(Append(posted, c)) = Elements(posted) \cup {c}
  BY <1>1, <1>2, <1>3, <1>5, AppendCommand
<1> QED
  BY <1>1, <1>2, <1>3, <1>6, Zenon DEF Pump

(***************************************************************************)
(* The worker takes up the oldest command that was posted.                 *)
(***************************************************************************)
LEMMA TakeEffect ==
  ASSUME TypeOK, TaskOK, OrderOK, TakeCommand
  PROVE  LET c == Head(posted)
         IN  /\ posted' \in Seq(Command) /\ c \in Command /\ Increasing(posted')
             /\ Len(posted) = Len(posted') + 1 /\ Len(posted') \in Nat
             /\ Elements(posted) = Elements(posted') \cup {c}
             /\ \A d \in Elements(posted') : c.sequence < d.sequence
             /\ task.step = "idle" /\ task'.step = "start" /\ task'.command = c
             /\ task' \in Task /\ task' # NoTask
<1>1. posted \in Seq(Command) /\ posted # <<>> /\ posted' = Tail(posted) /\ Increasing(posted)
  BY DEF TypeOK, OrderOK, TakeCommand
<1>2. task = NoTask /\ task' = [NoTask EXCEPT !.command = Head(posted), !.step = "start"]
  BY DEF TakeCommand
<1>3. Head(posted) \in Command
  BY <1>1, TakeCommandOff
<1>4. task' = [command |-> Head(posted), step |-> "start", retried |-> FALSE,
               victim |-> NoVictim]
  BY <1>2, Zenon DEF NoTask
<1>5. task' \in Task
  BY <1>3, <1>4, NoTaskType DEF Task, Step
<1> QED
  BY <1>1, <1>2, <1>3, <1>4, <1>5, TakeCommandOff, NoTaskType

(***************************************************************************)
(* The other steps of the worker keep its command.                         *)
(***************************************************************************)
LEMMA Moves ==
  ASSUME TypeOK
  PROVE  /\ WriteData => IF DiskUsed >= Quota THEN MovedTo("evict") ELSE MovedTo("point")
         /\ WritePointer => MovedTo("clean")
         /\ PointerOverQuota => MovedTo("evict")
         /\ RemovePointer /\ ~stale => MovedTo("clean")
         /\ RemoveEvicted => MovedTo("start")
         /\ MeetStale /\ MayRetry => MovedTo("start")
<1>1. task \in Task
  BY DEF TypeOK, Task, Step
<1>2. ASSUME NEW step \in Step \ {"idle"}, task' = [task EXCEPT !.step = step]
      PROVE  MovedTo(step)
  <2>1. task' \in Task /\ task'.command = task.command /\ task'.step = step
    BY <1>1, <1>2 DEF Task
  <2> QED
    BY <2>1, NoTaskType DEF MovedTo
<1>3. ASSUME task' = [task EXCEPT !.step = "start", !.retried = TRUE]
      PROVE  MovedTo("start")
  <2>1. task' \in Task /\ task'.command = task.command /\ task'.step = "start"
    BY <1>1, <1>3, Zenon DEF Task, Step
  <2> QED
    BY <2>1, NoTaskType DEF MovedTo
<1>4. ASSUME task' = [task EXCEPT !.step = "start", !.victim = NoVictim]
      PROVE  MovedTo("start")
  <2>1. task' \in Task /\ task'.command = task.command /\ task'.step = "start"
    BY <1>1, <1>4, NoTaskType, Zenon DEF Task, Step
  <2> QED
    BY <2>1, NoTaskType DEF MovedTo
<1>5. "point" \in Step \ {"idle"} /\ "clean" \in Step \ {"idle"} /\ "evict" \in Step \ {"idle"}
  BY DEF Step
<1>6. WriteData => IF DiskUsed >= Quota THEN MovedTo("evict") ELSE MovedTo("point")
  BY <1>2, <1>5 DEF WriteData
<1>7. /\ WritePointer => MovedTo("clean")
      /\ PointerOverQuota => MovedTo("evict")
      /\ RemovePointer /\ ~stale => MovedTo("clean")
  BY <1>2, <1>5 DEF WritePointer, PointerOverQuota, RemovePointer
<1>8. /\ RemoveEvicted => MovedTo("start")
      /\ MeetStale /\ MayRetry => MovedTo("start")
  BY <1>3, <1>4 DEF RemoveEvicted, MeetStale
<1> QED
  BY <1>6, <1>7, <1>8

(***************************************************************************)
(* Files that the worker removes.                                          *)
(***************************************************************************)
LEMMA DiscardEffect ==
  ASSUME TypeOK, NEW kept, Discard(kept)
  PROVE  /\ data' \in [Key -> SUBSET (1 .. MaxCommands)]
         /\ \A k \in Key : data'[k] = data[k] \ (Discards(k) \ kept)
         /\ \A k \in Key : data'[k] \subseteq data[k]
<1>1. data \in [Key -> SUBSET (1 .. MaxCommands)]
  BY DEF TypeOK
<1>2. data' = [k \in Key |-> data[k] \ (Discards(k) \ kept)]
  BY DEF Discard
<1> QED
  BY <1>1, <1>2

(***************************************************************************)
(* cleanupOldData removes the other generations of the command's key.      *)
(***************************************************************************)
LEMMA CleanDiscards ==
  ASSUME TypeOK, task.step = "clean"
  PROVE  /\ Discards(task.command.key) = OldData(task.command.key, Named(task.command))
         /\ \A k \in Key \ {task.command.key} : Discards(k) = {}
         /\ AllDiscards \subseteq data[task.command.key]
<1>1. Discards(task.command.key) = OldData(task.command.key, Named(task.command))
  BY DEF Discards
<1>2. \A k \in Key \ {task.command.key} : Discards(k) = {}
  BY DEF Discards
<1>3. OldData(task.command.key, Named(task.command)) \subseteq data[task.command.key]
  BY DEF OldData
<1> QED
  BY <1>1, <1>2, <1>3, Numbers DEF AllDiscards

(***************************************************************************)
(* The worker removes no file that a pointer names.                        *)
(***************************************************************************)
LEMMA DiscardKeepsNamed ==
  ASSUME TypeOK, OrderOK, FilesOK, NEW k \in Key, pointer[k] # 0
  PROVE  pointer[k] \notin Discards(k)
<1>1. CASE task.step = "point" /\ k = task.command.key
  <2>1. pointer[k] < task.command.sequence /\ pointer[k] \in Nat /\ task.command.sequence \in Nat
    BY <1>1, Numbers DEF OrderOK, WorkerPlaced
  <2>2. Discards(k) = {task.command.sequence}
    BY <1>1 DEF Discards
  <2> QED
    BY <2>1, <2>2
<1>2. CASE task.step = "clean" /\ k = task.command.key
  <2>1. pointer[k] = Named(task.command)
    BY <1>2 DEF FilesOK
  <2>2. Discards(k) = OldData(k, Named(task.command))
    BY <1>2 DEF Discards
  <2> QED
    BY <2>1, <2>2 DEF OldData
<1>3. CASE task.step = "evict"
  BY <1>3 DEF Discards, OldData
<1>4. CASE task.step = "evicted"
  <2>1. k # task.victim.key
    BY <1>4 DEF FilesOK
  <2> QED
    BY <1>4, <2>1 DEF Discards
<1>5. CASE ~(task.step = "point" /\ k = task.command.key)
           /\ ~(task.step = "clean" /\ k = task.command.key)
           /\ task.step # "evict" /\ task.step # "evicted"
  BY <1>5 DEF Discards
<1> QED
  BY <1>1, <1>2, <1>3, <1>4, <1>5

(***************************************************************************)
(* The artifact that is evicted is one of another key.                     *)
(***************************************************************************)
LEMMA EvictEffect ==
  ASSUME TypeOK, Evict, Candidates # {}
  PROVE  \E oldest \in Key \ {task.command.key} :
           /\ pointer' = [pointer EXCEPT ![oldest] = 0]
           /\ lost' = Missed(oldest, task.command.sequence)
           /\ MovedTo("evicted") /\ task'.victim.key = oldest /\ UNCHANGED replies
<1> DEFINE Oldest(k) == \A other \in Candidates : pointer[k] <= pointer[other]
           oldest == CHOOSE k \in Candidates : Oldest(k)
<1>1. Candidates \subseteq Key \ {task.command.key} /\ Candidates # {}
  BY DEF Candidates
<1>2. \E k \in Candidates : Oldest(k)
  <2> DEFINE Older(k) == {j \in Key : pointer[j] < pointer[k]}
             T == {Older(k) : k \in Candidates}
             R == StrictSubsetOrdering(Key)
  <2>1. T \subseteq FiniteSubsetsOf(Key) /\ T # {}
    <3>1. ASSUME NEW k \in Candidates PROVE Older(k) \in FiniteSubsetsOf(Key)
      <4>1. Older(k) \subseteq Key /\ IsFiniteSet(Key)
        BY BrowserRepositoryAssumption
      <4> HIDE DEF Older
      <4> QED
        BY <4>1, FS_Subset DEF FiniteSubsetsOf
    <3> QED
      BY <1>1, <3>1, Zenon
  <2>2. IsWellFoundedOn(R, FiniteSubsetsOf(Key))
    BY FS_StrictSubsetOrderingWellFounded
  <2>3. PICK x \in T : \A y \in T : ~(<<y, x>> \in R)
    <3> HIDE DEF T, R
    <3> QED
      BY <2>1, <2>2, WFMin
  <2>4. PICK k \in Candidates : x = Older(k)
    OBVIOUS
  <2>5. ASSUME NEW n \in Candidates, pointer[n] < pointer[k] PROVE FALSE
    <3>1. n \in Key /\ k \in Key /\ \A j \in Key : pointer[j] \in Nat
      BY <1>1, Numbers
    <3>2. Older(n) \subseteq Older(k) /\ n \in Older(k) /\ n \notin Older(n)
      BY <2>5, <3>1
    <3>3. <<Older(n), Older(k)>> \in R
      BY <3>2 DEF StrictSubsetOrdering
    <3> QED
      BY <2>3, <2>4, <3>3
  <2> QED
    BY <1>1, <2>5, Numbers
<1>3. oldest \in Candidates
  BY <1>2
<1>4. /\ pointer' = [pointer EXCEPT ![oldest] = 0]
      /\ lost' = Missed(oldest, task.command.sequence)
      /\ task' = [task EXCEPT !.step = "evicted",
                              !.victim = [key |-> oldest, generation |-> pointer[oldest]]]
      /\ UNCHANGED replies
  BY DEF Evict
<1> HIDE DEF oldest
<1>5. MovedTo("evicted") /\ task'.victim.key = oldest
  <2>1. oldest \in Key /\ pointer[oldest] \in 0 .. MaxCommands
    BY <1>1, <1>3 DEF TypeOK
  <2>2. task \in Task
    BY DEF TypeOK, Task, Step
  <2>3. task' \in Task /\ task'.command = task.command /\ task'.step = "evicted"
        /\ task'.victim.key = oldest
    BY <1>4, <2>1, <2>2, Zenon DEF Task, Step
  <2> QED
    BY <2>3, NoTaskType DEF MovedTo
<1> QED
  BY <1>1, <1>3, <1>4, <1>5, Zenon

(***************************************************************************)
(* What is lost with the site's data: commands before those under way.     *)
(***************************************************************************)
LEMMA LossEffect ==
  ASSUME TypeOK, TaskOK, OrderOK, SiteDataLost
  PROVE  /\ lost' \in [Key -> 0 .. MaxCommands + 2]
         /\ \A k \in Key : lost[k] <= lost'[k] /\ lost'[k] # 0
<1>1. OldestUnderWay \in 1 .. MaxCommands + 1
  <2>1. next_sequence \in 1 .. MaxCommands + 1 /\ MaxCommands \in Nat
    BY Numbers DEF TypeOK
  <2>2. CASE task # NoTask
    BY <2>1, <2>2, Numbers DEF OldestUnderWay, TaskOK, OrderOK, WorkerPlaced
  <2>3. ASSUME NEW s \in {posted, commands}, s # <<>>
        PROVE  Head(s).sequence \in 1 .. MaxCommands + 1
    <3>1. s \in Seq(Command)
      BY <2>3 DEF TypeOK
    <3>2. Head(s) \in Command /\ Head(s) \in Elements(s)
      BY <2>3, <3>1, TakeCommandOff
    <3>3. Head(s) \in Waiting
      BY <2>3, <3>2 DEF Waiting
    <3>4. 0 < Head(s).sequence
      BY <3>3 DEF OrderOK, Placed
    <3>5. Head(s).sequence \in 0 .. MaxCommands
      BY <3>2 DEF Command
    <3> QED
      BY <2>1, <3>4, <3>5
  <2> QED
    BY <2>1, <2>2, <2>3 DEF OldestUnderWay
<1>2. \A k \in Key : lost'[k] = Max({lost[k], OldestUnderWay})
  BY DEF SiteDataLost
<1>3. lost \in [Key -> 0 .. MaxCommands + 2] /\ MaxCommands \in Nat
  BY Numbers, Zenon DEF TypeOK
<1>4. ASSUME NEW k \in Key
      PROVE  lost'[k] = IF lost[k] < OldestUnderWay THEN OldestUnderWay ELSE lost[k]
  <2>1. lost[k] \in Nat /\ OldestUnderWay \in Nat
    BY <1>1, <1>3
  <2> QED
    BY <1>2, <2>1, MaxOfTwo, Zenon
<1>5. ASSUME NEW k \in Key
      PROVE  lost'[k] \in 0 .. MaxCommands + 2 /\ lost[k] <= lost'[k] /\ lost'[k] # 0
  BY <1>1, <1>3, <1>4
<1>6. lost' = [k \in Key |-> Max({lost[k], OldestUnderWay})]
  BY DEF SiteDataLost
<1>7. lost' = [k \in Key |-> lost'[k]]
  BY <1>6
<1> QED
  BY <1>5, <1>7

(***************************************************************************)
(* What a page finds when it is opened.                                    *)
(***************************************************************************)
LEMMA ReloadEffect ==
  ASSUME Reload
  PROVE  \E unfit \in SUBSET Key, kept \in SUBSET UNION {OldData(k, Loaded[k]) : k \in Key} :
           /\ faults' = (IF unfit = {} /\ kept = {} THEN faults + 1 ELSE faults + 2)
           /\ faults' <= MaxFaults
           /\ pointer' = [k \in Key |-> IF k \in unfit THEN pointer[k] ELSE Loaded[k]]
           /\ undeleted' = [k \in Key |-> data[k] \cap kept]
           /\ data' = [k \in Key |-> data[k] \cap ({pointer'[k]} \cup kept)]
           /\ lost' = [k \in Key |-> IF k \in unfit THEN next_sequence ELSE 0]
<1>1. PICK unfit \in SUBSET {k \in Key : pointer[k] # Loaded[k]},
           kept \in SUBSET UNION {OldData(k, Loaded[k]) : k \in Key} :
        /\ faults' = (IF unfit = {} /\ kept = {} THEN faults + 1 ELSE faults + 2)
        /\ faults' <= MaxFaults
        /\ pointer' = [k \in Key |-> IF k \in unfit THEN pointer[k] ELSE Loaded[k]]
        /\ undeleted' = [k \in Key |-> data[k] \cap kept]
        /\ data' = [k \in Key |-> data[k] \cap ({pointer'[k]} \cup kept)]
        /\ lost' = [k \in Key |-> IF k \in unfit THEN next_sequence ELSE 0]
  BY Zenon DEF Reload
<1>2. unfit \in SUBSET Key
  OBVIOUS
<1> QED
  BY <1>1, <1>2, Zenon

-----------------------------------------------------------------------------
(* One lemma per part of the invariant, one step per action.               *)

PageActions == (\E k \in Key : Publish(k) \/ Remove(k)) \/ Pump \/ HandleReply \/ HandleError

(***************************************************************************)
(* Types.                                                                  *)
(***************************************************************************)
LEMMA TypeStep == RepositoryInv /\ [Next]_vars => TypeOK'
<1> SUFFICES ASSUME RepositoryInv, [Next]_vars PROVE TypeOK'
  OBVIOUS
<1>0. TypeOK /\ TaskOK /\ OrderOK
  BY DEF RepositoryInv
<1>m. memory \in [Key -> 0 .. MaxCommands] /\ pointer \in [Key -> 0 .. MaxCommands]
  BY <1>0 DEF TypeOK
<1>d. data \in [Key -> SUBSET (1 .. MaxCommands)] /\ lost \in [Key -> 0 .. MaxCommands + 2]
      /\ undeleted \in [Key -> SUBSET (1 .. MaxCommands)]
  BY <1>0 DEF TypeOK
<1>q. commands \in Seq(Command) /\ posted \in Seq(Command)
  BY <1>0 DEF TypeOK
<1>c. /\ queued_bytes \in 0 .. MaxQueued /\ in_flight \in 0 .. MaxInFlight
      /\ next_sequence \in 1 .. MaxCommands + 1 /\ replies \in Nat /\ faults \in 0 .. MaxFaults
      /\ MaxCommands \in Nat /\ MaxQueued \in Nat /\ MaxInFlight \in Nat /\ MaxFaults \in Nat
  BY <1>0, BrowserRepositoryAssumption DEF TypeOK
<1>k. task.command.key \in Key /\ task.command.sequence \in 0 .. MaxCommands
  BY <1>0, Numbers
<1>v. ASSUME NEW t \in Task
      PROVE  t \in [command : Command, retried : BOOLEAN,
                    step : {"idle", "start", "point", "clean", "evict", "evicted"},
                    victim : [key : Key, generation : 0 .. MaxCommands]]
  BY DEF Task, Step
<1>b. stale \in BOOLEAN
  BY <1>0 DEF TypeOK
<1>w. ASSUME task' \in Task, replies' \in {replies, replies + 1},
             lost' \in [Key -> 0 .. MaxCommands + 2], pointer' \in [Key -> 0 .. MaxCommands],
             data' \in [Key -> SUBSET (1 .. MaxCommands)],
             undeleted' \in [Key -> SUBSET (1 .. MaxCommands)],
             faults' \in 0 .. MaxFaults, stale' \in BOOLEAN, OnlyWorker
      PROVE  TypeOK'
  <2>1. replies' \in Nat
    BY <1>c, <1>w
  <2>2. task' \in [command : Command, retried : BOOLEAN,
                   step : {"idle", "start", "point", "clean", "evict", "evicted"},
                   victim : [key : Key, generation : 0 .. MaxCommands]]
    BY <1>v, <1>w
  <2>3. UNCHANGED <<memory, commands, queued_bytes, in_flight, next_sequence, posted, miscounted>>
    BY <1>w DEF OnlyWorker, mirror
  <2> QED
    BY <1>0, <1>w, <2>1, <2>2, <2>3, Zenon DEF TypeOK
<1> USE <1>0
<1>1. ASSUME NEW k \in Key, Publish(k) PROVE TypeOK'
  <2> DEFINE c == [kind |-> "publish", key |-> k, sequence |-> next_sequence]
  <2>1. next_sequence \in 0 .. MaxCommands /\ c \in Command
    BY <1>c, <1>1 DEF Publish, Command
  <2>2. lost' \in [Key -> 0 .. MaxCommands + 2]
    BY <1>d, <1>c, <1>1, <2>1, MissedEffect DEF Publish
  <2>3. commands' \in Seq(Command)
    BY <1>q, <1>1, <2>1, AppendCommand, Zenon DEF Publish, Enqueue
  <2>4. memory' \in [Key -> 0 .. MaxCommands] /\ queued_bytes' \in 0 .. MaxQueued
        /\ next_sequence' \in 1 .. MaxCommands + 1
    BY <1>m, <1>c, <1>1, <2>1 DEF Publish
  <2> QED
    BY <1>1, <2>2, <2>3, <2>4, Zenon DEF Publish, files, TypeOK
<1>2. ASSUME NEW k \in Key, Remove(k) PROVE TypeOK'
  <2> DEFINE c == [kind |-> "remove", key |-> k, sequence |-> next_sequence]
  <2>1. next_sequence \in 0 .. MaxCommands /\ c \in Command
    BY <1>c, <1>2 DEF Remove, Command
  <2>2. commands' \in Seq(Command)
    BY <1>q, <1>2, <2>1, AppendCommand DEF Remove, Enqueue
  <2>3. memory' \in [Key -> 0 .. MaxCommands] /\ next_sequence' \in 1 .. MaxCommands + 1
    BY <1>m, <1>c, <1>2, <2>1 DEF Remove
  <2> QED
    BY <1>2, <2>2, <2>3, Zenon DEF Remove, files, TypeOK
<1>3. CASE Pump
  <2>1. commands' \in Seq(Command) /\ posted' \in Seq(Command) /\ Head(commands) \in Command
    BY <1>3, PumpEffect
  <2>2. Head(commands).key \in Key /\ Head(commands).sequence \in 0 .. MaxCommands
    BY <2>1 DEF Command
  <2>3. lost' \in [Key -> 0 .. MaxCommands + 2]
    <3>1. lost' = lost \/ lost' = Missed(Head(commands).key, Head(commands).sequence)
      BY <1>3 DEF Pump
    <3> QED
      BY <1>d, <2>2, <3>1, MissedEffect
  <2>4. queued_bytes' \in 0 .. MaxQueued
    <3>1. commands \in Seq(Command) /\ commands # <<>> /\ queued_bytes \in 0 .. MaxQueued
      BY <1>q, <1>c, <1>3 DEF Pump
    <3>2. queued_bytes = Cardinality(Publications(commands))
      BY DEF RepositoryInv, CountersAreExact, Publications
    <3>3. Cardinality(Publications(Tail(commands))) \in Nat
      BY <3>1, TakeCommandOff, PublicationsFinite, Zenon
    <3>4. queued_bytes' = Cardinality(Publications(Tail(commands)))
      BY <1>3, <3>1, <3>2, <3>3, CountTail DEF Pump, ByteCount
    <3>5. queued_bytes' <= queued_bytes
      BY <1>c, <1>3, <3>1 DEF Pump, ByteCount
    <3> QED
      BY <1>c, <3>1, <3>3, <3>4, <3>5
  <2>5. in_flight' \in 0 .. MaxInFlight /\ faults' \in 0 .. MaxFaults
    BY <1>c, <1>3 DEF Pump
  <2> QED
    BY <1>3, <2>1, <2>3, <2>4, <2>5, Zenon DEF Pump, files, TypeOK
<1>4. CASE HandleReply
  <2>1. in_flight' \in 0 .. MaxInFlight /\ replies' \in Nat
    BY <1>c, <1>4 DEF HandleReply, AfterReply
  <2> QED
    BY <1>4, <2>1, Zenon DEF HandleReply, files, TypeOK
<1>5. CASE HandleError
  <2>1. in_flight' \in 0 .. MaxInFlight /\ faults' \in 0 .. MaxFaults /\ miscounted' \in BOOLEAN
    BY <1>c, <1>5 DEF HandleError
  <2> QED
    BY <1>5, <2>1, Zenon DEF HandleError, files, TypeOK
<1>6. CASE TakeCommand
  BY <1>6, <1>v, TakeEffect, Zenon DEF TakeCommand, mirror, files, TypeOK
<1>7. CASE WriteData
  <2>1. data' \in [Key -> SUBSET (1 .. MaxCommands)]
    <3>1. task.command.sequence \in 1 .. MaxCommands
      BY <1>c, <1>k, <1>7 DEF WriteData, AtStep, OrderOK, WorkerPlaced
    <3> QED
      BY <1>d, <1>k, <1>7, <3>1 DEF WriteData
  <2>2. task' \in Task
    BY <1>7, Moves DEF MovedTo
  <2> QED
    BY <1>7, <1>b, <1>c, <1>d, <1>m, <1>w, <2>1, <2>2 DEF WriteData
<1>8. CASE WritePointer
  <2>1. pointer' \in [Key -> 0 .. MaxCommands]
    BY <1>m, <1>c, <1>k, <1>8 DEF WritePointer
  <2>2. task' \in Task
    BY <1>8, Moves DEF MovedTo
  <2> QED
    BY <1>8, <1>b, <1>c, <1>d, <1>w, <2>1, <2>2 DEF WritePointer
<1>18. CASE PointerOverQuota
  <2>1. data' \in [Key -> SUBSET (1 .. MaxCommands)]
    BY <1>18, DiscardEffect DEF PointerOverQuota
  <2>2. task' \in Task
    BY <1>18, Moves DEF MovedTo
  <2>3. faults' \in 0 .. MaxFaults
    BY <1>c, <1>18 DEF PointerOverQuota
  <2> QED
    BY <1>18, <1>b, <1>d, <1>m, <1>w, <2>1, <2>2, <2>3, Zenon DEF PointerOverQuota
<1>r. ASSUME NEW kept, Refuses(kept) PROVE faults' \in 0 .. MaxFaults
  BY <1>c, <1>r DEF Refuses
<1>9. CASE CleanUp
  <2>1. PICK kept \in SUBSET AllDiscards :
          /\ Refuses(kept) /\ Discard(kept)
          /\ undeleted' = [undeleted EXCEPT ![task.command.key] = kept]
    BY <1>9, Zenon DEF CleanUp
  <2>2. data' \in [Key -> SUBSET (1 .. MaxCommands)]
    BY <2>1, DiscardEffect
  <2>3. kept \subseteq 1 .. MaxCommands
    <3>1. AllDiscards \subseteq data[task.command.key]
      BY <1>9, CleanDiscards DEF CleanUp
    <3> QED
      BY <1>d, <1>k, <3>1
  <2>4. undeleted' \in [Key -> SUBSET (1 .. MaxCommands)]
    BY <1>d, <1>k, <2>1, <2>3
  <2>5. faults' \in 0 .. MaxFaults
    BY <1>r, <2>1, Zenon
  <2>6. task' = NoTask /\ replies' = replies + 1 /\ lost' \in [Key -> 0 .. MaxCommands + 2]
    BY <1>9, FinishEffect DEF CleanUp
  <2> QED
    BY <1>9, <1>b, <1>m, <1>w, <2>2, <2>4, <2>5, <2>6, NoTaskType, Zenon DEF CleanUp
<1>10. CASE RemovePointer
  <2>1. CASE stale
    <3>1. task' = NoTask /\ replies' = replies + 1 /\ lost' \in [Key -> 0 .. MaxCommands + 2]
          /\ UNCHANGED pointer
      BY <1>10, <2>1, FinishEffect DEF RemovePointer
    <3> QED
      BY <1>10, <1>b, <1>c, <1>d, <1>m, <1>w, <3>1, NoTaskType, Zenon DEF RemovePointer
  <2>2. CASE ~stale
    <3>1. pointer' \in [Key -> 0 .. MaxCommands]
      BY <1>m, <1>c, <1>k, <1>10, <2>2 DEF RemovePointer
    <3>2. task' \in Task
      BY <1>10, <2>2, Moves DEF MovedTo
    <3> QED
      BY <1>10, <1>b, <1>c, <1>d, <1>w, <2>2, <3>1, <3>2, Zenon DEF RemovePointer
  <2> QED
    BY <2>1, <2>2
<1>11. CASE Evict
  <2>1. PICK kept \in SUBSET AllDiscards : Refuses(kept) /\ Discard(kept)
    BY <1>11 DEF Evict
  <2>2. data' \in [Key -> SUBSET (1 .. MaxCommands)] /\ faults' \in 0 .. MaxFaults
    BY <1>r, <2>1, DiscardEffect
  <2>3. OnlyWorker /\ UNCHANGED <<stale, undeleted>>
    BY <1>11 DEF Evict
  <2>4. CASE Candidates = {}
    <3>1. /\ task' = NoTask /\ replies' = replies + 1 /\ UNCHANGED pointer
          /\ lost' \in [Key -> 0 .. MaxCommands + 2]
      BY <1>11, <2>4, FinishEffect DEF Evict
    <3> QED
      BY <1>b, <1>d, <1>m, <1>w, <2>2, <2>3, <3>1, NoTaskType, Zenon
  <2>5. CASE Candidates # {}
    <3>1. PICK oldest \in Key : pointer' = [pointer EXCEPT ![oldest] = 0]
                                /\ lost' = Missed(oldest, task.command.sequence)
                                /\ MovedTo("evicted") /\ UNCHANGED replies
      BY <1>11, <2>5, EvictEffect
    <3>2. pointer' \in [Key -> 0 .. MaxCommands]
      BY <1>m, <1>c, <1>k, <3>1
    <3>3. lost' \in [Key -> 0 .. MaxCommands + 2]
      BY <1>k, <3>1, MissedEffect
    <3>4. task' \in Task
      BY <3>1 DEF MovedTo
    <3> QED
      BY <1>b, <1>d, <1>w, <2>2, <2>3, <3>1, <3>2, <3>3, <3>4, Zenon
  <2> QED
    BY <2>4, <2>5
<1>12. CASE RemoveEvicted
  <2>1. data' \in [Key -> SUBSET (1 .. MaxCommands)]
    BY <1>12, DiscardEffect DEF RemoveEvicted
  <2>2. task' \in Task
    BY <1>12, Moves DEF MovedTo
  <2> QED
    BY <1>12, <1>b, <1>c, <1>d, <1>m, <1>w, <2>1, <2>2, Zenon DEF RemoveEvicted
<1>13. CASE MeetStale
  <2>1. OnlyWorker /\ UNCHANGED <<pointer, data, undeleted, faults>> /\ stale' \in BOOLEAN
    BY <1>13, <1>b, Zenon DEF MeetStale, files
  <2>2. CASE MayRetry
    <3>1. task' \in Task /\ UNCHANGED <<replies, lost>>
      BY <1>13, <2>2, Moves, Zenon DEF MovedTo, MeetStale
    <3> QED
      BY <1>c, <1>d, <1>m, <1>w, <2>1, <3>1
  <2>3. CASE ~MayRetry
    <3>1. /\ task' = NoTask /\ replies' = replies + 1
          /\ lost' \in [Key -> 0 .. MaxCommands + 2]
      BY <1>13, <2>3, FinishEffect DEF MeetStale
    <3> QED
      BY <1>c, <1>d, <1>m, <1>w, <2>1, <3>1, NoTaskType
  <2> QED
    BY <2>2, <2>3
<1>14. CASE CommandFails
  <2>1. data' \in [Key -> SUBSET (1 .. MaxCommands)]
    BY <1>14, DiscardEffect DEF CommandFails
  <2>2. faults' \in 0 .. MaxFaults
    BY <1>c, <1>14 DEF CommandFails
  <2>3. task' = NoTask /\ replies' = replies + 1 /\ lost' \in [Key -> 0 .. MaxCommands + 2]
    BY <1>14, FinishEffect, Zenon DEF CommandFails
  <2> QED
    BY <1>14, <1>b, <1>d, <1>m, <1>w, <2>1, <2>2, <2>3, NoTaskType, Zenon DEF CommandFails
<1>15. CASE SiteDataLost
  <2>1. lost' \in [Key -> 0 .. MaxCommands + 2] /\ faults' \in 0 .. MaxFaults
    BY <1>c, <1>15, LossEffect DEF SiteDataLost
  <2>2. pointer' \in [Key -> 0 .. MaxCommands] /\ data' \in [Key -> SUBSET (1 .. MaxCommands)]
    BY <1>c, <1>15 DEF SiteDataLost, Empty, NoFiles
  <2>3. stale' \in BOOLEAN
    BY <1>15 DEF SiteDataLost
  <2> QED
    BY <1>15, <2>1, <2>2, <2>3, Zenon DEF SiteDataLost, mirror, TypeOK
<1>16. CASE Reload
  <2>1. Loaded \in [Key -> 0 .. MaxCommands]
    <3>1. 0 \in 0 .. MaxCommands /\ \A k \in Key : pointer[k] \in 0 .. MaxCommands
      BY <1>m, <1>c
    <3> QED
      BY <3>1 DEF Loaded
  <2>2. PICK unfit \in SUBSET Key, kept \in SUBSET UNION {OldData(k, Loaded[k]) : k \in Key} :
          /\ faults' = (IF unfit = {} /\ kept = {} THEN faults + 1 ELSE faults + 2)
          /\ faults' <= MaxFaults
          /\ pointer' = [k \in Key |-> IF k \in unfit THEN pointer[k] ELSE Loaded[k]]
          /\ undeleted' = [k \in Key |-> data[k] \cap kept]
          /\ data' = [k \in Key |-> data[k] \cap ({pointer'[k]} \cup kept)]
          /\ lost' = [k \in Key |-> IF k \in unfit THEN next_sequence ELSE 0]
    BY <1>16, ReloadEffect, Zenon
  <2>3. commands' \in Seq(Command) /\ posted' \in Seq(Command)
    BY <1>16 DEF Reload
  <2>4. lost' \in [Key -> 0 .. MaxCommands + 2]
    BY <1>c, <2>2
  <2>5. /\ queued_bytes' \in 0 .. MaxQueued /\ in_flight' \in 0 .. MaxInFlight
        /\ replies' \in Nat
    BY <1>c, <1>16 DEF Reload
  <2>6. stale' \in BOOLEAN /\ miscounted' \in BOOLEAN
    BY <1>16, Zenon DEF Reload
  <2>7. data' \in [Key -> SUBSET (1 .. MaxCommands)]
        /\ undeleted' \in [Key -> SUBSET (1 .. MaxCommands)]
    BY <1>d, <2>2
  <2>8. pointer' \in [Key -> 0 .. MaxCommands]
    BY <1>m, <2>1, <2>2
  <2>9. faults' \in 0 .. MaxFaults
    BY <1>c, <2>2
  <2>10. memory' \in [Key -> 0 .. MaxCommands] /\ task' = NoTask /\ UNCHANGED next_sequence
    BY <1>16, <2>1 DEF Reload
  <2> QED
    BY <1>v, <2>3, <2>4, <2>5, <2>6, <2>7, <2>8, <2>9, <2>10, NoTaskType, Zenon DEF TypeOK
<1>17. CASE UNCHANGED vars
  BY <1>17, Zenon DEF vars, mirror, files, TypeOK
<1> QED
  BY <1>1, <1>2, <1>3, <1>4, <1>5, <1>6, <1>7, <1>8, <1>9, <1>10, <1>11, <1>12, <1>13, <1>14,
     <1>15, <1>16, <1>17, <1>18, Zenon DEF Next, Work

(***************************************************************************)
(* The worker's place.                                                     *)
(***************************************************************************)
LEMMA TaskStep == RepositoryInv /\ [Next]_vars => TaskOK'
<1> SUFFICES ASSUME RepositoryInv, [Next]_vars PROVE TaskOK'
  OBVIOUS
<1>0. TypeOK /\ TaskOK /\ OrderOK
  BY DEF RepositoryInv
<1> USE <1>0, NoTaskType
<1>1. ASSUME task' = NoTask PROVE TaskOK'
  BY <1>1 DEF TaskOK
<1>2. ASSUME UNCHANGED task PROVE TaskOK'
  BY <1>2, Zenon DEF TaskOK
<1>3. CASE TakeCommand
  <2>1. Head(posted) \in Waiting
    BY <1>3, TakeEffect DEF Waiting
  <2> QED
    BY <1>3, <2>1, TakeEffect, Zenon DEF TaskOK, OrderOK, Placed
<1>4. ASSUME NEW step \in {"start", "point", "clean", "evict", "evicted"}, MovedTo(step),
             task.command.kind \in {"publish", "remove"},
             step \in {"point", "evict", "evicted"} => task.command.kind = "publish"
      PROVE  TaskOK'
  BY <1>4, Zenon DEF TaskOK, MovedTo
<1>5. CASE WriteData \/ WritePointer \/ PointerOverQuota \/ RemoveEvicted
  BY <1>4, <1>5, Moves, Zenon DEF WriteData, WritePointer, PointerOverQuota, RemoveEvicted, AtStep
<1>6. CASE RemovePointer \/ CleanUp \/ CommandFails
  BY <1>1, <1>4, <1>6, Moves DEF RemovePointer, CleanUp, CommandFails, AtStep, Finish
<1>7. CASE Evict
  <2>1. CASE Candidates = {}
    BY <1>1, <1>7, <2>1 DEF Evict, Finish
  <2>2. CASE Candidates # {}
    BY <1>4, <1>7, <2>2, EvictEffect DEF Evict, AtStep
  <2> QED
    BY <2>1, <2>2
<1>8. CASE MeetStale
  <2>1. CASE MayRetry
    BY <1>4, <1>8, <2>1, Moves, Zenon DEF MeetStale, AtStep
  <2>2. CASE ~MayRetry
    BY <1>1, <1>8, <2>2 DEF MeetStale, Finish
  <2> QED
    BY <2>1, <2>2
<1>9. CASE PageActions \/ SiteDataLost \/ UNCHANGED vars
  BY <1>2, <1>9, Zenon DEF PageActions, Publish, Remove, Pump, HandleReply, HandleError, SiteDataLost,
                    vars
<1>10. CASE Reload
  BY <1>1, <1>10 DEF Reload
<1> QED
  BY <1>3, <1>5, <1>6, <1>7, <1>8, <1>9, <1>10, Zenon DEF Next, Work, PageActions

(***************************************************************************)
(* The order of commands.                                                  *)
(***************************************************************************)
LEMMA OrderStep == RepositoryInv /\ [Next]_vars => OrderOK'
<1> SUFFICES ASSUME RepositoryInv, [Next]_vars PROVE OrderOK'
  OBVIOUS
<1>0. TypeOK /\ TaskOK /\ OrderOK /\ FilesOK
  BY DEF RepositoryInv
<1>t. TypeOK'
  BY TypeStep
<1>n. /\ next_sequence \in Nat /\ task.command.sequence \in Nat
      /\ \A k \in Key : pointer[k] \in Nat
      /\ \A c \in Waiting : c.sequence \in Nat
  BY <1>0, Numbers, WaitingType DEF Waiting, Command
<1>p. /\ next_sequence' \in Nat /\ task'.command.sequence \in Nat
      /\ \A k \in Key : pointer'[k] \in Nat
  <2>1. MaxCommands \in Nat
    BY BrowserRepositoryAssumption
  <2>2. next_sequence' \in Nat /\ \A k \in Key : pointer'[k] \in Nat
    BY <1>t, <2>1 DEF TypeOK
  <2>3. task'.command \in Command
    BY <1>t DEF TypeOK
  <2> QED
    BY <2>1, <2>2, <2>3 DEF Command
<1> DEFINE Before == {"start", "point", "evict", "evicted"}
<1>a. ASSUME UNCHANGED <<commands, posted, next_sequence>>,
             task'.command.sequence <= task.command.sequence,
             \A k \in Key : pointer'[k] <= pointer[k],
             task'.step # "idle" => task'.command = task.command /\ task.step # "idle",
             task'.step \in Before => task.step \in Before
      PROVE  OrderOK'
  <2>1. Waiting' = Waiting
    BY <1>a DEF Waiting
  <2>2. ASSUME NEW c \in Waiting PROVE Placed(c)'
    BY <1>0, <1>a, <1>n, <1>p, <2>2 DEF OrderOK, Placed
  <2>3. WorkerPlaced'
    BY <1>0, <1>a, <1>n, <1>p DEF OrderOK, WorkerPlaced
  <2> QED
    BY <1>0, <1>a, <2>1, <2>2, <2>3 DEF OrderOK
<1>b. ASSUME UNCHANGED <<commands, posted, next_sequence, pointer>>,
             task' = NoTask \/ (task'.command = task.command /\ task.step # "idle"
                                /\ (task'.step \in Before => task.step \in Before))
      PROVE  OrderOK'
  BY <1>a, <1>b, <1>n, NoTaskType
<1>c. ASSUME NEW c \in Command, c.kind \in {"publish", "remove"}, c.sequence = next_sequence,
             commands' = Enqueue(c), next_sequence' = next_sequence + 1,
             UNCHANGED <<posted, task, pointer>>
      PROVE  OrderOK'
  <2>1. /\ Elements(commands') = Elements(commands) \cup {c} /\ Increasing(commands')
        /\ Waiting' = Waiting \cup {c}
    BY <1>0, <1>c, EnqueueEffect
  <2>2. 0 < next_sequence
    BY <1>0 DEF TypeOK
  <2>3. ASSUME NEW d \in Waiting PROVE Placed(d)'
    BY <1>0, <1>c, <1>n, <2>3 DEF OrderOK, Placed
  <2>4. Placed(c)'
    BY <1>0, <1>c, <1>n, <2>2 DEF OrderOK, Placed, WorkerPlaced
  <2>5. WorkerPlaced'
    BY <1>0, <1>c, <1>n DEF OrderOK, WorkerPlaced
  <2>6. \A p \in Elements(posted) : p.sequence < c.sequence
    BY <1>0, <1>c DEF OrderOK, Waiting, Placed
  <2> QED
    BY <1>0, <1>c, <2>1, <2>3, <2>4, <2>5, <2>6, Zenon DEF OrderOK
<1>d. ASSUME next_sequence' = next_sequence + 1, UNCHANGED <<commands, posted, task, pointer>>
      PROVE  OrderOK'
  <2>1. Waiting' = Waiting
    BY <1>d, Zenon DEF Waiting
  <2>2. ASSUME NEW c \in Waiting PROVE Placed(c)'
    BY <1>0, <1>d, <1>n, <2>2 DEF OrderOK, Placed
  <2>3. WorkerPlaced'
    BY <1>0, <1>d, <1>n DEF OrderOK, WorkerPlaced
  <2> QED
    BY <1>0, <1>d, <2>1, <2>2, <2>3, Zenon DEF OrderOK
<1>1. ASSUME NEW k \in Key, Publish(k) PROVE OrderOK'
  <2> DEFINE c == [kind |-> "publish", key |-> k, sequence |-> next_sequence]
  <2>1. c \in Command /\ c.kind = "publish" /\ c.sequence = next_sequence
    BY <1>0, <1>1, Numbers DEF Publish, Command
  <2>2. next_sequence' = next_sequence + 1 /\ UNCHANGED <<posted, task, pointer>>
        /\ (commands' = commands \/ commands' = Enqueue(c))
    BY <1>1 DEF Publish, files
  <2> HIDE DEF c
  <2> QED
    BY <1>c, <1>d, <2>1, <2>2, Zenon
<1>2. ASSUME NEW k \in Key, Remove(k) PROVE OrderOK'
  <2> DEFINE c == [kind |-> "remove", key |-> k, sequence |-> next_sequence]
  <2>1. c \in Command /\ c.kind = "remove" /\ c.sequence = next_sequence
    BY <1>0, <1>2, Numbers DEF Remove, Command
  <2>2. next_sequence' = next_sequence + 1 /\ UNCHANGED <<posted, task, pointer>>
        /\ commands' = Enqueue(c)
    BY <1>2 DEF Remove, files
  <2> HIDE DEF c
  <2> QED
    BY <1>c, <2>1, <2>2, Zenon
<1>3. CASE Pump
  <2> DEFINE c == Head(commands)
  <2>1. /\ Increasing(commands') /\ Increasing(posted')
        /\ Elements(commands) = Elements(commands') \cup {c}
        /\ \A d \in Elements(commands') : c.sequence < d.sequence
        /\ Elements(posted') \in {Elements(posted), Elements(posted) \cup {c}}
    BY <1>0, <1>3, PumpEffect
  <2>2. UNCHANGED <<next_sequence, task, pointer>>
    BY <1>3 DEF Pump, files
  <2> HIDE DEF c
  <2>3. Waiting' \subseteq Waiting
    BY <2>1 DEF Waiting
  <2>4. ASSUME NEW d \in Waiting' PROVE Placed(d)'
    BY <1>0, <2>2, <2>3, Zenon DEF OrderOK, Placed
  <2>5. WorkerPlaced'
    BY <1>0, <2>2 DEF OrderOK, WorkerPlaced
  <2>6. \A p \in Elements(posted'), d \in Elements(commands') : p.sequence < d.sequence
    BY <1>0, <2>1 DEF OrderOK
  <2> QED
    BY <2>1, <2>4, <2>5, <2>6, Zenon DEF OrderOK
<1>4. CASE TakeCommand
  <2> DEFINE c == Head(posted)
  <2>1. /\ Increasing(posted') /\ c \in Command
        /\ Elements(posted) = Elements(posted') \cup {c}
        /\ \A d \in Elements(posted') : c.sequence < d.sequence
        /\ task'.step = "start" /\ task'.command = c
    BY <1>0, <1>4, TakeEffect
  <2>2. UNCHANGED <<next_sequence, commands, pointer>>
    BY <1>4 DEF TakeCommand, mirror, files
  <2> HIDE DEF c
  <2>3. c \in Waiting /\ Waiting' \subseteq Waiting
    BY <2>1, <2>2, Zenon DEF Waiting
  <2>4. ASSUME NEW d \in Waiting' PROVE Placed(d)'
    <3>1. c.sequence < d.sequence
      BY <1>0, <2>1, <2>2, <2>4, Zenon DEF OrderOK, Waiting
    <3> QED
      BY <1>0, <2>1, <2>2, <2>3, <3>1, Zenon DEF OrderOK, Placed
  <2>5. WorkerPlaced'
    BY <1>0, <2>1, <2>2, <2>3, Zenon DEF OrderOK, WorkerPlaced, Placed
  <2>6. \A p \in Elements(posted'), d \in Elements(commands') : p.sequence < d.sequence
    BY <1>0, <2>1, <2>2, Zenon DEF OrderOK
  <2> QED
    BY <1>0, <2>1, <2>2, <2>4, <2>5, <2>6, Zenon DEF OrderOK
<1>5. CASE WriteData \/ PointerOverQuota \/ RemoveEvicted
  <2>1. UNCHANGED <<commands, posted, next_sequence, pointer>>
    BY <1>5, Zenon DEF WriteData, PointerOverQuota, RemoveEvicted, OnlyWorker, mirror
  <2>3. task'.command = task.command
    BY <1>0, <1>5, Moves DEF MovedTo
  <2>4. task.step \in Before
    BY <1>5 DEF WriteData, PointerOverQuota, RemoveEvicted, AtStep
  <2> QED
    BY <1>b, <2>1, <2>3, <2>4, Zenon
<1>6. CASE WritePointer
  <2>1. UNCHANGED <<commands, posted, next_sequence>>
        /\ pointer' = [pointer EXCEPT ![task.command.key] = task.command.sequence]
    BY <1>6 DEF WritePointer, OnlyWorker, mirror
  <2>2. task'.command = task.command /\ task'.step = "clean" /\ task.step = "point"
    BY <1>0, <1>6, Moves DEF WritePointer, AtStep, MovedTo
  <2>3. Waiting' = Waiting
    BY <2>1 DEF Waiting
  <2>4. \A k \in Key : pointer'[k] = pointer[k] \/ pointer'[k] = task.command.sequence
    BY <1>0, <2>1, Zenon DEF TypeOK
  <2>5. ASSUME NEW c \in Waiting PROVE Placed(c)'
    BY <1>0, <2>1, <2>2, <2>4, <2>5, Zenon DEF OrderOK, Placed
  <2>6. WorkerPlaced'
    BY <1>0, <2>1, <2>2, <2>4 DEF OrderOK, WorkerPlaced
  <2> QED
    BY <1>0, <2>1, <2>3, <2>5, <2>6 DEF OrderOK
<1>7. CASE CleanUp \/ CommandFails
  BY <1>b, <1>7 DEF CleanUp, CommandFails, OnlyWorker, mirror, Finish
<1>8. CASE RemovePointer
  <2>1. UNCHANGED <<commands, posted, next_sequence>>
    BY <1>8 DEF RemovePointer, OnlyWorker, mirror
  <2>2. CASE stale
    BY <1>b, <1>8, <2>1, <2>2, Zenon DEF RemovePointer, Finish
  <2>3. CASE ~stale
    <3>1. task'.command = task.command /\ task'.step = "clean" /\ task.step = "start"
      BY <1>0, <1>8, <2>3, Moves, Zenon DEF RemovePointer, AtStep, MovedTo
    <3>2. \A k \in Key : pointer'[k] <= pointer[k]
      <4>1. pointer' = [pointer EXCEPT ![task.command.key] = 0]
        BY <1>8, <2>3 DEF RemovePointer
      <4> QED
        BY <1>0, <1>n, <4>1 DEF TypeOK
    <3> QED
      BY <1>a, <1>n, <2>1, <3>1, <3>2
  <2> QED
    BY <2>2, <2>3
<1>9. CASE Evict
  <2>1. UNCHANGED <<commands, posted, next_sequence>> /\ task.step = "evict"
    BY <1>9 DEF Evict, AtStep, OnlyWorker, mirror
  <2>2. CASE Candidates = {}
    BY <1>b, <1>9, <2>1, <2>2, Zenon DEF Evict, Finish
  <2>3. CASE Candidates # {}
    <3>1. PICK oldest \in Key : pointer' = [pointer EXCEPT ![oldest] = 0]
                                /\ MovedTo("evicted")
      BY <1>0, <1>9, <2>3, EvictEffect, Zenon
    <3>2. task'.command = task.command /\ task'.step = "evicted"
      BY <3>1 DEF MovedTo
    <3>3. \A k \in Key : pointer'[k] <= pointer[k]
      BY <1>0, <1>n, <3>1, SMTT(20) DEF TypeOK
    <3> QED
      BY <1>a, <1>n, <2>1, <3>2, <3>3
  <2> QED
    BY <2>2, <2>3
<1>10. CASE MeetStale
  <2>1. UNCHANGED <<commands, posted, next_sequence, pointer>> /\ task.step # "idle" /\ stale
    BY <1>10 DEF MeetStale, OnlyWorker, mirror, files, AtStep
  <2>2. CASE MayRetry
    <3>1. task'.command = task.command
      BY <1>0, <1>10, <2>2, Moves DEF MovedTo
    <3>2. Waiting' = Waiting
      BY <2>1 DEF Waiting
    <3>3. \A k \in Key : pointer[k] = 0
      BY <1>0, <2>1, Zenon DEF FilesOK
    <3>4. WorkerPlaced'
      BY <1>0, <1>n, <2>1, <3>1, <3>3, Zenon DEF OrderOK, WorkerPlaced
    <3>5. ASSUME NEW c \in Waiting PROVE Placed(c)'
      BY <1>0, <2>1, <3>1, <3>5 DEF OrderOK, Placed
    <3> QED
      BY <1>0, <2>1, <3>2, <3>4, <3>5, Zenon DEF OrderOK
  <2>3. CASE ~MayRetry
    BY <1>b, <1>10, <2>1, <2>3, Zenon DEF MeetStale, Finish
  <2> QED
    BY <2>2, <2>3
<1>11. CASE HandleReply \/ HandleError \/ SiteDataLost \/ UNCHANGED vars
  <2>1. UNCHANGED <<commands, posted, next_sequence, task>>
    BY <1>11 DEF HandleReply, HandleError, SiteDataLost, vars, mirror
  <2>2. \A k \in Key : pointer'[k] <= pointer[k]
    <3>1. UNCHANGED pointer \/ pointer' = Empty
      BY <1>11 DEF HandleReply, HandleError, SiteDataLost, vars, files
    <3> QED
      BY <1>n, <3>1 DEF Empty
  <2> QED
    BY <1>a, <1>n, <2>1, <2>2
<1>12. CASE Reload
  <2>1. /\ commands' = <<>> /\ posted' = <<>> /\ task' = NoTask
        /\ next_sequence' = next_sequence
    BY <1>12, Zenon DEF Reload
  <2>6. \A k \in Key : pointer'[k] \in {0, pointer[k]}
    BY <1>12, ReloadEffect, Zenon DEF Loaded
  <2>2. \A k \in Key : pointer'[k] < next_sequence'
    <3>1. 0 < next_sequence
      BY <1>0 DEF TypeOK
    <3>2. \A k \in Key : pointer[k] < next_sequence
      BY <1>0 DEF OrderOK, WorkerPlaced
    <3> QED
      BY <2>1, <2>6, <3>1, <3>2, Zenon
  <2>3. Elements(commands') = {} /\ Elements(posted') = {}
    BY <2>1 DEF Elements
  <2>4. Increasing(commands') /\ Increasing(posted')
    BY <2>1 DEF Increasing
  <2>5. WorkerPlaced'
    BY <1>0, <2>1, <2>2, NoTaskType DEF WorkerPlaced, TypeOK
  <2> QED
    BY <2>3, <2>4, <2>5, Zenon DEF OrderOK, Waiting
<1> QED
  BY <1>1, <1>2, <1>3, <1>4, <1>5, <1>6, <1>7, <1>8, <1>9, <1>10, <1>11, <1>12 DEF Next, Work

(***************************************************************************)
(* The files.                                                              *)
(***************************************************************************)
LEMMA FilesStep == RepositoryInv /\ [Next]_vars => FilesOK'
<1> SUFFICES ASSUME RepositoryInv, [Next]_vars PROVE FilesOK'
  OBVIOUS
<1>0. TypeOK /\ TaskOK /\ OrderOK /\ FilesOK
  BY DEF RepositoryInv
<1>k. task.command.key \in Key /\ task.command.sequence \in Nat
  BY <1>0, Numbers
<1>f. data \in [Key -> SUBSET (1 .. MaxCommands)] /\ pointer \in [Key -> 0 .. MaxCommands]
  BY <1>0, Zenon DEF TypeOK
<1>a. ASSUME task' = NoTask \/ MovedTo("start") \/ MovedTo("evict"),
             \A k \in Key : pointer'[k] # 0 => pointer'[k] \in data'[k],
             stale' => \A k \in Key : pointer'[k] = 0 /\ data'[k] = {}
      PROVE  FilesOK'
  BY <1>a, NoTaskType, Zenon DEF FilesOK, PointerIsWhole, MovedTo
<1>b. ASSUME NEW kept, Discard(kept), UNCHANGED <<stale, pointer>>,
             task' = NoTask \/ MovedTo("start") \/ MovedTo("evict")
      PROVE  FilesOK'
  <2>1. \A k \in Key : data'[k] = data[k] \ (Discards(k) \ kept) /\ data'[k] \subseteq data[k]
    BY <1>0, <1>b, DiscardEffect
  <2>2. ASSUME NEW k \in Key, pointer[k] # 0 PROVE pointer[k] \in data'[k]
    <3>1. pointer[k] \in data[k]
      BY <1>0, <2>2 DEF FilesOK, PointerIsWhole
    <3>2. pointer[k] \notin Discards(k)
      BY <1>0, <2>2, DiscardKeepsNamed, Zenon
    <3> QED
      BY <2>1, <3>1, <3>2, Zenon
  <2>3. stale => \A k \in Key : pointer[k] = 0 /\ data'[k] = {}
    BY <1>0, <2>1, Zenon DEF FilesOK
  <2> QED
    BY <1>a, <1>b, <2>2, <2>3, Zenon
<1>1. CASE PageActions \/ UNCHANGED vars
  <2>1. UNCHANGED <<task, stale, data, pointer>>
    BY <1>1, Zenon DEF PageActions, Publish, Remove, Pump, HandleReply, HandleError, vars, files
  <2> QED
    BY <1>0, <2>1, Zenon DEF FilesOK, PointerIsWhole, Named
<1>2. CASE TakeCommand
  <2>1. UNCHANGED <<stale, data, pointer>> /\ task'.step = "start"
    BY <1>0, <1>2, TakeEffect DEF TakeCommand, files
  <2> QED
    BY <1>0, <2>1, Zenon DEF FilesOK, PointerIsWhole
<1>3. CASE WriteData
  <2>1. UNCHANGED <<stale, pointer>> /\ ~stale
    BY <1>3, Zenon DEF WriteData
  <2>2. CASE DiskUsed >= Quota
    <3>1. MovedTo("evict") /\ UNCHANGED data
      BY <1>0, <1>3, <2>2, Moves, Zenon DEF WriteData
    <3> QED
      BY <1>0, <1>a, <2>1, <3>1 DEF FilesOK, PointerIsWhole
  <2>3. CASE ~(DiskUsed >= Quota)
    <3>1. task'.step = "point" /\ task'.command = task.command
      BY <1>0, <1>3, <2>3, Moves DEF MovedTo
    <3>2. data' = [data EXCEPT ![task.command.key] = @ \cup {task.command.sequence}]
      BY <1>3, <2>3, Zenon DEF WriteData
    <3>3. \A k \in Key : data[k] \subseteq data'[k]
      BY <1>f, <3>2
    <3>4. task.command.sequence \in data'[task.command.key]
      BY <1>f, <1>k, <3>2, Zenon
    <3> QED
      BY <1>0, <2>1, <3>1, <3>3, <3>4, Zenon DEF FilesOK, PointerIsWhole
  <2> QED
    BY <2>2, <2>3
<1>4. CASE WritePointer
  <2>1. UNCHANGED <<stale, data>> /\ ~stale /\ task.step = "point"
        /\ task.command.kind = "publish"
        /\ pointer' = [pointer EXCEPT ![task.command.key] = task.command.sequence]
    BY <1>4 DEF WritePointer, AtStep
  <2>2. task'.step = "clean" /\ task'.command = task.command
    BY <1>0, <1>4, Moves, Zenon DEF MovedTo
  <2>3. task.command.sequence \in data[task.command.key]
    BY <1>0, <2>1 DEF FilesOK
  <2>4. pointer'[task.command.key] = task.command.sequence
        /\ \A k \in Key \ {task.command.key} : pointer'[k] = pointer[k]
    BY <1>f, <1>k, <2>1, Zenon
  <2>5. PointerIsWhole'
    BY <1>0, <2>1, <2>3, <2>4 DEF FilesOK, PointerIsWhole
  <2> QED
    BY <2>1, <2>2, <2>4, <2>5 DEF FilesOK, Named
<1>5. CASE PointerOverQuota
  BY <1>0, <1>5, <1>b, Moves, Zenon DEF PointerOverQuota
<1>6. CASE CleanUp
  BY <1>6, <1>b DEF CleanUp, Finish
<1>7. CASE RemovePointer
  <2>1. UNCHANGED <<stale, data>> /\ task.command.kind = "remove"
    BY <1>7 DEF RemovePointer, AtStep
  <2>2. CASE stale
    BY <1>0, <1>7, <1>a, <2>1, <2>2, Zenon DEF RemovePointer, Finish, FilesOK, PointerIsWhole
  <2>3. CASE ~stale
    <3>1. task'.step = "clean" /\ task'.command = task.command
      BY <1>0, <1>7, <2>3, Moves, Zenon DEF MovedTo
    <3>2. pointer' = [pointer EXCEPT ![task.command.key] = 0]
      BY <1>7, <2>3 DEF RemovePointer
    <3>3. pointer'[task.command.key] = 0
          /\ \A k \in Key \ {task.command.key} : pointer'[k] = pointer[k]
      BY <1>f, <1>k, <3>2, Zenon
    <3>4. PointerIsWhole'
      BY <1>0, <2>1, <3>3 DEF FilesOK, PointerIsWhole
    <3> QED
      BY <2>1, <2>3, <3>1, <3>3, <3>4, Zenon DEF FilesOK, Named
  <2> QED
    BY <2>2, <2>3
<1>8. CASE Evict
  <2>1. PICK kept : Discard(kept)
    BY <1>8 DEF Evict
  <2>2. UNCHANGED stale /\ ~stale
    BY <1>8 DEF Evict
  <2>3. CASE Candidates = {}
    BY <1>8, <1>b, <2>1, <2>3, Zenon DEF Evict, Finish
  <2>4. CASE Candidates # {}
    <3>1. PICK oldest \in Key : pointer' = [pointer EXCEPT ![oldest] = 0]
                                /\ MovedTo("evicted") /\ task'.victim.key = oldest
      BY <1>0, <1>8, <2>4, EvictEffect, Zenon
    <3>2. task'.step = "evicted" /\ pointer'[task'.victim.key] = 0
      BY <1>f, <3>1 DEF MovedTo
    <3>3. \A k \in Key : pointer'[k] \in {0, pointer[k]}
      BY <1>f, <3>1
    <3>4. \A k \in Key : data'[k] = data[k] \ (Discards(k) \ kept)
      BY <1>0, <2>1, DiscardEffect, Zenon
    <3>5. ASSUME NEW k \in Key, pointer'[k] # 0 PROVE pointer'[k] \in data'[k]
      <4>1. pointer'[k] = pointer[k] /\ pointer[k] # 0
        BY <3>3, <3>5, Zenon
      <4>2. pointer[k] \in data[k]
        BY <1>0, <4>1, Zenon DEF FilesOK, PointerIsWhole
      <4>3. pointer[k] \notin Discards(k)
        BY <1>0, <4>1, DiscardKeepsNamed
      <4> QED
        BY <3>4, <4>1, <4>2, <4>3, Zenon
    <3> QED
      BY <2>2, <3>2, <3>5, Zenon DEF FilesOK, PointerIsWhole
  <2> QED
    BY <2>3, <2>4
<1>9. CASE RemoveEvicted
  BY <1>0, <1>9, <1>b, Moves, Zenon DEF RemoveEvicted
<1>10. CASE MeetStale
  <2>1. UNCHANGED <<data, pointer>>
    BY <1>10, Zenon DEF MeetStale, files
  <2>2. CASE MayRetry
    <3>1. MovedTo("start") /\ ~stale'
      BY <1>0, <1>10, <2>2, Moves, Zenon DEF MeetStale
    <3> QED
      BY <1>0, <1>a, <2>1, <3>1, Zenon DEF FilesOK, PointerIsWhole
  <2>3. CASE ~MayRetry
    BY <1>0, <1>10, <1>a, <2>1, <2>3 DEF MeetStale, Finish, FilesOK, PointerIsWhole
  <2> QED
    BY <2>2, <2>3
<1>11. CASE CommandFails
  BY <1>11, <1>b DEF CommandFails, Finish
<1>12. CASE SiteDataLost
  <2>1. UNCHANGED task /\ stale' /\ \A k \in Key : pointer'[k] = 0 /\ data'[k] = {}
    BY <1>12 DEF SiteDataLost, Empty, NoFiles
  <2>2. task.victim.key \in Key
    BY <1>0 DEF TypeOK
  <2> QED
    BY <2>1, <2>2 DEF FilesOK, PointerIsWhole
<1>13. CASE Reload
  <2>1. task' = NoTask /\ ~stale'
    BY <1>13, Zenon DEF Reload
  <2>2. PICK kept : \A k \in Key : pointer'[k] \in {0, pointer[k]}
                                  /\ data'[k] = data[k] \cap ({pointer'[k]} \cup kept)
    BY <1>13, ReloadEffect, Zenon DEF Loaded
  <2>3. \A k \in Key : pointer'[k] # 0 => pointer'[k] \in data'[k]
    BY <1>0, <2>2 DEF FilesOK, PointerIsWhole
  <2> QED
    BY <1>a, <2>1, <2>3, Zenon
<1> QED
  BY <1>1, <1>2, <1>3, <1>4, <1>5, <1>6, <1>7, <1>8, <1>9, <1>10, <1>11, <1>12, <1>13, Zenon
     DEF Next, Work, PageActions

(***************************************************************************)
(* What is under way has a number that was given, and the worker's command *)
(* is the oldest.                                                          *)
(***************************************************************************)
LEMMA UnderWay ==
  ASSUME TypeOK, TaskOK, OrderOK
  PROVE  /\ \A d \in Outstanding : d.sequence \in Nat /\ d.key \in Key
                                   /\ 0 < d.sequence /\ d.sequence < next_sequence
         /\ \A d \in Waiting : task.command.sequence < d.sequence
         /\ task.step # "idle" => Outstanding = Waiting \cup {task.command}
<1>1. Waiting \subseteq Command /\ task.command \in Command
  BY Numbers, WaitingType DEF Waiting
<1>2. \A d \in Command : d.sequence \in Nat /\ d.key \in Key
  BY Numbers DEF Command
<1>3. \A d \in Waiting : 0 < d.sequence /\ d.sequence < next_sequence
                         /\ task.command.sequence < d.sequence
  BY DEF OrderOK, Placed
<1>4. task.step # "idle" => 0 < task.command.sequence /\ task.command.sequence < next_sequence
  BY DEF OrderOK, WorkerPlaced
<1> QED
  BY <1>1, <1>2, <1>3, <1>4 DEF Outstanding

(***************************************************************************)
(* The mirror and memory.                                                  *)
(***************************************************************************)
LEMMA MirrorStep == RepositoryInv /\ [Next]_vars => MirrorOK'
<1> SUFFICES ASSUME RepositoryInv, [Next]_vars PROVE MirrorOK'
  OBVIOUS
<1>0. TypeOK /\ TaskOK /\ OrderOK /\ FilesOK /\ MirrorOK
  BY DEF RepositoryInv
<1>u. /\ \A d \in Outstanding : d.sequence \in Nat /\ d.key \in Key
                                /\ 0 < d.sequence /\ d.sequence < next_sequence
      /\ \A d \in Waiting : task.command.sequence < d.sequence
      /\ task.step # "idle" => Outstanding = Waiting \cup {task.command}
  BY <1>0, UnderWay
<1>n. task.command.key \in Key /\ task.command.sequence \in Nat /\ next_sequence \in Nat
      /\ \A k \in Key : lost[k] \in Nat
  BY <1>0, Numbers
<1>l. \A k \in Key : lost'[k] \in Nat
  <2>1. TypeOK'
    BY TypeStep
  <2>2. MaxCommands \in Nat
    BY BrowserRepositoryAssumption
  <2>3. lost' \in [Key -> 0 .. MaxCommands + 2]
    BY <2>1, Zenon DEF TypeOK
  <2> QED
    BY <2>2, <2>3
<1>f. data \in [Key -> SUBSET (1 .. MaxCommands)] /\ pointer \in [Key -> 0 .. MaxCommands]
      /\ memory \in [Key -> 0 .. MaxCommands]
      /\ undeleted \in [Key -> SUBSET (1 .. MaxCommands)]
  BY <1>0, Zenon DEF TypeOK
<1> DEFINE Kept(k) == pointer'[k] = pointer[k] /\ data'[k] \subseteq data[k]
                      /\ undeleted'[k] = undeleted[k]
<1>a. ASSUME Outstanding' = Outstanding, UNCHANGED memory, \A k \in Key : lost[k] <= lost'[k],
             \A k \in Key : lost'[k] = 0 /\ (\A d \in Outstanding : d.key # k) => Kept(k)
      PROVE  MirrorOK'
  <2>1. ASSUME NEW d \in Outstanding, LastOfKey(d)', lost'[d.key] <= d.sequence
        PROVE  memory[d.key] = Named(d)
    <3>1. LastOfKey(d)
      BY <1>a, <2>1, Zenon DEF LastOfKey
    <3>2. lost[d.key] <= d.sequence
      BY <1>a, <1>u, <1>n, <1>l, <2>1
    <3> QED
      BY <1>0, <2>1, <3>1, <3>2, Zenon DEF MirrorOK
  <2>2. ASSUME NEW k \in Key, lost'[k] = 0, \A d \in Outstanding : d.key # k
        PROVE  pointer'[k] = memory[k] /\ data'[k] \subseteq {pointer'[k]} \cup undeleted'[k]
    <3>1. lost[k] = 0
      BY <1>a, <1>n, <2>2
    <3>2. pointer[k] = memory[k] /\ data[k] \subseteq {pointer[k]} \cup undeleted[k]
      BY <1>0, <2>2, <3>1, Zenon DEF MirrorOK
    <3> QED
      BY <1>a, <2>2, <3>2, Zenon
  <2> QED
    BY <1>a, <2>1, <2>2, Zenon DEF MirrorOK, Named
<1>b. ASSUME NEW c \in Outstanding, Outstanding = Outstanding' \cup {c}, UNCHANGED memory,
             \A k \in Key : lost[k] <= lost'[k], c.sequence < lost'[c.key],
             \A k \in Key \ {c.key} : Kept(k)
      PROVE  MirrorOK'
  <2>1. ASSUME NEW d \in Outstanding', LastOfKey(d)', lost'[d.key] <= d.sequence
        PROVE  memory[d.key] = Named(d)
    <3>0. d \in Outstanding /\ d.key \in Key /\ c.key \in Key
          /\ d.sequence \in Nat /\ c.sequence \in Nat
      BY <1>b, <1>u, <2>1, Zenon
    <3>1. c.key = d.key => c.sequence <= d.sequence
      BY <1>b, <1>l, <2>1, <3>0
    <3>2. LastOfKey(d)
      BY <1>b, <2>1, <3>1, Zenon DEF LastOfKey
    <3>3. lost[d.key] <= d.sequence
      BY <1>b, <1>n, <1>l, <2>1, <3>0
    <3> QED
      BY <1>0, <3>0, <3>2, <3>3, Zenon DEF MirrorOK
  <2>2. ASSUME NEW k \in Key, lost'[k] = 0, \A d \in Outstanding' : d.key # k
        PROVE  pointer'[k] = memory[k] /\ data'[k] \subseteq {pointer'[k]} \cup undeleted'[k]
    <3>1. k # c.key
      BY <1>b, <1>u, <2>2
    <3>2. lost[k] = 0
      BY <1>b, <1>n, <2>2
    <3>3. pointer[k] = memory[k] /\ data[k] \subseteq {pointer[k]} \cup undeleted[k]
      BY <1>0, <1>b, <2>2, <3>1, <3>2, Zenon DEF MirrorOK
    <3> QED
      BY <1>b, <3>1, <3>3, Zenon
  <2> QED
    BY <1>b, <2>1, <2>2, Zenon DEF MirrorOK, Named
<1>c. ASSUME NEW c \in Command, c.sequence = next_sequence, commands' = Enqueue(c),
             UNCHANGED <<posted, task, pointer, data, undeleted, lost>>,
             memory' = [memory EXCEPT ![c.key] = Named(c)]
      PROVE  MirrorOK'
  <2>1. Outstanding' = Outstanding \cup {c} /\ c.key \in Key
    BY <1>0, <1>c, EnqueueEffect, Zenon DEF Command
  <2>2. memory'[c.key] = Named(c) /\ \A k \in Key \ {c.key} : memory'[k] = memory[k]
    BY <1>c, <1>f, <2>1, Zenon
  <2>3. ASSUME NEW d \in Outstanding', LastOfKey(d)', lost[d.key] <= d.sequence
        PROVE  memory'[d.key] = Named(d)
    <3>1. CASE d = c
      BY <2>2, <3>1, Zenon
    <3>2. CASE d # c
      <4>1. d \in Outstanding /\ d.key \in Key /\ d.sequence \in Nat
            /\ d.sequence < next_sequence
        BY <1>u, <2>1, <2>3, <3>2, Zenon
      <4>2. d.key # c.key
        BY <1>c, <1>n, <2>1, <2>3, <4>1 DEF LastOfKey
      <4>3. LastOfKey(d)
        BY <2>1, <2>3, Zenon DEF LastOfKey
      <4> QED
        BY <1>0, <2>2, <2>3, <4>1, <4>2, <4>3, Zenon DEF MirrorOK
    <3> QED
      BY <3>1, <3>2, Zenon
  <2>4. ASSUME NEW k \in Key, lost[k] = 0, \A d \in Outstanding' : d.key # k
        PROVE  pointer[k] = memory'[k] /\ data[k] \subseteq {pointer[k]} \cup undeleted[k]
    BY <1>0, <2>1, <2>2, <2>4, Zenon DEF MirrorOK
  <2> QED
    BY <1>c, <2>3, <2>4, Zenon DEF MirrorOK, Named
<1>d. ASSUME task.step # "idle", task' = NoTask, UNCHANGED <<commands, posted>>
      PROVE  /\ Outstanding' = Waiting /\ Outstanding = Outstanding' \cup {task.command}
             /\ task.command \in Outstanding
  BY <1>d, <1>u, NoTaskType, Zenon DEF Outstanding, Waiting
<1>e. ASSUME task.step # "idle", Finish("failed"),
             UNCHANGED <<commands, posted, memory, pointer, undeleted>>,
             \A k \in Key : data'[k] \subseteq data[k]
      PROVE  MirrorOK'
  <2>1. /\ task' = NoTask /\ task.command.sequence < lost'[task.command.key]
        /\ lost[task.command.key] <= lost'[task.command.key]
        /\ \A j \in Key \ {task.command.key} : lost'[j] = lost[j]
    BY <1>0, <1>e, FinishEffect, Zenon
  <2>2. \A k \in Key : lost[k] <= lost'[k]
    BY <1>n, <2>1
  <2> QED
    BY <1>b, <1>d, <1>e, <2>1, <2>2, Zenon
<1>g. ASSUME task.step # "idle", Finish("complete"),
             UNCHANGED <<commands, posted, memory, pointer>>,
             lost[task.command.key] <= task.command.sequence =>
               /\ pointer[task.command.key] = Named(task.command)
               /\ data'[task.command.key]
                    \subseteq {Named(task.command)} \cup undeleted'[task.command.key],
             \A k \in Key \ {task.command.key} : data'[k] \subseteq data[k]
                                                 /\ undeleted'[k] = undeleted[k]
      PROVE  MirrorOK'
  <2> DEFINE c == task.command
  <2>1. /\ task' = NoTask
        /\ lost'[c.key] = (IF lost[c.key] <= c.sequence THEN 0 ELSE lost[c.key])
        /\ \A j \in Key \ {c.key} : lost'[j] = lost[j]
    BY <1>0, <1>g, FinishEffect, Zenon
  <2>2. Outstanding' = Waiting /\ Outstanding = Outstanding' \cup {c} /\ c \in Outstanding
    BY <1>d, <1>g, <2>1, Zenon
  <2>3. ASSUME NEW d \in Outstanding', LastOfKey(d)', lost'[d.key] <= d.sequence
        PROVE  memory[d.key] = Named(d)
    <3>1. d \in Outstanding /\ c.sequence < d.sequence /\ d.key \in Key
          /\ d.sequence \in Nat /\ c.sequence \in Nat /\ c.key \in Key
      BY <1>u, <1>n, <2>2, <2>3, Zenon
    <3>2. LastOfKey(d)
      BY <2>2, <2>3, <3>1 DEF LastOfKey
    <3>3. lost[d.key] <= d.sequence
      <4>1. CASE d.key = c.key /\ lost[c.key] <= c.sequence
        BY <1>n, <3>1, <4>1
      <4>2. CASE ~(d.key = c.key /\ lost[c.key] <= c.sequence)
        BY <2>1, <2>3, <3>1, <4>2, Zenon
      <4> QED
        BY <4>1, <4>2, Zenon
    <3> QED
      BY <1>0, <3>1, <3>2, <3>3, Zenon DEF MirrorOK
  <2>4. ASSUME NEW k \in Key, lost'[k] = 0, \A d \in Outstanding' : d.key # k
        PROVE  pointer[k] = memory[k] /\ data'[k] \subseteq {pointer[k]} \cup undeleted'[k]
    <3>1. CASE k = c.key
      <4>1. lost[c.key] <= c.sequence
        BY <1>n, <2>1, <2>4, <3>1
      <4>2. LastOfKey(c)
        BY <1>n, <2>2, <2>4, <3>1 DEF LastOfKey
      <4>3. memory[c.key] = Named(c)
        BY <1>0, <2>2, <4>1, <4>2, Zenon DEF MirrorOK
      <4> QED
        BY <1>g, <3>1, <4>1, <4>3, Zenon
    <3>2. CASE k # c.key
      <4>1. lost[k] = 0 /\ \A d \in Outstanding : d.key # k
        BY <2>1, <2>2, <2>4, <3>2, Zenon
      <4>2. pointer[k] = memory[k] /\ data[k] \subseteq {pointer[k]} \cup undeleted[k]
        BY <1>0, <4>1, Zenon DEF MirrorOK
      <4> QED
        BY <1>g, <3>2, <4>2, Zenon
    <3> QED
      BY <3>1, <3>2, Zenon
  <2> QED
    BY <1>g, <2>3, <2>4, Zenon DEF MirrorOK, Named
<1>h. ASSUME task.step # "idle", task'.step # "idle", task'.command = task.command,
             UNCHANGED <<commands, posted>>
      PROVE  Outstanding' = Outstanding /\ task.command \in Outstanding
  BY <1>h DEF Outstanding, Waiting
<1>i. ASSUME task.step # "idle", NEW step \in Step \ {"idle"}, MovedTo(step),
             UNCHANGED <<commands, posted>>
      PROVE  Outstanding' = Outstanding /\ task.command \in Outstanding
  BY <1>h, <1>i DEF MovedTo, Step
<1>1. ASSUME NEW k \in Key, Publish(k) PROVE MirrorOK'
  <2>1. UNCHANGED <<posted, task, pointer, data, undeleted>> /\ next_sequence <= MaxCommands
    BY <1>1, Zenon DEF Publish, files
  <2>2. CASE memory[k] = 0 /\ Used >= MaxBytes
    <3>1. UNCHANGED <<memory, commands, lost>>
      BY <1>1, <2>2, Zenon DEF Publish
    <3>2. Outstanding' = Outstanding
      BY <2>1, <3>1, Zenon DEF Outstanding, Waiting
    <3>3. \A j \in Key : lost[j] <= lost'[j]
      BY <1>n, <3>1
    <3> QED
      BY <1>a, <2>1, <3>1, <3>2, <3>3, Zenon
  <2>3. CASE ~(memory[k] = 0 /\ Used >= MaxBytes)
    <3>1. memory' = [memory EXCEPT ![k] = next_sequence]
      BY <1>1, <2>3, Zenon DEF Publish
    <3>2. CASE queued_bytes + 1 > MaxQueued
      <4>1. lost' = Missed(k, next_sequence) /\ UNCHANGED commands
        BY <1>1, <2>3, <3>2, Zenon DEF Publish
      <4>2. next_sequence \in 0 .. MaxCommands
        BY <1>0, <2>1, Numbers
      <4>3. next_sequence < lost'[k] /\ \A j \in Key \ {k} : lost'[j] = lost[j]
        BY <1>0, <4>1, <4>2, MissedEffect, Zenon
      <4>4. Outstanding' = Outstanding
        BY <2>1, <4>1 DEF Outstanding, Waiting
      <4>5. \A j \in Key \ {k} : memory'[j] = memory[j]
        BY <1>f, <3>1, Zenon
      <4>6. ASSUME NEW d \in Outstanding, LastOfKey(d)', lost'[d.key] <= d.sequence
            PROVE  memory'[d.key] = Named(d)
        <5>1. d.key # k /\ d.key \in Key
          BY <1>l, <1>n, <1>u, <4>3, <4>6
        <5>2. LastOfKey(d) /\ lost[d.key] <= d.sequence
          BY <4>3, <4>4, <4>6, <5>1, Zenon DEF LastOfKey
        <5> QED
          BY <1>0, <4>5, <4>6, <5>1, <5>2, Zenon DEF MirrorOK
      <4>7. ASSUME NEW j \in Key, lost'[j] = 0, \A d \in Outstanding : d.key # j
            PROVE  pointer[j] = memory'[j] /\ data[j] \subseteq {pointer[j]} \cup undeleted[j]
        <5>1. j # k
          BY <1>n, <4>3, <4>7
        <5> QED
          BY <1>0, <4>3, <4>5, <4>7, <5>1, Zenon DEF MirrorOK
      <4> QED
        BY <2>1, <4>4, <4>6, <4>7, Zenon DEF MirrorOK, Named
    <3>3. CASE ~(queued_bytes + 1 > MaxQueued)
      <4> DEFINE c == [kind |-> "publish", key |-> k, sequence |-> next_sequence]
      <4>1. commands' = Enqueue(c) /\ UNCHANGED lost
        BY <1>1, <2>3, <3>3 DEF Publish
      <4>2. next_sequence \in 0 .. MaxCommands
        BY <1>0, <2>1, Numbers
      <4>3. c \in Command /\ c.key = k /\ c.sequence = next_sequence /\ Named(c) = next_sequence
        BY <4>2 DEF Command, Named
      <4> HIDE DEF c
      <4> QED
        BY <1>c, <2>1, <3>1, <4>1, <4>3, Zenon
    <3> QED
      BY <3>2, <3>3, Zenon
  <2> QED
    BY <2>2, <2>3, Zenon
<1>2. ASSUME NEW k \in Key, Remove(k) PROVE MirrorOK'
  <2> DEFINE c == [kind |-> "remove", key |-> k, sequence |-> next_sequence]
  <2>1. UNCHANGED <<posted, task, pointer, data, undeleted, lost>> /\ next_sequence <= MaxCommands
        /\ commands' = Enqueue(c) /\ memory' = [memory EXCEPT ![k] = 0]
    BY <1>2 DEF Remove, files
  <2>2. next_sequence \in 0 .. MaxCommands
    BY <1>0, <2>1, Numbers
  <2>3. c \in Command /\ c.key = k /\ c.sequence = next_sequence /\ Named(c) = 0
    BY <2>2, Zenon DEF Command, Named
  <2> HIDE DEF c
  <2> QED
    BY <1>c, <2>1, <2>3, Zenon
<1>3. CASE Pump
  <2> DEFINE c == Head(commands)
  <2>1. UNCHANGED <<memory, task, pointer, data, undeleted>>
    BY <1>3, Zenon DEF Pump, files
  <2>2. /\ c \in Command /\ Elements(commands) = Elements(commands') \cup {c}
        /\ \/ Elements(posted') = Elements(posted) \cup {c} /\ UNCHANGED lost
           \/ UNCHANGED posted /\ lost' = Missed(c.key, c.sequence)
    BY <1>0, <1>3, PumpEffect
  <2>3. CASE Elements(posted') = Elements(posted) \cup {c} /\ UNCHANGED lost
    <3>1. Outstanding' = Outstanding
      BY <2>1, <2>2, <2>3, Zenon DEF Outstanding, Waiting
    <3>2. \A k \in Key : lost[k] <= lost'[k]
      BY <1>n, <2>3
    <3> HIDE DEF c
    <3> QED
      BY <1>a, <2>1, <3>1, <3>2, Zenon
  <2>4. CASE UNCHANGED posted /\ lost' = Missed(c.key, c.sequence)
    <3>1. c \in Outstanding /\ Outstanding = Outstanding' \cup {c}
      BY <2>1, <2>2, <2>4, Zenon DEF Outstanding, Waiting
    <3>2. c.key \in Key /\ c.sequence \in 0 .. MaxCommands
      BY <2>2, Zenon DEF Command
    <3>3. c.sequence < lost'[c.key] /\ \A k \in Key : lost[k] <= lost'[k]
      BY <1>0, <2>4, <3>2, MissedEffect, Zenon
    <3> HIDE DEF c
    <3> QED
      BY <1>b, <2>1, <3>1, <3>3, Zenon
  <2> QED
    BY <2>2, <2>3, <2>4, Zenon
<1>4. CASE HandleReply \/ HandleError \/ UNCHANGED vars
  <2>1. UNCHANGED <<memory, commands, posted, task, data, pointer, undeleted, lost>>
    BY <1>4, Zenon DEF HandleReply, HandleError, vars, mirror, files
  <2> QED
    BY <1>a, <1>n, <2>1 DEF Outstanding, Waiting
<1>5. CASE TakeCommand
  <2> DEFINE c == Head(posted)
  <2>1. /\ Elements(posted) = Elements(posted') \cup {c}
        /\ task.step = "idle" /\ task'.step = "start" /\ task'.command = c
    BY <1>0, <1>5, TakeEffect
  <2>2. UNCHANGED <<memory, commands, data, pointer, undeleted, lost>>
    BY <1>5, Zenon DEF TakeCommand, mirror, files
  <2>3. Outstanding' = Outstanding
    BY <2>1, <2>2, Zenon DEF Outstanding, Waiting
  <2> QED
    BY <1>a, <1>n, <2>2, <2>3
<1>6. CASE WriteData \/ WritePointer \/ PointerOverQuota \/ RemoveEvicted
  <2>1. UNCHANGED <<memory, commands, posted, lost, undeleted>> /\ task.step # "idle"
    BY <1>6 DEF WriteData, WritePointer, PointerOverQuota, RemoveEvicted, OnlyWorker, mirror, AtStep
  <2>2. \E step \in Step \ {"idle"} : MovedTo(step)
    <3>1. {"start", "point", "clean", "evict"} \subseteq Step \ {"idle"}
      BY DEF Step
    <3> QED
      BY <1>0, <1>6, <3>1, Moves
  <2>3. Outstanding' = Outstanding /\ task.command \in Outstanding
    BY <1>i, <2>1, <2>2, Zenon
  <2>4. \A k \in Key \ {task.command.key} : Kept(k)
    <3>1. CASE WriteData \/ WritePointer
      BY <1>f, <2>1, <3>1, Zenon DEF WriteData, WritePointer
    <3>2. CASE PointerOverQuota \/ RemoveEvicted
      <4>1. UNCHANGED pointer /\ \E kept : Discard(kept)
        BY <3>2 DEF PointerOverQuota, RemoveEvicted
      <4>2. \A k \in Key : data'[k] \subseteq data[k]
        BY <1>0, <4>1, DiscardEffect, Zenon
      <4> QED
        BY <2>1, <4>1, <4>2
    <3> QED
      BY <1>6, <3>1, <3>2
  <2>5. \A k \in Key : lost'[k] = 0 /\ (\A d \in Outstanding : d.key # k) => Kept(k)
    BY <2>3, <2>4, Zenon
  <2>6. \A k \in Key : lost[k] <= lost'[k]
    BY <1>n, <2>1
  <2> QED
    BY <1>a, <2>1, <2>3, <2>5, <2>6, Zenon
<1>7. CASE CleanUp
  <2> DEFINE c == task.command
  <2>1. Finish("complete") /\ UNCHANGED <<commands, posted, memory, pointer>>
        /\ task.step = "clean" /\ ~stale
    BY <1>7 DEF CleanUp, OnlyWorker, mirror
  <2>2. PICK kept : Discard(kept) /\ undeleted' = [undeleted EXCEPT ![c.key] = kept]
    BY <1>7, Zenon DEF CleanUp
  <2>3. pointer[c.key] = Named(c)
    BY <1>0, <2>1 DEF FilesOK
  <2>4. undeleted'[c.key] = kept /\ \A k \in Key \ {c.key} : undeleted'[k] = undeleted[k]
    BY <1>f, <1>n, <2>2
  <2>5. /\ \A k \in Key : data'[k] = data[k] \ (Discards(k) \ kept)
        /\ \A k \in Key : data'[k] \subseteq data[k]
    BY <1>0, <2>2, DiscardEffect
  <2>6. Discards(c.key) = data[c.key] \ {Named(c)}
    BY <1>0, <2>1, CleanDiscards, Zenon DEF OldData
  <2>7. data'[c.key] \subseteq {Named(c)} \cup undeleted'[c.key]
    BY <1>n, <2>4, <2>5, <2>6
  <2> QED
    BY <1>g, <2>1, <2>3, <2>4, <2>5, <2>7, Zenon
<1>8. CASE RemovePointer
  <2>1. UNCHANGED <<commands, posted, memory, data, undeleted>> /\ task.step = "start"
        /\ task.command.kind = "remove"
    BY <1>8, Zenon DEF RemovePointer, OnlyWorker, mirror, AtStep
  <2>2. CASE stale
    <3>1. Finish("complete") /\ UNCHANGED pointer
      BY <1>8, <2>2, Zenon DEF RemovePointer
    <3>2. pointer[task.command.key] = Named(task.command) /\ data[task.command.key] = {}
      BY <1>0, <1>n, <2>1, <2>2, Zenon DEF FilesOK, Named
    <3> QED
      BY <1>g, <2>1, <3>1, <3>2
  <2>3. CASE ~stale
    <3>1. pointer' = [pointer EXCEPT ![task.command.key] = 0] /\ UNCHANGED lost
          /\ MovedTo("clean")
      BY <1>0, <1>8, <2>3, Moves, Zenon DEF RemovePointer
    <3>2. Outstanding' = Outstanding /\ task.command \in Outstanding
      BY <1>i, <2>1, <3>1, Zenon DEF Step
    <3>3. \A k \in Key \ {task.command.key} : Kept(k)
      BY <1>f, <2>1, <3>1
    <3> QED
      BY <1>a, <1>n, <2>1, <3>1, <3>2, <3>3
  <2> QED
    BY <2>2, <2>3
<1>9. CASE Evict
  <2>1. UNCHANGED <<commands, posted, memory, undeleted>> /\ task.step = "evict"
        /\ \E kept : Discard(kept)
    BY <1>9 DEF Evict, OnlyWorker, mirror, AtStep
  <2>2. \A k \in Key : data'[k] \subseteq data[k]
    BY <1>0, <2>1, DiscardEffect, Zenon
  <2>3. CASE Candidates = {}
    <3>1. Finish("failed") /\ UNCHANGED pointer
      BY <1>9, <2>3, Zenon DEF Evict
    <3> QED
      BY <1>e, <2>1, <2>2, <3>1
  <2>4. CASE Candidates # {}
    <3>1. PICK oldest \in Key \ {task.command.key} :
            /\ pointer' = [pointer EXCEPT ![oldest] = 0]
            /\ lost' = Missed(oldest, task.command.sequence)
            /\ MovedTo("evicted")
      BY <1>0, <1>9, <2>4, EvictEffect, Zenon
    <3>2. Outstanding' = Outstanding
      BY <1>i, <2>1, <3>1, Zenon DEF Step
    <3>3. task.command.sequence \in 0 .. MaxCommands
      BY <1>0, Numbers, Zenon
    <3>4. task.command.sequence < lost'[oldest] /\ \A k \in Key : lost[k] <= lost'[k]
      BY <1>0, <3>1, <3>3, MissedEffect, Zenon
    <3>5. lost'[oldest] # 0
      BY <1>l, <1>n, <3>4
    <3>6. \A k \in Key \ {oldest} : Kept(k)
      BY <1>f, <2>1, <2>2, <3>1, Zenon
    <3> QED
      BY <1>a, <2>1, <3>2, <3>4, <3>5, <3>6, Zenon
  <2> QED
    BY <2>3, <2>4
<1>10. CASE MeetStale
  <2>1. UNCHANGED <<commands, posted, memory, data, pointer, undeleted>> /\ task.step # "idle"
    BY <1>10, Zenon DEF MeetStale, OnlyWorker, mirror, files, AtStep
  <2>2. CASE MayRetry
    <3>1. UNCHANGED lost /\ MovedTo("start")
      BY <1>0, <1>10, <2>2, Moves, Zenon DEF MeetStale
    <3>2. Outstanding' = Outstanding
      BY <1>i, <2>1, <3>1 DEF Step
    <3>3. \A k \in Key : lost[k] <= lost'[k] /\ Kept(k)
      BY <1>n, <2>1, <3>1
    <3> QED
      BY <1>a, <2>1, <3>2, <3>3
  <2>3. CASE ~MayRetry
    <3>1. Finish("failed")
      BY <1>10, <2>3, Zenon DEF MeetStale
    <3> QED
      BY <1>e, <2>1, <3>1
  <2> QED
    BY <2>2, <2>3
<1>11. CASE CommandFails
  <2>1. Finish("failed") /\ UNCHANGED <<commands, posted, memory, pointer, undeleted>>
        /\ task.step # "idle" /\ \E kept : Discard(kept)
    BY <1>11, Zenon DEF CommandFails, OnlyWorker, mirror
  <2>2. \A k \in Key : data'[k] \subseteq data[k]
    BY <1>0, <2>1, DiscardEffect, Zenon
  <2> QED
    BY <1>e, <2>1, <2>2, Zenon
<1>12. CASE SiteDataLost
  <2>1. UNCHANGED <<memory, commands, posted, task>>
    BY <1>12 DEF SiteDataLost, mirror
  <2>2. Outstanding' = Outstanding
    BY <2>1 DEF Outstanding, Waiting
  <2>3. \A k \in Key : lost[k] <= lost'[k] /\ lost'[k] # 0
    BY <1>0, <1>12, LossEffect, Zenon
  <2> QED
    BY <1>a, <2>1, <2>2, <2>3, Zenon
<1>13. CASE Reload
  <2>1. task' = NoTask /\ posted' = <<>> /\ commands' = <<>> /\ memory' = Loaded
    BY <1>13, Zenon DEF Reload
  <2>2. Outstanding' = {}
    BY <2>1, NoTaskType DEF Outstanding, Waiting, Elements
  <2>3. next_sequence # 0
    BY <1>0 DEF TypeOK
  <2>4. ASSUME NEW k \in Key, lost'[k] = 0
        PROVE  pointer'[k] = Loaded[k] /\ data'[k] \subseteq {pointer'[k]} \cup undeleted'[k]
    BY <1>13, <2>3, <2>4, ReloadEffect, Zenon
  <2> QED
    BY <2>1, <2>2, <2>4, Zenon DEF MirrorOK
<1> QED
  BY <1>1, <1>2, <1>3, <1>4, <1>5, <1>6, <1>7, <1>8, <1>9, <1>10, <1>11, <1>12, <1>13, Zenon
     DEF Next, Work

(***************************************************************************)
(* The counters.                                                           *)
(***************************************************************************)
LEMMA CountersStep == RepositoryInv /\ [Next]_vars => CountersAreExact'
<1> SUFFICES ASSUME RepositoryInv, [Next]_vars PROVE CountersAreExact'
  OBVIOUS
<1>0. TypeOK /\ TaskOK /\ OrderOK /\ CountersAreExact
  BY DEF RepositoryInv
<1>s. commands \in Seq(Command) /\ posted \in Seq(Command)
  BY <1>0 DEF TypeOK
<1>n. in_flight \in Nat /\ queued_bytes \in Nat /\ replies \in Nat /\ Len(posted) \in Nat
  BY <1>0, <1>s, Numbers
<1>e. /\ queued_bytes = Cardinality(Publications(commands))
      /\ ~miscounted => in_flight = Len(posted) + replies + (IF task = NoTask THEN 0 ELSE 1)
  BY <1>0 DEF CountersAreExact, Publications
<1>g. ASSUME queued_bytes' = Cardinality(Publications(commands')),
             ~miscounted' =>
               in_flight' = Len(posted') + replies' + (IF task' = NoTask THEN 0 ELSE 1)
      PROVE  CountersAreExact'
  BY <1>g DEF CountersAreExact, Publications
<1>a. ASSUME UNCHANGED <<commands, queued_bytes, in_flight, posted, miscounted>>,
             task # NoTask,
             \/ task' = NoTask /\ replies' = replies + 1
             \/ task' # NoTask /\ replies' = replies
      PROVE  CountersAreExact'
  BY <1>a, <1>e, <1>g, <1>n
<1>f. ASSUME NEW outcome \in {"complete", "failed"}, Finish(outcome), task.step # "idle"
      PROVE  task # NoTask /\ task' = NoTask /\ replies' = replies + 1
  BY <1>0, <1>f, FinishEffect, Zenon DEF TaskOK
<1>i. ASSUME task.step # "idle", NEW step, MovedTo(step)
      PROVE  task # NoTask /\ task' # NoTask
  BY <1>0, <1>i, NoTaskType DEF MovedTo
<1>1. ASSUME NEW k \in Key, Publish(k) \/ Remove(k) PROVE CountersAreExact'
  <2>1. UNCHANGED <<in_flight, posted, replies, task, miscounted>>
    BY <1>1 DEF Publish, Remove
  <2>2. CASE UNCHANGED <<commands, queued_bytes>>
    BY <1>e, <1>g, <2>1, <2>2
  <2>3. CASE ~UNCHANGED <<commands, queued_bytes>>
    <3>1. PICK kind \in {"publish", "remove"} :
            /\ commands' = Append(commands, [kind |-> kind, key |-> k, sequence |-> next_sequence])
            /\ queued_bytes' = queued_bytes + (IF kind = "publish" THEN 1 ELSE 0)
            /\ next_sequence <= MaxCommands
      <4>1. CASE Publish(k)
        BY <2>3, <4>1, Zenon DEF Publish, Enqueue
      <4>2. CASE Remove(k)
        <5>1. queued_bytes' = queued_bytes + 0
          BY <1>n, <4>2 DEF Remove
        <5> QED
          BY <4>2, <5>1, Zenon DEF Remove, Enqueue
      <4> QED
        BY <1>1, <4>1, <4>2, Zenon
    <3> DEFINE c == [kind |-> kind, key |-> k, sequence |-> next_sequence]
    <3>2. next_sequence \in 0 .. MaxCommands
      BY <1>0, <3>1, Numbers
    <3>3. c \in Command /\ c.kind = kind
      BY <3>2 DEF Command
    <3> HIDE DEF c
    <3>4. Cardinality(Publications(Append(commands, c)))
            = Cardinality(Publications(commands)) + (IF c.kind = "publish" THEN 1 ELSE 0)
      BY <1>s, <3>3, CountAppend, Zenon
    <3>5. queued_bytes' = Cardinality(Publications(commands'))
      BY <1>e, <3>1, <3>3, <3>4 DEF c
    <3> QED
      BY <1>e, <1>g, <2>1, <3>5, Zenon
  <2> QED
    BY <2>2, <2>3, Zenon
<1>2. CASE Pump
  <2> DEFINE c == Head(commands)
  <2>1. commands # <<>> /\ commands' = Tail(commands) /\ UNCHANGED <<replies, task, miscounted>>
        /\ queued_bytes' = queued_bytes - (IF c.kind = "publish" THEN 1 ELSE 0)
    BY <1>2 DEF Pump, ByteCount
  <2>2. Cardinality(Publications(commands))
          = Cardinality(Publications(commands')) + (IF c.kind = "publish" THEN 1 ELSE 0)
    BY <1>s, <2>1, CountTail
  <2>3. commands' \in Seq(Command)
    BY <1>s, <2>1, TakeCommandOff
  <2>4. Cardinality(Publications(commands')) \in Nat
    BY <2>3, PublicationsFinite
  <2>5. queued_bytes' = Cardinality(Publications(commands'))
    BY <1>e, <1>n, <2>1, <2>2, <2>4
  <2>6. \/ posted' = Append(posted, c) /\ in_flight' = in_flight + 1
        \/ UNCHANGED <<posted, in_flight>>
    BY <1>2 DEF Pump
  <2>7. posted' = Append(posted, c) => Len(posted') = Len(posted) + 1
    BY <1>s
  <2>8. ~miscounted' =>
          in_flight' = Len(posted') + replies' + (IF task' = NoTask THEN 0 ELSE 1)
    BY <1>e, <1>n, <2>1, <2>6, <2>7
  <2> QED
    BY <1>g, <2>5, <2>8, Zenon
<1>3. CASE HandleReply
  <2>1. UNCHANGED <<commands, queued_bytes, posted, task, miscounted>> /\ replies > 0
        /\ replies' = replies - 1 /\ in_flight' = IF in_flight = 0 THEN 0 ELSE in_flight - 1
    BY <1>3, Zenon DEF HandleReply, AfterReply
  <2> QED
    BY <1>e, <1>g, <1>n, <2>1
<1>4. CASE HandleError
  BY <1>4, <1>e, <1>g, Zenon DEF HandleError
<1>5. CASE TakeCommand
  <2>1. Len(posted) = Len(posted') + 1 /\ Len(posted') \in Nat /\ task' # NoTask
    BY <1>0, <1>5, TakeEffect
  <2>2. task = NoTask /\ UNCHANGED <<commands, queued_bytes, in_flight, replies, miscounted>>
    BY <1>5 DEF TakeCommand, mirror
  <2> QED
    BY <1>e, <1>g, <1>n, <2>1, <2>2
<1>6. CASE WriteData \/ WritePointer \/ PointerOverQuota \/ RemoveEvicted
  <2>1. UNCHANGED <<commands, queued_bytes, in_flight, posted, miscounted, replies>>
        /\ task.step # "idle"
    BY <1>6 DEF WriteData, WritePointer, PointerOverQuota, RemoveEvicted, OnlyWorker, mirror, AtStep
  <2>2. \E step : MovedTo(step)
    BY <1>0, <1>6, Moves, Zenon
  <2> QED
    BY <1>a, <1>i, <2>1, <2>2
<1>7. CASE CleanUp \/ CommandFails
  <2>1. UNCHANGED <<commands, queued_bytes, in_flight, posted, miscounted>>
        /\ task.step # "idle" /\ \E outcome \in {"complete", "failed"} : Finish(outcome)
    BY <1>7 DEF CleanUp, CommandFails, OnlyWorker, mirror
  <2> QED
    BY <1>a, <1>f, <2>1, Zenon
<1>8. CASE RemovePointer
  <2>1. UNCHANGED <<commands, queued_bytes, in_flight, posted, miscounted>> /\ task.step # "idle"
    BY <1>8 DEF RemovePointer, OnlyWorker, mirror, AtStep
  <2>2. Finish("complete") \/ (MovedTo("clean") /\ UNCHANGED replies)
    BY <1>0, <1>8, Moves, Zenon DEF RemovePointer
  <2> QED
    BY <1>a, <1>f, <1>i, <2>1, <2>2, Zenon
<1>9. CASE Evict
  <2>1. UNCHANGED <<commands, queued_bytes, in_flight, posted, miscounted>> /\ task.step # "idle"
    BY <1>9 DEF Evict, OnlyWorker, mirror, AtStep
  <2>2. Finish("failed") \/ (MovedTo("evicted") /\ UNCHANGED replies)
    <3>1. CASE Candidates = {}
      BY <1>9, <3>1, Zenon DEF Evict
    <3>2. CASE Candidates # {}
      BY <1>0, <1>9, <3>2, EvictEffect, Zenon
    <3> QED
      BY <3>1, <3>2
  <2> QED
    BY <1>a, <1>f, <1>i, <2>1, <2>2, Zenon
<1>10. CASE MeetStale
  <2>1. UNCHANGED <<commands, queued_bytes, in_flight, posted, miscounted>> /\ task.step # "idle"
    BY <1>10 DEF MeetStale, OnlyWorker, mirror, AtStep
  <2>2. Finish("failed") \/ (MovedTo("start") /\ UNCHANGED replies)
    BY <1>0, <1>10, Moves, Zenon DEF MeetStale
  <2> QED
    BY <1>a, <1>f, <1>i, <2>1, <2>2
<1>11. CASE SiteDataLost \/ UNCHANGED vars
  <2>1. UNCHANGED <<commands, queued_bytes, in_flight, posted, replies, task, miscounted>>
    BY <1>11 DEF SiteDataLost, vars, mirror
  <2> QED
    BY <1>e, <1>g, <2>1
<1>12. CASE Reload
  <2>1. commands' = <<>> /\ queued_bytes' = 0 /\ in_flight' = 0 /\ posted' = <<>>
        /\ replies' = 0 /\ task' = NoTask
    BY <1>12 DEF Reload
  <2>2. Publications(commands') = {}
    BY <2>1 DEF Publications
  <2>3. queued_bytes' = Cardinality(Publications(commands'))
    BY <2>1, <2>2, FS_EmptySet
  <2>4. in_flight' = Len(posted') + replies' + (IF task' = NoTask THEN 0 ELSE 1)
    BY <2>1
  <2> QED
    BY <1>g, <2>3, <2>4
<1> QED
  BY <1>1, <1>2, <1>3, <1>4, <1>5, <1>6, <1>7, <1>8, <1>9, <1>10, <1>11, <1>12, Zenon DEF Next, Work

-----------------------------------------------------------------------------
(* The theorems.                                                           *)

(***************************************************************************)
(* A page with empty memory over an empty directory.                       *)
(***************************************************************************)
LEMMA InitInv == Init => RepositoryInv
<1> SUFFICES ASSUME Init PROVE RepositoryInv
  OBVIOUS
<1>1. /\ memory = Empty /\ commands = <<>> /\ queued_bytes = 0 /\ in_flight = 0
      /\ next_sequence = 1 /\ posted = <<>> /\ replies = 0 /\ task = NoTask /\ stale = FALSE
      /\ data = NoFiles /\ undeleted = NoFiles /\ pointer = Empty /\ lost = Empty
      /\ miscounted = FALSE /\ faults = 0
  BY DEF Init
<1>2. MaxCommands \in Nat /\ MaxQueued \in Nat /\ MaxInFlight \in Nat /\ MaxFaults \in Nat
  BY BrowserRepositoryAssumption
<1>3. TypeOK
  <2>1. Empty \in [Key -> 0 .. MaxCommands] /\ Empty \in [Key -> 0 .. MaxCommands + 2]
    BY <1>2 DEF Empty
  <2>2. <<>> \in Seq(Command)
    OBVIOUS
  <2>3. 0 \in 0 .. MaxQueued /\ 0 \in 0 .. MaxInFlight /\ 1 \in 1 .. MaxCommands + 1
        /\ 0 \in Nat /\ 0 \in 0 .. MaxFaults
    BY <1>2
  <2>4. NoFiles \in [Key -> SUBSET (1 .. MaxCommands)]
    BY DEF NoFiles
  <2>5. NoTask \in [command : Command, retried : BOOLEAN,
                    step : {"idle", "start", "point", "clean", "evict", "evicted"},
                    victim : [key : Key, generation : 0 .. MaxCommands]]
    BY NoTaskType DEF Task, Step
  <2> QED
    BY <1>1, <2>1, <2>2, <2>3, <2>4, <2>5, Zenon DEF TypeOK
<1>4. Waiting = {} /\ Outstanding = {}
  BY <1>1, NoTaskType DEF Waiting, Outstanding, Elements
<1>5. TaskOK
  BY <1>1, NoTaskType DEF TaskOK
<1>6. OrderOK
  <2>1. Increasing(commands) /\ Increasing(posted)
    BY <1>1 DEF Increasing
  <2>2. WorkerPlaced
    BY <1>1, NoTaskType DEF WorkerPlaced, Empty
  <2>3. Elements(posted) = {}
    BY <1>1 DEF Elements
  <2> QED
    BY <1>4, <2>1, <2>2, <2>3 DEF OrderOK
<1>7. FilesOK
  BY <1>1, NoTaskType DEF FilesOK, PointerIsWhole, Empty, NoFiles
<1>8. MirrorOK
  BY <1>1, <1>4 DEF MirrorOK, Empty, NoFiles
<1>9. CountersAreExact
  <2>1. {i \in DOMAIN commands : commands[i].kind = "publish"} = {}
    BY <1>1
  <2>2. Cardinality({i \in DOMAIN commands : commands[i].kind = "publish"}) = 0
    BY <2>1, FS_EmptySet
  <2>3. in_flight = Len(posted) + replies + (IF task = NoTask THEN 0 ELSE 1)
    BY <1>1
  <2> QED
    BY <1>1, <2>2, <2>3 DEF CountersAreExact
<1> QED
  BY <1>3, <1>5, <1>6, <1>7, <1>8, <1>9, Zenon DEF RepositoryInv

(***************************************************************************)
(* RepositoryInv holds in every reachable state, whatever the worker and   *)
(* the browser do.                                                         *)
(***************************************************************************)
THEOREM RepositoryInvHolds == Spec => []RepositoryInv
<1>1. RepositoryInv /\ [Next]_vars => RepositoryInv'
  BY TypeStep, TaskStep, OrderStep, FilesStep, MirrorStep, CountersStep DEF RepositoryInv
<1> QED
  BY InitInv, <1>1, PTL DEF Spec

(***************************************************************************)
(* The two limits that pump_commands and publish enforce, and the types,   *)
(* hold for every number of keys and commands.                             *)
(***************************************************************************)
THEOREM TypeCorrect == Spec => []TypeOK
<1>1. RepositoryInv => TypeOK
  BY Zenon DEF RepositoryInv
<1> QED
  BY <1>1, RepositoryInvHolds, PTL

(***************************************************************************)
(* The data file is closed before publishOnce writes its pointer, and      *)
(* neither clean-up nor eviction removes what a pointer names.             *)
(***************************************************************************)
THEOREM PointerIsWholeHolds == Spec => []PointerIsWhole
<1>1. RepositoryInv => PointerIsWhole
  BY Zenon DEF RepositoryInv, FilesOK
<1> QED
  BY <1>1, RepositoryInvHolds, PTL

(***************************************************************************)
(* Once the queue, the port and the worker are empty, the directory holds  *)
(* for a key what the page's memory holds, unless a command was missed,    *)
(* and no superseded data but what cleanupOldData could not remove.        *)
(***************************************************************************)
THEOREM QuietMirrorsMemoryHolds == Spec => []QuietMirrorsMemory
<1>1. RepositoryInv => QuietMirrorsMemory
  <2> SUFFICES ASSUME RepositoryInv, Quiet, NEW k \in Key, lost[k] = 0
               PROVE  pointer[k] = memory[k] /\ data[k] \subseteq {pointer[k]} \cup undeleted[k]
    BY DEF QuietMirrorsMemory
  <2>1. Outstanding = {}
    BY NoTaskType DEF Quiet, Outstanding, Waiting, Elements
  <2> QED
    BY <2>1 DEF RepositoryInv, MirrorOK
<1> QED
  BY <1>1, RepositoryInvHolds, PTL

(***************************************************************************)
(* queued_bytes and in_flight of MirrorState count what they stand for.    *)
(***************************************************************************)
THEOREM CountersAreExactHolds == Spec => []CountersAreExact
<1>1. RepositoryInv => CountersAreExact
  BY DEF RepositoryInv
<1> QED
  BY <1>1, RepositoryInvHolds, PTL
=============================================================================
