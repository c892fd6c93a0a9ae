--------------------------- MODULE StorageProofs ---------------------------
(***************************************************************************)
(* Proofs about the raw event store: its state is well formed, and files,  *)
(* buffer and channel hold what was sent, in every behaviour; and when no  *)
(* two runs start in the same second, the files of a run are closed        *)
(* without a hole, and what was counted stays readable in one closed file. *)
(***************************************************************************)
EXTENDS Storage, Lemmas

-----------------------------------------------------------------------------
(***************************************************************************)
(* Sequences of events                                                     *)
(***************************************************************************)
Once(s) == \A i, j \in DOMAIN s : s[i] = s[j] => i = j

\* An appended event is one more of the sequence's, new if it was not there.
LEMMA AppendOne ==
  ASSUME NEW s \in Seq(Nat), NEW e \in Nat
  PROVE  /\ Append(s, e) \in Seq(Nat)
         /\ Ids(Append(s, e)) = Ids(s) \cup {e}
         /\ Once(s) /\ e \notin Ids(s) => Once(Append(s, e))
<1>1. Append(s, e) \in Seq(Nat) /\ DOMAIN s = 1..Len(s)
      /\ Len(s) \in Nat
  OBVIOUS
<1>2. DOMAIN Append(s, e) = 1..Len(s) + 1
  OBVIOUS
<1>3. \A i \in 1..Len(s) : Append(s, e)[i] = s[i]
  OBVIOUS
<1>4. Append(s, e)[Len(s) + 1] = e
  OBVIOUS
<1>5. Ids(Append(s, e)) = Ids(s) \cup {e}
  <2>1. ASSUME NEW x \in Ids(Append(s, e)) PROVE x \in Ids(s) \cup {e}
    BY <1>1, <1>2, <1>3, <1>4 DEF Ids
  <2>2. ASSUME NEW x \in Ids(s) PROVE x \in Ids(Append(s, e))
    BY <1>1, <1>2, <1>3 DEF Ids
  <2>3. e \in Ids(Append(s, e))
    BY <1>1, <1>2, <1>4 DEF Ids
  <2> QED BY <2>1, <2>2, <2>3
<1>6. Once(s) /\ e \notin Ids(s) => Once(Append(s, e))
  BY <1>1, <1>2, <1>3, <1>4 DEF Once, Ids
<1> QED BY <1>1, <1>5, <1>6

\* Taking the head leaves the others, and not the head again.
LEMMA TakeHead ==
  ASSUME NEW s \in Seq(Nat), s # <<>>
  PROVE  /\ Head(s) \in Nat /\ Head(s) \in Ids(s)
         /\ Tail(s) \in Seq(Nat)
         /\ Ids(Tail(s)) \subseteq Ids(s)
         /\ Once(s) => Once(Tail(s)) /\ Head(s) \notin Ids(Tail(s))
<1>1. Len(s) \in Nat \ {0} /\ DOMAIN s = 1..Len(s) /\ Head(s) = s[1]
  OBVIOUS
<1>2. Tail(s) \in Seq(Nat) /\ DOMAIN Tail(s) = 1..Len(s) - 1
  BY <1>1
<1>3. \A i \in 1..Len(s) - 1 : Tail(s)[i] = s[i + 1]
  BY <1>1
<1>4. Head(s) \in Nat /\ Head(s) \in Ids(s)
  BY <1>1 DEF Ids
<1>5. Ids(Tail(s)) \subseteq Ids(s)
  BY <1>1, <1>2, <1>3 DEF Ids
<1>6. ASSUME Once(s) PROVE Once(Tail(s)) /\ Head(s) \notin Ids(Tail(s))
  BY <1>1, <1>2, <1>3, <1>6, SMTT(40) DEF Once, Ids
<1> QED BY <1>2, <1>4, <1>5, <1>6

\* Nothing is queued in an empty sequence.
LEMMA EmptyQueue == <<>> \in Seq(Nat) /\ Ids(<<>>) = {} /\ Once(<<>>)
  BY DEF Ids, Once

-----------------------------------------------------------------------------
(***************************************************************************)
(* Types                                                                   *)
(***************************************************************************)
\* The statistics that are published are numbers.
LEMMA PublishType ==
  ASSUME TypeOK, Publish,
         buffer' \in Seq(Nat), records' \in Nat, batches' \in Nat, flushErrors' \in Nat
  PROVE  published' \in [buffered : Nat, records : Nat, batches : Nat, flushErrors : Nat]
BY DEF Publish

\* A file put on the disk is of its type, and no other changes.
LEMMA StoreType ==
  ASSUME TypeOK, NEW file \in File, Store(ThisFile, file)
  PROVE  /\ DOMAIN disk' \subseteq Seconds \X Nat
         /\ \A f \in DOMAIN disk' : disk'[f] \in File
<1>1. ThisFile \in Seconds \X Nat
  BY DEF TypeOK, ThisFile
<1> QED BY <1>1 DEF TypeOK, Store

\* Every step keeps the types, and the rule that only a running task holds a queue.
LEMMA TypeStep == TypeOK /\ [Next]_vars => TypeOK'
<1> SUFFICES ASSUME TypeOK, [Next]_vars PROVE TypeOK'
  OBVIOUS
<1> USE EmptyQueue
<1>1. CASE SendEvent
  <2>1. Append(chan, sent + 1) \in Seq(Nat)
    BY AppendOne DEF TypeOK
  <2> QED BY <1>1, <2>1 DEF SendEvent, TypeOK, ReceiverLives, writerVars
<1>2. CASE Crash
  <2>1. chan' \in Seq(Nat) /\ buffer' \in Seq(Nat)
    BY <1>2 DEF Crash
  <2> QED BY <1>2, <2>1 DEF Crash, TypeOK, ReceiverLives, writerVars
<1>3. ASSUME NEW d \in Seconds, Start(d) PROVE TypeOK'
  <2>1. published' \in [buffered : Nat, records : Nat, batches : Nat, flushErrors : Nat]
    BY <1>3, PublishType DEF Start, TypeOK
  <2> QED BY <1>3, <2>1 DEF Start, TypeOK, ReceiverLives
<1>4. CASE StartErr
  BY <1>4 DEF StartErr, TypeOK, ReceiverLives, writerVars
<1>5. CASE TakeEvent
  <2>1. chan' \in Seq(Nat) /\ buffer' \in Seq(Nat)
    BY <1>5, TakeHead, AppendOne DEF TakeEvent, TypeOK
  <2>2. /\ pc' \in {"idle", "opening"} /\ after' \in {"idle", "ended"}
        /\ published' \in [buffered : Nat, records : Nat, batches : Nat, flushErrors : Nat]
    BY <1>5, <2>1, PublishType DEF TakeEvent, TypeOK, writerVars
  <2> QED BY <1>5, <2>1, <2>2 DEF TakeEvent, TypeOK, ReceiverLives, writerVars
<1>6. CASE FlushTick
  BY <1>6 DEF FlushTick, TypeOK, ReceiverLives, writerVars
<1>7. CASE Shutdown
  <2>1. CASE buffer # <<>>
    BY <1>7, <2>1 DEF Shutdown, TypeOK, ReceiverLives, writerVars
  <2>2. CASE buffer = <<>>
    <3>1. published' \in [buffered : Nat, records : Nat, batches : Nat, flushErrors : Nat]
      BY <1>7, <2>2, PublishType DEF Shutdown, TypeOK, writerVars
    <3>2. chan' \in Seq(Nat)
      BY <1>7, <2>2 DEF Shutdown
    <3> QED BY <1>7, <2>2, <3>1, <3>2 DEF Shutdown, TypeOK, ReceiverLives, writerVars
  <2> QED BY <2>1, <2>2
<1>8. CASE SendersGone
  BY <1>8 DEF SendersGone, TypeOK, ReceiverLives, writerVars
<1>9. CASE FlushCreate
  <2>1. [valid |-> FALSE, events |-> <<>>] \in File
    BY DEF File
  <2>2. /\ DOMAIN disk' \subseteq Seconds \X Nat
        /\ \A f \in DOMAIN disk' : disk'[f] \in File
    BY <1>9, <2>1, StoreType DEF FlushCreate
  <2> QED BY <1>9, <2>2 DEF FlushCreate, TypeOK, ReceiverLives, writerVars
<1>10. CASE FlushErr
  <2>1. published' \in [buffered : Nat, records : Nat, batches : Nat, flushErrors : Nat]
    BY <1>10, PublishType DEF FlushErr, Return, TypeOK, writerVars
  <2>2. chan' \in Seq(Nat) /\ (pc' = "ended" => chan' = <<>>) /\ pc' \in {"idle", "ended"}
    BY <1>10 DEF FlushErr, Return, TypeOK
  <2> QED BY <1>10, <2>1, <2>2 DEF FlushErr, Return, TypeOK, ReceiverLives, writerVars
<1>11. CASE FlushOk
  <2>1. [valid |-> TRUE, events |-> buffer] \in File
    BY DEF File, TypeOK
  <2>2. /\ DOMAIN disk' \subseteq Seconds \X Nat
        /\ \A f \in DOMAIN disk' : disk'[f] \in File
    BY <1>11, <2>1, StoreType DEF FlushOk
  <2>3. buffer' \in Seq(Nat) /\ records' \in Nat /\ batches' \in Nat /\ flushErrors' \in Nat
    BY <1>11 DEF FlushOk, TypeOK
  <2>4. published' \in [buffered : Nat, records : Nat, batches : Nat, flushErrors : Nat]
    BY <1>11, <2>3, PublishType DEF FlushOk, Return
  <2>5. chan' \in Seq(Nat) /\ (pc' = "ended" => chan' = <<>>) /\ pc' \in {"idle", "ended"}
    BY <1>11 DEF FlushOk, Return, TypeOK
  <2>6. counted' \in SUBSET Nat
    <3>1. \A i \in DOMAIN buffer : buffer[i] \in Nat
      BY DEF TypeOK
    <3> QED BY <1>11, <3>1 DEF FlushOk, TypeOK, Ids
  <2> QED BY <1>11, <2>2, <2>3, <2>4, <2>5, <2>6 DEF FlushOk, Return, TypeOK, ReceiverLives
<1>12. CASE UNCHANGED vars
  BY <1>12 DEF vars, TypeOK, ReceiverLives, writerVars
<1> QED
  BY <1>1, <1>2, <1>3, <1>4, <1>5, <1>6, <1>7, <1>8, <1>9, <1>10, <1>11, <1>12
  DEF Next, Flush

\* Every variable has its type, in every behaviour: also when runs share a second.
THEOREM TypeCorrect == Spec => []TypeOK
<1>1. Init => TypeOK
  BY EmptyQueue DEF Init, TypeOK, NoStats, ReceiverLives
<1> QED BY <1>1, TypeStep, PTL DEF Spec

-----------------------------------------------------------------------------
(***************************************************************************)
(* The inductive invariant                                                 *)
(***************************************************************************)
\* What is queued was sent, is queued once, and is in no file yet.
QueueInv ==
  /\ Once(chan)
  /\ Ids(buffer) \cap Ids(chan) = {}
  /\ Ids(buffer) \cup Ids(chan) \subseteq 1..sent
  /\ \A f \in DOMAIN disk : /\ Ids(disk[f].events) \subseteq 1..sent
                            /\ Ids(disk[f].events) \cap (Ids(buffer) \cup Ids(chan)) = {}

\* A running task has closed the files up to its count; the next may be there,
\* unfinished, and none is beyond.
FilesInv ==
  ReceiverLives =>
    /\ \A f \in DOMAIN disk : f[1] = dir => f[2] <= batches + 1
    /\ \A n \in 1..batches : <<dir, n>> \in DOMAIN disk /\ disk[<<dir, n>>].valid
    /\ ThisFile \in DOMAIN disk => ~disk[ThisFile].valid

IInv == TypeOK /\ QueueInv /\ FilesInv /\ OnlyTheLastFileIsUnreadable /\ CountedIsKept

\* An event is stored when a closed file holds it.
LEMMA StoredIs ==
  \A e : e \in Stored <=> \E f \in DOMAIN disk : disk[f].valid /\ e \in Ids(disk[f].events)
BY DEF Stored

\* Without a change on the disk, what is counted is kept and files stay closed.
LEMMA DiskUnchanged ==
  ASSUME disk' = disk
  PROVE  /\ OnlyTheLastFileIsUnreadable => OnlyTheLastFileIsUnreadable'
         /\ CountedIsKept /\ counted' = counted => CountedIsKept'
BY DEF OnlyTheLastFileIsUnreadable, CountedIsKept, Stored, Ids

\* Nothing is queued anew and no file changes: the queue stays sound.
LEMMA QueueShrinks ==
  ASSUME QueueInv, disk' = disk, sent' = sent, buffer' = buffer \/ buffer' = <<>>,
         chan' = chan \/ chan' = <<>>
  PROVE  QueueInv'
<1>1. Ids(buffer') \subseteq Ids(buffer) /\ Ids(chan') \subseteq Ids(chan) /\ Once(chan')
  BY EmptyQueue DEF QueueInv
<1>2. \A f \in DOMAIN disk : Ids(disk'[f].events) = Ids(disk[f].events)
  OBVIOUS
<1> QED BY <1>1, <1>2 DEF QueueInv, Ids

\* Neither the files nor the place in them change: the count still fits them.
LEMMA SamePlace ==
  ASSUME FilesInv, disk' = disk, dir' = dir, batches' = batches,
         ReceiverLives' => ReceiverLives
  PROVE  FilesInv'
BY DEF FilesInv, ThisFile

\* A file of a new name, or in place of an unfinished one, leaves the others.
LEMMA StoreFiles ==
  ASSUME IInv, ReceiverLives, NEW file \in File, Store(ThisFile, file)
  PROVE  /\ ThisFile \in DOMAIN disk' /\ disk'[ThisFile] = file
         /\ DOMAIN disk' = DOMAIN disk \cup {ThisFile}
         /\ \A f \in DOMAIN disk \ {ThisFile} : disk'[f] = disk[f]
         /\ \A f \in DOMAIN disk : disk[f].valid => f # ThisFile
         /\ OnlyTheLastFileIsUnreadable'
<1>1. /\ ThisFile \in DOMAIN disk' /\ disk'[ThisFile] = file
      /\ DOMAIN disk' = DOMAIN disk \cup {ThisFile}
      /\ \A f \in DOMAIN disk \ {ThisFile} : disk'[f] = disk[f]
      /\ \A f \in DOMAIN disk : disk[f].valid => f # ThisFile
  BY DEF Store, IInv, FilesInv
<1>2. ASSUME NEW f \in DOMAIN disk', NEW n \in 1..f[2] - 1
      PROVE  <<f[1], n>> \in DOMAIN disk' /\ disk'[<<f[1], n>>].valid
  <2>1. <<f[1], n>> \in DOMAIN disk /\ disk[<<f[1], n>>].valid
    <3>1. CASE f = ThisFile
      <4>1. f[1] = dir /\ n \in 1..batches
        BY <3>1 DEF ThisFile, IInv, TypeOK
      <4> QED BY <4>1 DEF IInv, FilesInv
    <3>2. CASE f # ThisFile
      BY <1>1, <3>2 DEF IInv, OnlyTheLastFileIsUnreadable
    <3> QED BY <3>1, <3>2
  <2> QED BY <1>1, <2>1
<1>3. OnlyTheLastFileIsUnreadable'
  BY <1>2 DEF OnlyTheLastFileIsUnreadable
<1> QED BY <1>1, <1>3

\* Creating a file empties no closed one.
LEMMA CreateStep == IInv /\ FlushCreate => QueueInv' /\ FilesInv' /\ CountedIsKept'
                                             /\ OnlyTheLastFileIsUnreadable'
<1> SUFFICES ASSUME IInv, FlushCreate
             PROVE  QueueInv' /\ FilesInv' /\ CountedIsKept' /\ OnlyTheLastFileIsUnreadable'
  OBVIOUS
<1> DEFINE file == [valid |-> FALSE, events |-> <<>>]
<1>1. file \in File /\ Ids(file.events) = {} /\ ~file.valid
  BY EmptyQueue DEF File
<1>2. ReceiverLives /\ Store(ThisFile, file)
  BY DEF FlushCreate, ReceiverLives
<1>3. /\ dir' = dir /\ batches' = batches /\ buffer' = buffer /\ chan' = chan
      /\ sent' = sent /\ counted' = counted /\ ThisFile' = ThisFile
  BY DEF FlushCreate, writerVars, ThisFile
<1> HIDE DEF file
<1>4. /\ ThisFile \in DOMAIN disk' /\ disk'[ThisFile] = file
      /\ DOMAIN disk' = DOMAIN disk \cup {ThisFile}
      /\ \A f \in DOMAIN disk \ {ThisFile} : disk'[f] = disk[f]
      /\ \A f \in DOMAIN disk : disk[f].valid => f # ThisFile
      /\ OnlyTheLastFileIsUnreadable'
  BY <1>1, <1>2, StoreFiles
<1>5. QueueInv'
  <2>1. Ids(buffer') = Ids(buffer) /\ Ids(chan') = Ids(chan) /\ Once(chan')
    BY <1>3 DEF IInv, QueueInv
  <2>2. ASSUME NEW f \in DOMAIN disk'
        PROVE  /\ Ids(disk'[f].events) \subseteq 1..sent
               /\ Ids(disk'[f].events) \cap (Ids(buffer) \cup Ids(chan)) = {}
    <3>1. CASE f = ThisFile
      BY <1>1, <1>4, <3>1
    <3>2. CASE f # ThisFile
      BY <1>4, <3>2 DEF IInv, QueueInv
    <3> QED BY <3>1, <3>2
  <2>3. /\ Ids(buffer) \cap Ids(chan) = {}
        /\ Ids(buffer) \cup Ids(chan) \subseteq 1..sent
    BY DEF IInv, QueueInv
  <2> QED BY <1>3, <2>1, <2>2, <2>3 DEF QueueInv, Ids
<1>6. FilesInv'
  <2>1. ThisFile = <<dir, batches + 1>> /\ batches \in Nat
    BY DEF ThisFile, IInv, TypeOK
  <2>2. \A f \in DOMAIN disk' : f[1] = dir => f[2] <= batches + 1
    BY <1>2, <1>4, <2>1 DEF IInv, FilesInv
  <2>3. \A n \in 1..batches : <<dir, n>> \in DOMAIN disk' /\ disk'[<<dir, n>>].valid
    BY <1>2, <1>4 DEF IInv, FilesInv
  <2> QED BY <1>1, <1>3, <1>4, <2>2, <2>3 DEF FilesInv
<1>7. CountedIsKept'
  <2>1. ASSUME NEW f \in DOMAIN disk', disk'[f].valid
        PROVE  f \in DOMAIN disk /\ disk[f].valid /\ disk'[f] = disk[f]
    BY <1>1, <1>4, <2>1
  <2>2. \A f \in DOMAIN disk : disk[f].valid => f \in DOMAIN disk' /\ disk'[f] = disk[f]
    BY <1>4
  <2>3. Stored \subseteq Stored'
    BY <2>2 DEF Stored
  <2>4. counted' \subseteq Stored'
    BY <1>3, <2>3 DEF IInv, CountedIsKept
  <2>5. \A f, g \in DOMAIN disk' :
          f # g /\ disk'[f].valid /\ disk'[g].valid
            => Ids(disk'[f].events) \cap Ids(disk'[g].events) = {}
    BY <2>1 DEF IInv, CountedIsKept
  <2> QED BY <2>4, <2>5 DEF CountedIsKept, Ids
<1> QED BY <1>4, <1>5, <1>6, <1>7

\* Closing the file counts what was buffered, which no other file holds.
LEMMA CloseStep == IInv /\ FlushOk => QueueInv' /\ FilesInv' /\ CountedIsKept'
                                         /\ OnlyTheLastFileIsUnreadable'
<1> SUFFICES ASSUME IInv, FlushOk
             PROVE  QueueInv' /\ FilesInv' /\ CountedIsKept' /\ OnlyTheLastFileIsUnreadable'
  OBVIOUS
<1> DEFINE file == [valid |-> TRUE, events |-> buffer]
<1>1. file \in File /\ file.events = buffer /\ file.valid
  BY DEF File, IInv, TypeOK
<1>2. ReceiverLives /\ Store(ThisFile, file)
  BY DEF FlushOk, ReceiverLives
<1>3. /\ dir' = dir /\ batches' = batches + 1 /\ buffer' = <<>>
      /\ sent' = sent /\ counted' = counted \cup Ids(buffer)
      /\ chan' = chan \/ chan' = <<>>
  BY DEF FlushOk, Return
<1>4. ThisFile = <<dir, batches + 1>> /\ batches \in Nat /\ ThisFile' = <<dir, batches + 2>>
  BY <1>3 DEF ThisFile, IInv, TypeOK
<1> HIDE DEF file
<1>5. /\ ThisFile \in DOMAIN disk' /\ disk'[ThisFile] = file
      /\ DOMAIN disk' = DOMAIN disk \cup {ThisFile}
      /\ \A f \in DOMAIN disk \ {ThisFile} : disk'[f] = disk[f]
      /\ \A f \in DOMAIN disk : disk[f].valid => f # ThisFile
      /\ OnlyTheLastFileIsUnreadable'
  BY <1>1, <1>2, StoreFiles
<1>6. QueueInv'
  <2>1. Ids(buffer') = {} /\ Ids(chan') \subseteq Ids(chan) /\ Once(chan')
    BY <1>3, EmptyQueue DEF IInv, QueueInv
  <2>2. ASSUME NEW f \in DOMAIN disk'
        PROVE  /\ Ids(disk'[f].events) \subseteq 1..sent
               /\ Ids(disk'[f].events) \cap Ids(chan) = {}
    <3>1. CASE f = ThisFile
      BY <1>1, <1>5, <3>1 DEF IInv, QueueInv
    <3>2. CASE f # ThisFile
      BY <1>5, <3>2 DEF IInv, QueueInv
    <3> QED BY <3>1, <3>2
  <2>3. Ids(buffer') \cup Ids(chan') \subseteq 1..sent
    BY <2>1 DEF IInv, QueueInv
  <2> QED BY <1>3, <2>1, <2>2, <2>3 DEF QueueInv, Ids
<1>7. FilesInv'
  <2>1. \A f \in DOMAIN disk' : f[1] = dir => f[2] <= batches + 2
    <3>1. \A f \in DOMAIN disk : f[2] \in Nat
      BY DEF IInv, TypeOK
    <3> QED BY <1>2, <1>4, <1>5, <3>1 DEF IInv, FilesInv
  <2>2. \A n \in 1..batches + 1 : <<dir, n>> \in DOMAIN disk' /\ disk'[<<dir, n>>].valid
    BY <1>1, <1>2, <1>4, <1>5 DEF IInv, FilesInv
  <2>3. <<dir, batches + 2>> \notin DOMAIN disk'
    BY <1>2, <1>4, <1>5 DEF IInv, FilesInv
  <2> QED BY <1>3, <1>4, <2>1, <2>2, <2>3 DEF FilesInv
<1>8. CountedIsKept'
  <2>1. \A f \in DOMAIN disk : disk[f].valid => f \in DOMAIN disk' /\ disk'[f] = disk[f]
    BY <1>5
  <2>2. Stored \subseteq Stored'
    BY <2>1 DEF Stored
  <2>3. Ids(buffer) \subseteq Stored'
    BY <1>1, <1>5 DEF Stored
  <2>4. counted' \subseteq Stored'
    BY <1>3, <2>2, <2>3 DEF IInv, CountedIsKept
  <2>5. ASSUME NEW f \in DOMAIN disk', NEW g \in DOMAIN disk',
               f # g, disk'[f].valid, disk'[g].valid
        PROVE  Ids(disk'[f].events) \cap Ids(disk'[g].events) = {}
    <3>1. \A h \in DOMAIN disk : Ids(disk[h].events) \cap Ids(buffer) = {}
      BY DEF IInv, QueueInv
    <3>2. CASE f = ThisFile
      BY <1>1, <1>5, <2>5, <3>1, <3>2
    <3>3. CASE g = ThisFile
      BY <1>1, <1>5, <2>5, <3>1, <3>3
    <3>4. CASE f # ThisFile /\ g # ThisFile
      BY <1>5, <2>5, <3>4 DEF IInv, CountedIsKept
    <3> QED BY <3>2, <3>3, <3>4
  <2> QED BY <2>4, <2>5 DEF CountedIsKept, Ids
<1> QED BY <1>5, <1>6, <1>7, <1>8

\* When no two runs share a second, every step keeps the invariant.
LEMMA Step ==
  ASSUME FreshDirs
  PROVE  IInv /\ [Next]_vars => IInv'
<1> SUFFICES ASSUME IInv, [Next]_vars PROVE IInv'
  OBVIOUS
<1>0. TypeOK'
  BY TypeStep DEF IInv
<1>1. CASE SendEvent
  <2>1. sent \in Nat /\ chan \in Seq(Nat) /\ sent + 1 \notin Ids(chan)
        /\ sent + 1 \notin Ids(buffer)
    BY DEF IInv, TypeOK, QueueInv
  <2>2. Ids(chan') = Ids(chan) \cup {sent + 1} /\ Once(chan')
    BY <1>1, <2>1, AppendOne DEF SendEvent, IInv, QueueInv
  <2>3. disk' = disk /\ sent' = sent + 1 /\ buffer' = buffer /\ counted' = counted
        /\ dir' = dir /\ batches' = batches /\ pc' = pc
    BY <1>1 DEF SendEvent, writerVars
  <2>4. \A f \in DOMAIN disk : sent + 1 \notin Ids(disk[f].events)
    BY <2>1 DEF IInv, QueueInv
  <2>5. Ids(buffer') = Ids(buffer)
        /\ \A f \in DOMAIN disk : Ids(disk'[f].events) = Ids(disk[f].events)
    BY <2>3
  <2>6. QueueInv'
    <3>1. Ids(buffer') \cup Ids(chan') \subseteq 1..sent'
      BY <2>1, <2>2, <2>3, <2>5 DEF IInv, QueueInv
    <3>2. Ids(buffer') \cap Ids(chan') = {}
      BY <2>1, <2>2, <2>5 DEF IInv, QueueInv
    <3>3. \A f \in DOMAIN disk' : /\ Ids(disk'[f].events) \subseteq 1..sent'
                                  /\ Ids(disk'[f].events) \cap (Ids(buffer') \cup Ids(chan')) = {}
      <4> SUFFICES ASSUME NEW f \in DOMAIN disk
                   PROVE  /\ Ids(disk[f].events) \subseteq 1..sent + 1
                          /\ Ids(disk[f].events)
                               \cap (Ids(buffer) \cup Ids(chan) \cup {sent + 1}) = {}
        BY <2>2, <2>3, <2>5
      <4>1. /\ Ids(disk[f].events) \subseteq 1..sent
            /\ Ids(disk[f].events) \cap (Ids(buffer) \cup Ids(chan)) = {}
        BY DEF IInv, QueueInv
      <4> QED BY <2>1, <2>4, <4>1
    <3> QED BY <2>2, <3>1, <3>2, <3>3 DEF QueueInv, Ids
  <2> QED BY <1>0, <2>3, <2>6, DiskUnchanged, SamePlace DEF IInv, ReceiverLives
<1>2. CASE Crash
  <2>1. disk' = disk /\ counted' = counted /\ QueueInv' /\ FilesInv'
    BY <1>2, QueueShrinks DEF Crash, IInv, FilesInv, ReceiverLives
  <2> QED BY <1>0, <2>1, DiskUnchanged DEF IInv
<1>3. ASSUME NEW d \in Seconds, Start(d) PROVE IInv'
  <2>1. disk' = disk /\ counted' = counted /\ dir' = d /\ batches' = 0 /\ QueueInv'
    BY <1>3, QueueShrinks DEF Start, IInv
  <2>2. \A f \in DOMAIN disk : f[1] # d
    BY <1>3 DEF Start
  <2>3. FilesInv'
    BY <2>1, <2>2 DEF FilesInv, ThisFile
  <2> QED BY <1>0, <2>1, <2>3, DiskUnchanged DEF IInv
<1>4. CASE StartErr
  <2>1. disk' = disk /\ counted' = counted /\ QueueInv' /\ FilesInv'
    BY <1>4, QueueShrinks DEF StartErr, IInv, FilesInv, ReceiverLives
  <2> QED BY <1>0, <2>1, DiskUnchanged DEF IInv
<1>5. CASE TakeEvent
  <2>1. /\ chan # <<>> /\ chan' = Tail(chan) /\ buffer' = Append(buffer, Head(chan))
        /\ disk' = disk /\ counted' = counted /\ sent' = sent /\ dir' = dir
        /\ batches' = batches /\ ReceiverLives
    BY <1>5 DEF TakeEvent, writerVars, ReceiverLives
  <2>2. /\ Head(chan) \in Nat /\ Head(chan) \in Ids(chan) /\ Once(chan')
        /\ Ids(chan') \subseteq Ids(chan) /\ Head(chan) \notin Ids(chan')
    BY <2>1, TakeHead DEF IInv, TypeOK, QueueInv
  <2>3. Ids(buffer') = Ids(buffer) \cup {Head(chan)}
    BY <2>1, <2>2, AppendOne DEF IInv, TypeOK
  <2>4. \A f \in DOMAIN disk : Ids(disk'[f].events) = Ids(disk[f].events)
    BY <2>1
  <2>5. QueueInv'
    <3>1. Ids(buffer') \cup Ids(chan') \subseteq Ids(buffer) \cup Ids(chan)
      BY <2>2, <2>3
    <3>2. Ids(buffer') \cap Ids(chan') = {}
      BY <2>2, <2>3 DEF IInv, QueueInv
    <3>3. \A f \in DOMAIN disk' : /\ Ids(disk'[f].events) \subseteq 1..sent'
                                  /\ Ids(disk'[f].events) \cap (Ids(buffer') \cup Ids(chan')) = {}
      BY <2>1, <2>4, <3>1 DEF IInv, QueueInv
    <3>4. Ids(buffer') \cup Ids(chan') \subseteq 1..sent'
      BY <2>1, <3>1 DEF IInv, QueueInv
    <3> QED BY <2>2, <3>2, <3>3, <3>4 DEF QueueInv, Ids
  <2> QED BY <1>0, <2>1, <2>5, DiskUnchanged, SamePlace DEF IInv
<1>6. CASE FlushTick
  <2>1. disk' = disk /\ counted' = counted /\ QueueInv' /\ FilesInv'
    BY <1>6, QueueShrinks, SamePlace DEF FlushTick, IInv, writerVars, ReceiverLives
  <2> QED BY <1>0, <2>1, DiskUnchanged DEF IInv
<1>7. CASE Shutdown
  <2>1. disk' = disk /\ counted' = counted /\ QueueInv' /\ FilesInv'
    BY <1>7, QueueShrinks, SamePlace DEF Shutdown, IInv, writerVars, ReceiverLives
  <2> QED BY <1>0, <2>1, DiskUnchanged DEF IInv
<1>8. CASE SendersGone
  <2>1. disk' = disk /\ counted' = counted /\ QueueInv' /\ FilesInv'
    BY <1>8, QueueShrinks, SamePlace DEF SendersGone, IInv, writerVars, ReceiverLives
  <2> QED BY <1>0, <2>1, DiskUnchanged DEF IInv
<1>9. CASE FlushCreate
  BY <1>0, <1>9, CreateStep DEF IInv
<1>10. CASE FlushErr
  <2>1. disk' = disk /\ counted' = counted /\ QueueInv' /\ FilesInv'
    BY <1>10, QueueShrinks, SamePlace DEF FlushErr, Return, IInv, writerVars, ReceiverLives
  <2> QED BY <1>0, <2>1, DiskUnchanged DEF IInv
<1>11. CASE FlushOk
  BY <1>0, <1>11, CloseStep DEF IInv
<1>12. CASE UNCHANGED vars
  <2>1. disk' = disk /\ counted' = counted /\ QueueInv' /\ FilesInv'
    BY <1>12, QueueShrinks, SamePlace DEF vars, IInv, writerVars, ReceiverLives
  <2> QED BY <1>0, <2>1, DiskUnchanged DEF IInv
<1> QED
  BY <1>1, <1>2, <1>3, <1>4, <1>5, <1>6, <1>7, <1>8, <1>9, <1>10, <1>11, <1>12
  DEF Next, Flush

-----------------------------------------------------------------------------
(***************************************************************************)
(* The recording of a run, in any second it may share with another         *)
(***************************************************************************)
\* The events after a up to b, in order
Run(a, b) == [i \in 1 .. b - a |-> a + i]

(***************************************************************************)
(* RecordingIsComplete speaks of all files at once and is not inductive.   *)
(* Here end[n] is the last event of file n: each file, then the buffer and *)
(* then the channel go on where the one before ends.                       *)
(***************************************************************************)
EndsAt(end) ==
  /\ end \in [0 .. batches -> Nat]
  /\ end[0] = base
  /\ \A n \in 0 .. batches : base <= end[n]
  /\ \A n \in 1 .. batches : /\ end[n - 1] <= end[n]
                             /\ <<dir, n>> \in DOMAIN disk
                             /\ disk[<<dir, n>>].events = Run(end[n - 1], end[n])

Queued(last) ==
  \E mid \in Nat : /\ last <= mid /\ mid <= sent
                   /\ buffer = Run(last, mid)
                   /\ chan = Run(mid, sent)

RecInv == ReceiverLives => \E end : EndsAt(end) /\ Queued(end[batches])

\* A range is a sequence.
LEMMA RunType ==
  ASSUME NEW a \in Nat, NEW b \in Nat, a <= b
  PROVE  /\ Run(a, b) \in Seq(Nat) /\ Len(Run(a, b)) = b - a
         /\ \A i \in 1 .. b - a : Run(a, b)[i] = a + i
BY DEF Run

\* Ranges of events that meet join.
LEMMA RunsJoin ==
  ASSUME NEW a \in Nat, NEW b \in Nat, NEW c \in Nat, a <= b, b <= c
  PROVE  Run(a, b) \o Run(b, c) = Run(a, c)
<1> DEFINE s == Run(a, b)
           t == Run(b, c)
           u == Run(a, c)
<1>1. s \in Seq(Nat) /\ Len(s) = b - a /\ \A i \in 1 .. b - a : s[i] = a + i
  BY RunType
<1>2. t \in Seq(Nat) /\ Len(t) = c - b /\ \A i \in 1 .. c - b : t[i] = b + i
  BY RunType
<1>3. u \in Seq(Nat) /\ Len(u) = c - a /\ \A i \in 1 .. c - a : u[i] = a + i
  <2>1. a <= c
    OBVIOUS
  <2> QED BY <2>1, RunType
<1> HIDE DEF s, t, u
<1>4. /\ s \o t \in Seq(Nat) /\ Len(s \o t) = Len(s) + Len(t)
      /\ \A i \in 1 .. Len(s) + Len(t) :
           (s \o t)[i] = IF i <= Len(s) THEN s[i] ELSE t[i - Len(s)]
  BY <1>1, <1>2, ConcatProperties
<1>5. Len(s) + Len(t) = c - a
  BY <1>1, <1>2
<1>6. ASSUME NEW i \in 1 .. c - a PROVE (s \o t)[i] = u[i]
  <2>1. CASE i <= b - a
    BY <1>1, <1>3, <1>4, <1>5, <2>1
  <2>2. CASE i > b - a
    <3>1. PICK j \in 1 .. c - b : j = i - (b - a)
      BY <2>2
    <3>2. (s \o t)[i] = t[j]
      BY <1>1, <1>4, <1>5, <2>2, <3>1
    <3>3. t[j] = b + j /\ u[i] = a + i
      BY <1>2, <1>3
    <3>4. b + j = a + i
      BY <3>1
    <3> QED BY <3>2, <3>3, <3>4, Zenon
  <2>3. i <= b - a \/ i > b - a
    OBVIOUS
  <2> QED BY <2>1, <2>2, <2>3, Zenon
<1>7. s \o t = u
  BY <1>3, <1>4, <1>5, <1>6, SeqEqual
<1> QED BY <1>7 DEF s, t, u

\* The next event prolongs a range, the head of a range shortens it.
LEMMA RunsMove ==
  ASSUME NEW a \in Nat, NEW b \in Nat, a <= b
  PROVE  /\ Append(Run(a, b), b + 1) = Run(a, b + 1)
         /\ Run(a, b) # <<>> => /\ a < b /\ Head(Run(a, b)) = a + 1
                                /\ Tail(Run(a, b)) = Run(a + 1, b)
         /\ Run(a, a) = <<>>
<1> DEFINE s == Run(a, b)
           t == Run(a, b + 1)
           u == Run(a + 1, b)
<1>1. s \in Seq(Nat) /\ Len(s) = b - a /\ \A i \in 1 .. b - a : s[i] = a + i
  BY RunType
<1>2. t \in Seq(Nat) /\ Len(t) = b + 1 - a /\ \A i \in 1 .. b + 1 - a : t[i] = a + i
  BY RunType
<1>3. a < b => u \in Seq(Nat) /\ Len(u) = b - a - 1 /\ \A i \in 1 .. b - a - 1 : u[i] = a + 1 + i
  <2>1. SUFFICES ASSUME a < b
                 PROVE  u \in Seq(Nat) /\ Len(u) = b - a - 1
                        /\ \A i \in 1 .. b - a - 1 : u[i] = a + 1 + i
    OBVIOUS
  <2>2. a + 1 \in Nat /\ a + 1 <= b /\ b - (a + 1) = b - a - 1
    BY <2>1
  <2> QED BY <2>2, RunType
<1>4. Run(a, a) \in Seq(Nat) /\ Len(Run(a, a)) = 0
  BY RunType
<1> HIDE DEF s, t, u
<1>5. Append(s, b + 1) = t
  <2>1. Append(s, b + 1) \in Seq(Nat) /\ Len(Append(s, b + 1)) = b + 1 - a
    BY <1>1
  <2>2. \A i \in 1 .. b + 1 - a : Append(s, b + 1)[i] = t[i]
    BY <1>1, <1>2
  <2> QED BY <1>2, <2>1, <2>2, SeqEqual
<1>6. ASSUME s # <<>> PROVE a < b /\ Head(s) = a + 1 /\ Tail(s) = u
  <2>1. Len(s) > 0
    BY <1>1, <1>6
  <2>2. a < b /\ Head(s) = a + 1
    BY <1>1, <2>1
  <2>3. /\ Tail(s) \in Seq(Nat) /\ Len(Tail(s)) = b - a - 1
        /\ \A i \in 1 .. b - a - 1 : Tail(s)[i] = s[i + 1]
    BY <1>1, <1>6, HeadTailProperties
  <2>4. \A i \in 1 .. b - a - 1 : Tail(s)[i] = u[i]
    BY <1>1, <1>3, <2>2, <2>3
  <2> QED BY <1>3, <2>2, <2>3, <2>4, SeqEqual
<1>7. Run(a, a) = <<>>
  BY <1>4
<1> QED BY <1>5, <1>6, <1>7 DEF s, t, u

\* What is read back of files that follow one another is one range.
LEMMA ContentsAreARun ==
  ASSUME batches \in Nat, base \in Nat, NEW end, EndsAt(end)
  PROVE  Contents(dir, batches) = Run(base, end[batches])
<1> DEFINE g == [k \in 0 .. batches |-> Run(base, end[k])]
           Longer(f, k) == f[k - 1] \o disk[<<dir, k>>].events
           Solves(f) == f = [k \in 0 .. batches |-> IF k = 0 THEN <<>> ELSE Longer(f, k)]
<1>1. ASSUME NEW k \in 1 .. batches
      PROVE  k - 1 \in 0 .. batches /\ Longer(g, k) = g[k]
  <2>1. k - 1 \in 0 .. batches /\ k \in 0 .. batches
    OBVIOUS
  <2>2. /\ end[k - 1] \in Nat /\ end[k] \in Nat
        /\ base <= end[k - 1] /\ end[k - 1] <= end[k]
        /\ disk[<<dir, k>>].events = Run(end[k - 1], end[k])
    BY <2>1 DEF EndsAt
  <2>3. Run(base, end[k - 1]) \o Run(end[k - 1], end[k]) = Run(base, end[k])
    BY <2>2, RunsJoin
  <2> QED BY <2>1, <2>2, <2>3
<1>2. g[0] = <<>>
  <2>1. g[0] = Run(base, base)
    BY DEF EndsAt
  <2> QED BY <2>1, RunsMove
<1>3. Solves(g)
  <2> DEFINE h == [k \in 0 .. batches |-> IF k = 0 THEN <<>> ELSE Longer(g, k)]
  <2>1. ASSUME NEW k \in 0 .. batches PROVE g[k] = h[k]
    <3>1. CASE k = 0
      BY <1>2, <3>1
    <3>2. CASE k # 0
      <4>1. k \in 1 .. batches
        BY <3>2
      <4>2. h[k] = Longer(g, k)
        BY <3>2
      <4> QED BY <1>1, <4>1, <4>2
    <3> QED BY <3>1, <3>2
  <2>2. g = h
    BY <2>1
  <2> QED BY <2>2
<1>4. ASSUME NEW f, Solves(f)
      PROVE  f[batches] = g[batches]
  <2> DEFINE T == {k \in 0 .. batches : f[k] # g[k]}
  <2>1. SUFFICES ASSUME T # {} PROVE FALSE
    OBVIOUS
  <2>2. PICK k \in T : \A j \in T : k <= j
    <3>1. T \subseteq Nat
      OBVIOUS
    <3> HIDE DEF T
    <3> QED BY <2>1, <3>1, LeastElement
  <2>3. k \in 0 .. batches /\ f[k] # g[k]
    BY <2>2
  <2>4. f[k] = IF k = 0 THEN <<>> ELSE Longer(f, k)
    BY <1>4, <2>3
  <2>5. k # 0
    BY <1>2, <2>3, <2>4
  <2>6. k \in 1 .. batches /\ k - 1 \notin T
    BY <2>2, <2>3, <2>5
  <2>7. f[k - 1] = g[k - 1] /\ Longer(g, k) = g[k]
    BY <1>1, <2>6
  <2>8. Longer(f, k) = Longer(g, k)
    BY <2>7
  <2> HIDE DEF T, Longer, g
  <2> QED BY <2>3, <2>4, <2>5, <2>7, <2>8
<1>5. Contents(dir, batches) = g[batches]
  BY <1>3, <1>4 DEF Contents
<1> QED BY <1>5

\* Nothing the recording is made of changes.
LEMMA RecordingAsBefore ==
  ASSUME RecInv, ReceiverLives' => ReceiverLives,
         ReceiverLives' => UNCHANGED <<sent, dir, batches, base, disk, buffer, chan>>
  PROVE  RecInv'
<1> SUFFICES ASSUME ReceiverLives' PROVE (\E end : EndsAt(end) /\ Queued(end[batches]))'
  BY DEF RecInv
<1>1. PICK end : EndsAt(end) /\ Queued(end[batches])
  BY DEF RecInv
<1>2. UNCHANGED <<sent, dir, batches, base, disk, buffer, chan>>
  OBVIOUS
<1>3. EndsAt(end)' /\ Queued(end[batches])'
  BY <1>1, <1>2 DEF EndsAt, Queued
<1> QED BY <1>3

\* The ends of the files stay when only another file of the run is written.
LEMMA EndsStay ==
  ASSUME batches \in Nat, NEW end, EndsAt(end), UNCHANGED <<dir, batches, base>>,
         NEW file, Store(ThisFile, file)
  PROVE  EndsAt(end)'
<1>1. ASSUME NEW n \in 1 .. batches
      PROVE  <<dir, n>> \in DOMAIN disk' /\ disk'[<<dir, n>>] = disk[<<dir, n>>]
  <2>1. <<dir, n>> \in DOMAIN disk /\ <<dir, n>> # ThisFile
    BY DEF EndsAt, ThisFile
  <2> QED BY <2>1 DEF Store
<1> QED BY <1>1 DEF EndsAt

\* Every step keeps the recording together.
LEMMA RecStep == TypeOK /\ RecInv /\ [Next]_vars => RecInv'
<1> SUFFICES ASSUME TypeOK, RecInv, [Next]_vars PROVE RecInv'
  OBVIOUS
<1>1. CASE SendEvent
  <2>1. /\ ReceiverLives /\ sent' = sent + 1 /\ chan' = Append(chan, sent + 1)
        /\ UNCHANGED <<dir, batches, base, disk, buffer>>
    BY <1>1 DEF SendEvent, writerVars
  <2>2. PICK end : EndsAt(end) /\ Queued(end[batches])
    BY <2>1 DEF RecInv
  <2>3. PICK mid \in Nat : /\ end[batches] <= mid /\ mid <= sent
                           /\ buffer = Run(end[batches], mid) /\ chan = Run(mid, sent)
    BY <2>2 DEF Queued
  <2>4. sent \in Nat /\ batches \in Nat /\ end[batches] \in Nat
    BY <2>2 DEF TypeOK, EndsAt
  <2>5. chan' = Run(mid, sent') /\ mid <= sent'
    <3>1. Append(Run(mid, sent), sent + 1) = Run(mid, sent + 1)
      BY <2>3, <2>4, RunsMove
    <3> QED BY <2>1, <2>3, <2>4, <3>1
  <2>6. Queued(end[batches])'
    BY <2>1, <2>3, <2>5 DEF Queued
  <2>7. EndsAt(end)'
    BY <2>1, <2>2 DEF EndsAt
  <2> QED BY <2>6, <2>7 DEF RecInv
<1>2. CASE Crash
  BY <1>2 DEF Crash, RecInv, ReceiverLives
<1>3. ASSUME NEW d \in Seconds, Start(d) PROVE RecInv'
  <2> DEFINE end == [n \in {0} |-> sent]
  <2>1. /\ batches' = 0 /\ base' = sent /\ sent' = sent /\ chan' = <<>> /\ buffer' = <<>>
        /\ sent \in Nat
    BY <1>3 DEF Start, TypeOK, ReceiverLives
  <2>2. 0 .. batches' = {0} /\ 1 .. batches' = {}
    BY <2>1
  <2>3. EndsAt(end)'
    BY <2>1, <2>2 DEF EndsAt
  <2>4. end[batches'] = sent /\ buffer' = Run(sent, sent) /\ chan' = Run(sent, sent')
    BY <2>1, RunsMove
  <2>5. Queued(end[batches])'
    BY <2>1, <2>4 DEF Queued
  <2> QED BY <2>3, <2>5 DEF RecInv
<1>4. CASE StartErr
  BY <1>4 DEF StartErr, RecInv, ReceiverLives
<1>5. CASE TakeEvent
  <2>1. /\ ReceiverLives /\ chan # <<>> /\ chan' = Tail(chan)
        /\ buffer' = Append(buffer, Head(chan))
        /\ UNCHANGED <<sent, dir, batches, base, disk>>
    BY <1>5 DEF TakeEvent, ReceiverLives, writerVars
  <2>2. PICK end : EndsAt(end) /\ Queued(end[batches])
    BY <2>1 DEF RecInv
  <2>3. PICK mid \in Nat : /\ end[batches] <= mid /\ mid <= sent
                           /\ buffer = Run(end[batches], mid) /\ chan = Run(mid, sent)
    BY <2>2 DEF Queued
  <2>4. sent \in Nat /\ batches \in Nat /\ end[batches] \in Nat
    BY <2>2 DEF TypeOK, EndsAt
  <2>5. mid < sent /\ Head(chan) = mid + 1 /\ chan' = Run(mid + 1, sent)
    BY <2>1, <2>3, <2>4, RunsMove
  <2>6. buffer' = Run(end[batches], mid + 1)
    <3>1. Append(Run(end[batches], mid), mid + 1) = Run(end[batches], mid + 1)
      BY <2>3, <2>4, RunsMove
    <3> QED BY <2>1, <2>3, <2>5, <3>1, Zenon
  <2>7. Queued(end[batches])'
    <3>1. mid + 1 \in Nat /\ end[batches] <= mid + 1 /\ mid + 1 <= sent
      BY <2>3, <2>4, <2>5
    <3> QED BY <2>1, <2>5, <2>6, <3>1 DEF Queued
  <2>8. EndsAt(end)'
    BY <2>1, <2>2 DEF EndsAt
  <2> QED BY <2>7, <2>8 DEF RecInv
<1>6. CASE FlushTick
  BY <1>6, RecordingAsBefore DEF FlushTick, ReceiverLives, writerVars
<1>7. CASE Shutdown
  BY <1>7, RecordingAsBefore DEF Shutdown, ReceiverLives, writerVars
<1>8. CASE SendersGone
  BY <1>8, RecordingAsBefore DEF SendersGone, ReceiverLives, writerVars
<1>9. CASE FlushCreate
  <2>1. /\ ReceiverLives /\ Store(ThisFile, [valid |-> FALSE, events |-> <<>>])
        /\ UNCHANGED <<sent, dir, batches, base, buffer, chan>>
    BY <1>9 DEF FlushCreate, ReceiverLives, writerVars
  <2>2. PICK end : EndsAt(end) /\ Queued(end[batches])
    BY <2>1 DEF RecInv
  <2>3. EndsAt(end)'
    BY <2>1, <2>2, EndsStay DEF TypeOK
  <2>4. Queued(end[batches])'
    BY <2>1, <2>2 DEF Queued
  <2> QED BY <2>3, <2>4 DEF RecInv
<1>10. CASE FlushErr
  BY <1>10, RecordingAsBefore DEF FlushErr, Return, ReceiverLives, writerVars, TypeOK
<1>11. CASE FlushOk
  <2> SUFFICES ASSUME ReceiverLives' PROVE (\E end : EndsAt(end) /\ Queued(end[batches]))'
    BY DEF RecInv
  <2> DEFINE file == [valid |-> TRUE, events |-> buffer]
  <2>1. /\ ReceiverLives /\ Store(ThisFile, file) /\ file.events = buffer
        /\ buffer' = <<>> /\ batches' = batches + 1 /\ chan' = chan
        /\ UNCHANGED <<sent, dir, base>>
    BY <1>11 DEF FlushOk, Return, ReceiverLives
  <2> HIDE DEF file
  <2>2. PICK end : EndsAt(end) /\ Queued(end[batches])
    BY <2>1 DEF RecInv
  <2>3. PICK mid \in Nat : /\ end[batches] <= mid /\ mid <= sent
                           /\ buffer = Run(end[batches], mid) /\ chan = Run(mid, sent)
    BY <2>2 DEF Queued
  <2>4. /\ sent \in Nat /\ batches \in Nat /\ end[batches] \in Nat /\ base \in Nat
        /\ base <= end[batches]
    BY <2>2 DEF TypeOK, EndsAt
  <2>5. PICK later \in [0 .. batches + 1 -> Nat] :
               later[batches + 1] = mid /\ \A n \in 0 .. batches : later[n] = end[n]
    <3> DEFINE l == [n \in 0 .. batches + 1 |-> IF n = batches + 1 THEN mid ELSE end[n]]
    <3>1. /\ l \in [0 .. batches + 1 -> Nat] /\ l[batches + 1] = mid
          /\ \A n \in 0 .. batches : l[n] = end[n]
      BY <2>2, <2>3, <2>4 DEF EndsAt
    <3> QED BY <3>1
  <2>6. ThisFile = <<dir, batches + 1>> /\ ThisFile \in DOMAIN disk'
        /\ disk'[ThisFile] = file
    BY <2>1 DEF ThisFile, Store
  <2>7. ASSUME NEW n \in 1 .. batches + 1
        PROVE  /\ later[n - 1] <= later[n] /\ <<dir, n>> \in DOMAIN disk'
               /\ disk'[<<dir, n>>].events = Run(later[n - 1], later[n])
    <3>1. CASE n = batches + 1
      <4>1. later[n - 1] = end[batches] /\ later[n] = mid
        BY <2>4, <2>5, <3>1
      <4> QED BY <2>1, <2>3, <2>6, <3>1, <4>1
    <3>2. CASE n # batches + 1
      <4>1. n \in 1 .. batches /\ n - 1 \in 0 .. batches /\ n \in 0 .. batches
        BY <2>4, <3>2
      <4>2. <<dir, n>> \in DOMAIN disk /\ <<dir, n>> # ThisFile
        BY <2>2, <2>6, <3>2, <4>1 DEF EndsAt
      <4>3. <<dir, n>> \in DOMAIN disk' /\ disk'[<<dir, n>>] = disk[<<dir, n>>]
        BY <2>1, <4>2 DEF Store
      <4> QED BY <2>2, <2>5, <4>1, <4>3 DEF EndsAt
    <3> QED BY <3>1, <3>2
  <2>8. later[0] = base /\ \A n \in 0 .. batches + 1 : base <= later[n]
    <3>1. later[0] = base /\ \A n \in 0 .. batches : base <= later[n]
      BY <2>2, <2>4, <2>5 DEF EndsAt
    <3>2. base <= mid
      BY <2>3, <2>4
    <3> QED BY <2>4, <2>5, <3>1, <3>2
  <2>9. EndsAt(later)'
    BY <2>1, <2>5, <2>7, <2>8 DEF EndsAt
  <2>10. Queued(later[batches])'
    <3>1. later[batches'] = mid /\ buffer' = Run(mid, mid)
      BY <2>1, <2>3, <2>5, RunsMove
    <3> QED BY <2>1, <2>3, <3>1 DEF Queued
  <2> QED BY <2>9, <2>10
<1>12. CASE UNCHANGED vars
  BY <1>12, RecordingAsBefore DEF vars, ReceiverLives, writerVars
<1> QED
  BY <1>1, <1>2, <1>3, <1>4, <1>5, <1>6, <1>7, <1>8, <1>9, <1>10, <1>11, <1>12
  DEF Next, Flush

\* The files, the buffer and the channel of a run hold exactly the events sent
\* to it, once and in order, whatever flush fails and is retried, and also when
\* the run shares its directory with an earlier one.  (flush,
\* spawn_parquet_storage)
THEOREM NothingIsMissing == Spec => []RecordingIsComplete
<1>1. Init => RecInv
  BY DEF Init, RecInv, ReceiverLives
<1>2. TypeOK /\ RecInv => RecordingIsComplete
  <2> SUFFICES ASSUME TypeOK, RecInv, ReceiverLives
               PROVE  Contents(dir, batches) \o buffer \o chan = Run(base, sent)
    BY DEF RecordingIsComplete, Run
  <2>1. PICK end : EndsAt(end) /\ Queued(end[batches])
    BY DEF RecInv
  <2>2. PICK mid \in Nat : /\ end[batches] <= mid /\ mid <= sent
                           /\ buffer = Run(end[batches], mid) /\ chan = Run(mid, sent)
    BY <2>1 DEF Queued
  <2>3. /\ sent \in Nat /\ batches \in Nat /\ base \in Nat /\ end[batches] \in Nat
        /\ base <= end[batches]
    BY <2>1 DEF TypeOK, EndsAt
  <2>4. Contents(dir, batches) = Run(base, end[batches])
    BY <2>1, <2>3, ContentsAreARun
  <2>5. Run(base, end[batches]) \o Run(end[batches], mid) = Run(base, mid)
    BY <2>2, <2>3, RunsJoin
  <2>6. base <= mid
    BY <2>2, <2>3
  <2>7. Run(base, mid) \o Run(mid, sent) = Run(base, sent)
    BY <2>2, <2>3, <2>6, RunsJoin
  <2> QED BY <2>2, <2>4, <2>5, <2>7
<1> QED BY <1>1, <1>2, RecStep, TypeCorrect, PTL DEF Spec

-----------------------------------------------------------------------------
(***************************************************************************)
(* The theorems, of runs that start in different seconds                   *)
(***************************************************************************)
\* The invariant holds in every behaviour.
THEOREM Invariance ==
  ASSUME FreshDirs
  PROVE  Spec => []IInv
<1>1. Init => IInv
  <2>1. ASSUME Init PROVE TypeOK
    BY <2>1, EmptyQueue DEF Init, TypeOK, NoStats, ReceiverLives
  <2>2. ASSUME Init PROVE QueueInv /\ FilesInv /\ OnlyTheLastFileIsUnreadable /\ CountedIsKept
    BY <2>2, EmptyQueue
    DEF Init, QueueInv, FilesInv, OnlyTheLastFileIsUnreadable, CountedIsKept, ReceiverLives
  <2> QED BY <2>1, <2>2 DEF IInv
<1> QED BY <1>1, Step, PTL DEF Spec

\* A file that cannot be read back is the last one of its run.  (flush)
THEOREM ClosedWithoutHole ==
  ASSUME FreshDirs
  PROVE  Spec => []OnlyTheLastFileIsUnreadable
BY Invariance, PTL DEF IInv

\* What records_written counts is in one closed file, whatever fails, crashes or
\* restarts afterwards.  (flush, ParquetEventWriter::new)
THEOREM CountedStays ==
  ASSUME FreshDirs
  PROVE  Spec => []CountedIsKept
BY Invariance, PTL DEF IInv
=============================================================================
