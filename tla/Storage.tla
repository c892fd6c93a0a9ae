------------------------------ MODULE Storage ------------------------------
(***************************************************************************)
(* The raw event store (storage.rs): a task that takes market events from  *)
(* a bounded channel, buffers them and flushes each batch to a Parquet     *)
(* file of its own, events-<n> of the directory of this run; the directory *)
(* is named after the second the run started in.                           *)
(*                                                                         *)
(* Events are numbered in the order in which they enter the channel; what  *)
(* an event says is left out.  A flush is synchronous, yet it is two steps *)
(* here, because a crash can fall between File::create, which truncates    *)
(* the file, and ArrowWriter::close, which makes it readable.              *)
(*                                                                         *)
(* pc is the place of the task:                                            *)
(*   down     there is no process                                          *)
(*   idle     waiting in select!                                           *)
(*   opening  in flush, before the file is created                         *)
(*   writing  in flush, the file created and not yet closed                *)
(*   ended    the task has returned, the process lives on                  *)
(***************************************************************************)
EXTENDS Naturals, Sequences

CONSTANTS
  Batch,           \* flush_batch_size
  ChannelCapacity, \* market_events_capacity
  Seconds,         \* the wall clock seconds a run can start in
  FreshDirs,       \* TRUE: no two runs start in the same second
  MaxEvents,       \* bound: events sent to the store
  MaxRuns          \* bound: starts of the process

ASSUME StorageAssumption ==
  /\ Batch \in Nat \ {0}
  /\ ChannelCapacity \in Nat \ {0}
  /\ FreshDirs \in BOOLEAN
  /\ MaxEvents \in Nat
  /\ MaxRuns \in Nat

VARIABLES
  pc,        \* where the task is
  chan,      \* events in the storage channel
  sent,      \* how many events have entered the channel
  dir,       \* run_dir
  buffer,    \* events taken from the channel and not yet flushed
  records, batches, flushErrors,  \* the counters of the writer
  after,     \* where flush returns to
  published, \* the last StorageStats sent on the watch channel
  disk,      \* the files: [valid, events] by directory and number
  runs,      \* the number of starts
  base,      \* history: the value of sent when this run started
  counted    \* history: events some run has added to records_written

writerVars == <<dir, records, batches, flushErrors>>
vars == <<pc, chan, sent, buffer, writerVars, after, published, disk, runs,
          base, counted>>

Events == 1 .. sent
File == [valid : BOOLEAN, events : Seq(Nat)]
Ids(s) == {s[i] : i \in DOMAIN s}

-----------------------------------------------------------------------------
(***************************************************************************)
(* The producers and the process (external to the store).                  *)
(***************************************************************************)
\* The receiver exists from the creation of the channel to the task's return.
ReceiverLives == pc \in {"idle", "opening", "writing"}

\* The fan-out or the order book engine sends an event; both wait for room,
\* and ignore the error when the receiver is gone.
SendEvent ==
  /\ ReceiverLives
  /\ sent < MaxEvents
  /\ Len(chan) < ChannelCapacity
  /\ sent' = sent + 1
  /\ chan' = Append(chan, sent + 1)
  /\ UNCHANGED <<pc, buffer, writerVars, after, published, disk, runs, base,
                 counted>>

\* The process dies: killed, powered off, or main returns before the task is
\* scheduled again.  Only the files remain.
Crash ==
  /\ pc # "down"
  /\ pc' = "down"
  /\ chan' = <<>>
  /\ buffer' = <<>>
  /\ UNCHANGED <<sent, writerVars, after, published, disk, runs, base, counted>>

-----------------------------------------------------------------------------
(***************************************************************************)
(* The task.                                                               *)
(***************************************************************************)
\* writer.stats(), evaluated on the state the handler leaves.
Publish ==
  published' = [buffered |-> Len(buffer'), records |-> records',
                batches |-> batches', flushErrors |-> flushErrors']

\* ParquetEventWriter::new: create_dir_all accepts a directory that exists.
Start(d) ==
  /\ pc = "down" /\ runs < MaxRuns
  /\ FreshDirs => d \notin {f[1] : f \in DOMAIN disk}
  /\ pc' = "idle"
  /\ runs' = runs + 1
  /\ dir' = d
  /\ records' = 0 /\ batches' = 0 /\ flushErrors' = 0
  /\ base' = sent
  /\ UNCHANGED <<chan, sent, buffer, after, disk, counted>>
  /\ Publish

\* The directory cannot be created: the task returns and drops the receiver.
StartErr ==
  /\ pc = "down" /\ runs < MaxRuns
  /\ pc' = "ended"
  /\ runs' = runs + 1
  /\ UNCHANGED <<chan, sent, buffer, writerVars, after, published, disk, base,
                 counted>>

\* An event arrives: buffer it, and flush a full batch.  push hands on the error
\* of serde_json::to_string alone, which has none to give here: the derived
\* serialisers of MarketEvent hold numbers, strings, options and vectors, and
\* write into memory.
TakeEvent ==
  /\ pc = "idle" /\ chan # <<>>
  /\ chan' = Tail(chan)
  /\ buffer' = Append(buffer, Head(chan))
  /\ UNCHANGED <<sent, writerVars, disk, runs, base, counted>>
  /\ IF Len(buffer') >= Batch
       THEN pc' = "opening" /\ after' = "idle" /\ UNCHANGED published
       ELSE Publish /\ UNCHANGED <<pc, after>>

\* Mutant: the timer flushes full batches only.
FlushTickFullOnly ==
  /\ pc = "idle" /\ Len(buffer) >= Batch
  /\ pc' = "opening" /\ after' = "idle"
  /\ UNCHANGED <<chan, sent, buffer, writerVars, published, disk, runs, base,
                 counted>>

\* The flush timer fires on a buffer that is not empty.
FlushTick ==
  /\ pc = "idle" /\ buffer # <<>>
  /\ pc' = "opening" /\ after' = "idle"
  /\ UNCHANGED <<chan, sent, buffer, writerVars, published, disk, runs, base,
                 counted>>

\* Shutdown: what is buffered is flushed, what is queued is not read.
Shutdown ==
  /\ pc = "idle"
  /\ after' = "ended"
  /\ UNCHANGED <<sent, buffer, writerVars, disk, runs, base, counted>>
  /\ IF buffer # <<>>
       THEN pc' = "opening" /\ UNCHANGED <<chan, published>>
       ELSE pc' = "ended" /\ chan' = <<>> /\ Publish

\* Every sender is gone: the task returns at once, without a flush.
SendersGone ==
  /\ pc = "idle" /\ chan = <<>>
  /\ pc' = "ended"
  /\ UNCHANGED <<chan, sent, buffer, writerVars, after, published, disk, runs, base,
                 counted>>

-----------------------------------------------------------------------------
(***************************************************************************)
(* flush                                                                   *)
(***************************************************************************)
ThisFile == <<dir, batches + 1>>

Store(f, file) ==
  disk' = [g \in DOMAIN disk \cup {f} |-> IF g = f THEN file ELSE disk[g]]

\* Mutant: the queue outlives the task.
ReturnKeepsQueue ==
  /\ pc' = after
  /\ chan' = chan
  /\ UNCHANGED <<sent, after, runs, base>>
  /\ Publish

\* Back in the handler, which publishes whether or not the flush succeeded;
\* returning from the task drops the receiver, what is queued and the writer.
Return ==
  /\ pc' = after
  /\ chan' = IF after = "ended" THEN <<>> ELSE chan
  /\ UNCHANGED <<sent, after, runs, base>>
  /\ Publish

\* File::create: an earlier file of that name is truncated.
FlushCreate ==
  /\ pc = "opening"
  /\ pc' = "writing"
  /\ Store(ThisFile, [valid |-> FALSE, events |-> <<>>])
  /\ UNCHANGED <<chan, sent, buffer, writerVars, after, published, runs, base,
                 counted>>

\* Mutant: the batch is given up with the error.
FlushErrDrops ==
  /\ pc \in {"opening", "writing"}
  /\ buffer' = <<>>
  /\ UNCHANGED <<writerVars, disk, counted>>
  /\ Return

\* Mutant: a failed batch takes a number of its own.
FlushErrCounts ==
  /\ pc \in {"opening", "writing"}
  /\ batches' = batches + 1
  /\ UNCHANGED <<buffer, dir, records, flushErrors, disk, counted>>
  /\ Return

\* build_batch or File::create fails, or the disk fills while the file is
\* written.  The buffer is kept, and so is the unfinished file.
FlushErr ==
  /\ pc \in {"opening", "writing"}
  /\ UNCHANGED <<buffer, writerVars, disk, counted>>
  /\ Return

\* Mutant: the next batch reuses the file name.
FlushOkSameFile ==
  /\ pc = "writing"
  /\ Store(ThisFile, [valid |-> TRUE, events |-> buffer])
  /\ buffer' = <<>>
  /\ records' = records + Len(buffer)
  /\ batches' = batches
  /\ counted' = counted \cup Ids(buffer)
  /\ UNCHANGED <<dir, flushErrors>>
  /\ Return

FlushOk ==
  /\ pc = "writing"
  /\ Store(ThisFile, [valid |-> TRUE, events |-> buffer])
  /\ buffer' = <<>>
  /\ records' = records + Len(buffer)
  /\ batches' = batches + 1
  /\ counted' = counted \cup Ids(buffer)
  /\ UNCHANGED <<dir, flushErrors>>
  /\ Return

-----------------------------------------------------------------------------
NoStats == [buffered |-> 0, records |-> 0, batches |-> 0, flushErrors |-> 0]

Init ==
  /\ pc = "down"
  /\ chan = <<>>
  /\ sent = 0
  /\ dir \in Seconds
  /\ buffer = <<>>
  /\ records = 0 /\ batches = 0 /\ flushErrors = 0
  /\ after = "idle"
  /\ published = NoStats
  /\ disk = <<>>
  /\ runs = 0
  /\ base = 0
  /\ counted = {}

Flush == FlushCreate \/ FlushErr \/ FlushOk

Next ==
  \/ SendEvent
  \/ Crash
  \/ \E d \in Seconds : Start(d)
  \/ StartErr
  \/ TakeEvent
  \/ FlushTick
  \/ Shutdown
  \/ SendersGone
  \/ Flush

Spec == Init /\ [][Next]_vars

\* The task is scheduled, its timer fires (select! picks at random among the
\* ready branches), and the disk does not fail for ever.
FairSpec == Spec /\ WF_vars(TakeEvent) /\ SF_vars(FlushTick)
                 /\ SF_vars(FlushCreate)
                 /\ SF_vars(FlushOk)

-----------------------------------------------------------------------------
(***************************************************************************)
(* Reading the files back.                                                 *)
(***************************************************************************)
FilesOf(d) == {f \in DOMAIN disk : f[1] = d}

\* read_events_from_parquet fails on the first file it cannot read.
Readable(d) == \A f \in FilesOf(d) : disk[f].valid

\* The contents of the first n files of d, in path order.
Contents(d, n) ==
  LET upTo[k \in 0 .. n] ==
        IF k = 0 THEN <<>> ELSE upTo[k - 1] \o disk[<<d, k>>].events
  IN  upTo[n]

Stored == UNION {Ids(disk[f].events) : f \in {g \in DOMAIN disk : disk[g].valid}}

-----------------------------------------------------------------------------
(***************************************************************************)
(* Properties.                                                             *)
(***************************************************************************)
\* Every variable has its type; only a running task holds queued events.
TypeOK ==
  /\ pc \in {"down", "idle", "opening", "writing", "ended"}
  /\ chan \in Seq(Nat)
  /\ sent \in Nat
  /\ dir \in Seconds
  /\ buffer \in Seq(Nat)
  /\ records \in Nat /\ batches \in Nat /\ flushErrors \in Nat
  /\ after \in {"idle", "ended"}
  /\ published \in [buffered : Nat, records : Nat, batches : Nat,
                    flushErrors : Nat]
  /\ DOMAIN disk \subseteq Seconds \X Nat
  /\ \A f \in DOMAIN disk : disk[f] \in File
  /\ runs \in Nat
  /\ base \in Nat
  /\ counted \in SUBSET Nat
  /\ ~ReceiverLives => chan = <<>>
  /\ pc = "down" => buffer = <<>>

\* In every state of a run its files, its buffer and the channel hold, in that
\* order, exactly the events sent to it: failed and retried flushes neither
\* lose, duplicate nor reorder an event (flush, spawn_parquet_storage).
RecordingIsComplete ==
  ReceiverLives =>
    Contents(dir, batches) \o buffer \o chan
      = [i \in 1 .. sent - base |-> base + i]

\* An event counted in records_written stays readable in a closed file, through
\* later flushes, crashes and restarts, the later in another second (flush: the
\* counters and the buffer change only after the file is closed).  "restart nao perde estado critico"
\* (docs/scalping-amt-gex-orderflow-spec.md:1886).
\* It is in one such file only: a batch retried after a failed flush is not
\* written twice, so a replay of the whole store delivers no event twice.
CountedIsKept ==
  /\ counted \subseteq Stored
  /\ \A f, g \in DOMAIN disk :
       f # g /\ disk[f].valid /\ disk[g].valid
         => Ids(disk[f].events) \cap Ids(disk[g].events) = {}

\* A file that cannot be read back is the last one of its run: the closed files
\* of a run are numbered without a hole.
OnlyTheLastFileIsUnreadable ==
  \A f \in DOMAIN disk : \A n \in 1 .. f[2] - 1 :
    <<f[1], n>> \in DOMAIN disk /\ disk[<<f[1], n>>].valid

\* An event sent to a running store reaches a closed file or the run ends:
\* the flush timer picks up what never fills a batch, and a failed flush is
\* retried.
EventuallyStored ==
  \A e \in 1 .. MaxEvents :
    (ReceiverLives /\ e \in Ids(chan) \cup Ids(buffer))
      ~> (e \in Stored \/ ~ReceiverLives)

=============================================================================
