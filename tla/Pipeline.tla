------------------------------ MODULE Pipeline ------------------------------
(***************************************************************************)
(* The running process (main.rs, supervisor.rs, shutdown.rs): market       *)
(* sources feed one raw channel, the fan-out copies each event, one send   *)
(* after the other, to the bounded channels of the supervisor, the         *)
(* engines and the store, and a cancellation token ends them all.  main    *)
(* returns with the supervisor, whatever the others do; the process ends   *)
(* once no worker thread is left inside a call to the disk, which only the *)
(* store makes.                                                            *)
(*                                                                         *)
(* An event is its source, its number at that source and its kind.  The    *)
(* engines' own logic is not here: the order book engine of OrderBook.tla  *)
(* decides by itself when it fetches a snapshot, the store of Storage.tla  *)
(* which events a flush keeps; here both may do so at any event.           *)
(***************************************************************************)
EXTENDS Naturals, Sequences, Selections

CONSTANTS
  Sources,      \* the market data streams
  Emits,        \* Emits[s][n]: the kinds the n-th event of source s may have
  Engines,      \* the feature engines; the process runs all of AllEngines
  Capacity,     \* market_events_capacity: of every channel
  MaxSnapshots  \* bound: snapshots fetched by the order book

Kinds == {"trade", "ticker", "greek", "delta", "snapshot", "kline", "heartbeat"}
Book == "orderbook"
AllEngines == {"orderflow", "profile", "gex", "hidden", "heatmap"}

ASSUME PipelineAssumption ==
  /\ Emits \in [Sources -> Seq(SUBSET Kinds)]
  /\ Book \notin Sources
  /\ Engines \subseteq AllEngines
  /\ Capacity \in Nat \ {0}
  /\ MaxSnapshots \in Nat

\* The receivers, and their places in the order in which the fan-out sends.
Consumers == Engines \cup {"supervisor", "orderbook", "storage"}
FanoutPlace ==
  [supervisor |-> 1, orderflow |-> 2, profile |-> 3, gex |-> 4, hidden |-> 5,
   heatmap |-> 6, orderbook |-> 7, storage |-> 8]

VARIABLES
  produced,  \* produced[s]: events source s has produced
  raw,       \* the raw channel
  fan,       \* the fan-out: [pc, todo], todo the receivers still to be served
  current,   \* the event being fanned out
  chan,      \* chan[c]: the channel of receiver c
  alive,     \* alive[c]: the task that holds the receiver still runs
  ob,        \* the order book's handler: idle, fetching or recording
  fetches,   \* snapshots it has fetched
  store,     \* the store's task, see StorePlaces
  buffered,  \* the store holds events it has not flushed
  state,     \* RuntimeState, as /health shows it
  sawEvent,  \* saw_market_event
  cancelled, \* the shutdown token
  exited,    \* main has returned
  routed,    \* history: the events the fan-out has taken
  handled    \* history: handled[c]: the events receiver c has taken

storeVars == <<store, buffered>>
supervisorVars == <<state, sawEvent>>
vars == <<produced, raw, fan, current, chan, alive, ob, fetches, storeVars,
          supervisorVars, cancelled, exited, routed, handled>>

Event == [src : Sources \cup {Book}, n : Nat, kind : Kinds]
NoEvent == [src |-> Book, n |-> 0, kind |-> "heartbeat"]

\* The store's task has not run yet, creates its directory, waits, writes a
\* batch, makes its final flush, or has returned; it makes its calls to the
\* disk without leaving its worker thread.
StorePlaces == {"starting", "opening", "idle", "writing", "closing", "returned"}
OnDisk == {"opening", "writing", "closing"}

States == {"BOOTING", "SYNCING_MARKET_DATA", "WARMING_FEATURES", "PAPER_READY",
           "DEGRADED", "SHUTDOWN"}

-----------------------------------------------------------------------------
(***************************************************************************)
(* The sources and the operator (external).                                *)
(***************************************************************************)
\* A source sends an event, waiting for room in the raw channel.
Produce(s, k) ==
  /\ ~exited /\ fan.pc # "returned"
  /\ produced[s] < Len(Emits[s]) /\ k \in Emits[s][produced[s] + 1]
  /\ Len(raw) < Capacity
  /\ produced' = [produced EXCEPT ![s] = @ + 1]
  /\ raw' = Append(raw, [src |-> s, n |-> produced[s] + 1, kind |-> k])
  /\ UNCHANGED <<fan, current, chan, alive, ob, fetches, storeVars,
                 supervisorVars, cancelled, exited, routed, handled>>

\* Ctrl-C cancels the token that every task's token is a child of.
CtrlC ==
  /\ ~exited /\ ~cancelled
  /\ cancelled' = TRUE
  /\ UNCHANGED <<produced, raw, fan, current, chan, alive, ob, fetches,
                 storeVars, supervisorVars, exited, routed, handled>>

-----------------------------------------------------------------------------
(***************************************************************************)
(* The fan-out.                                                            *)
(***************************************************************************)
Wants(c, kind) ==
  CASE c \in {"supervisor", "storage"}    -> TRUE
    [] c \in {"orderflow", "profile"}     -> kind = "trade"
    [] c = "gex"                          -> kind \in {"trade", "ticker", "greek"}
    [] c = "hidden"                       -> kind \in {"trade", "ticker", "delta"}
    [] c \in {"heatmap", "orderbook"}     -> kind \in {"delta", "snapshot"}

\* The receivers of an event, and the one that is served first.
Route(kind) == {c \in Consumers : Wants(c, kind)}
First(todo) ==
  CHOOSE c \in todo : \A d \in todo : FanoutPlace[c] <= FanoutPlace[d]

FanTake ==
  /\ ~exited
  /\ fan.pc = "idle" /\ raw # <<>>
  /\ raw' = Tail(raw)
  /\ current' = Head(raw)
  /\ routed' = Append(routed, Head(raw))
  /\ fan' = [pc |-> "sending", todo |-> Route(Head(raw).kind)]
  /\ UNCHANGED <<produced, chan, alive, ob, fetches, storeVars, supervisorVars,
                 cancelled, exited, handled>>

\* Mutant: a full channel is skipped (try_send).
ServeNextOrSkip(c) ==
  /\ chan' = IF alive[c] /\ Len(chan[c]) < Capacity
               THEN [chan EXCEPT ![c] = Append(@, current)] ELSE chan
  /\ fan' = IF c = "supervisor" /\ ~alive[c]
              THEN [pc |-> "returned", todo |-> {}]
              ELSE [pc |-> IF fan.todo = {c} THEN "idle" ELSE "sending",
                    todo |-> fan.todo \ {c}]

\* Mutant: the send does not wait.
ServeNextAtOnce(c) ==
  /\ chan' = IF alive[c] THEN [chan EXCEPT ![c] = Append(@, current)] ELSE chan
  /\ fan' = IF c = "supervisor" /\ ~alive[c]
              THEN [pc |-> "returned", todo |-> {}]
              ELSE [pc |-> IF fan.todo = {c} THEN "idle" ELSE "sending",
                    todo |-> fan.todo \ {c}]

\* Mutant: any receiver's absence ends the fan-out.
ServeNextOrReturn(c) ==
  /\ alive[c] => Len(chan[c]) < Capacity
  /\ chan' = IF alive[c] THEN [chan EXCEPT ![c] = Append(@, current)] ELSE chan
  /\ fan' = IF ~alive[c]
              THEN [pc |-> "returned", todo |-> {}]
              ELSE [pc |-> IF fan.todo = {c} THEN "idle" ELSE "sending",
                    todo |-> fan.todo \ {c}]

\* One send: it waits for room as long as the receiver lives; only the
\* supervisor's absence ends the fan-out.
ServeNext(c) ==
  /\ alive[c] => Len(chan[c]) < Capacity
  /\ chan' = IF alive[c] THEN [chan EXCEPT ![c] = Append(@, current)] ELSE chan
  /\ fan' = IF c = "supervisor" /\ ~alive[c]
              THEN [pc |-> "returned", todo |-> {}]
              ELSE [pc |-> IF fan.todo = {c} THEN "idle" ELSE "sending",
                    todo |-> fan.todo \ {c}]

FanSend ==
  /\ ~exited
  /\ fan.pc = "sending"
  /\ ServeNext(First(fan.todo))
  /\ UNCHANGED <<produced, raw, current, alive, ob, fetches, storeVars,
                 supervisorVars, cancelled, exited, routed, handled>>

\* The token is seen only between events.
FanStop ==
  /\ ~exited
  /\ fan.pc = "idle" /\ cancelled
  /\ fan' = [pc |-> "returned", todo |-> {}]
  /\ UNCHANGED <<produced, raw, current, chan, alive, ob, fetches, storeVars,
                 supervisorVars, cancelled, exited, routed, handled>>

-----------------------------------------------------------------------------
(***************************************************************************)
(* The receivers.                                                          *)
(***************************************************************************)
\* Receiver c takes the head of its channel.
Take(c) ==
  /\ ~exited
  /\ alive[c] /\ chan[c] # <<>>
  /\ chan' = [chan EXCEPT ![c] = Tail(@)]
  /\ handled' = [handled EXCEPT ![c] = Append(@, Head(chan[c]))]

\* recv() returns None: every sender is gone and the channel is drained.  The
\* store's channel has more senders, one of them held by main.
Closed(c) == c # "storage" /\ fan.pc = "returned" /\ chan[c] = <<>>

\* The task of receiver c returns and drops its channel.
Return(c) ==
  /\ ~exited /\ alive[c]
  /\ alive' = [alive EXCEPT ![c] = FALSE]
  /\ chan' = [chan EXCEPT ![c] = <<>>]

EngineTake(c) ==
  /\ Take(c)
  /\ UNCHANGED <<produced, raw, fan, current, alive, ob, fetches, storeVars,
                 supervisorVars, cancelled, exited, routed>>

EngineStop(c) ==
  /\ cancelled \/ Closed(c)
  /\ Return(c)
  /\ UNCHANGED <<produced, raw, fan, current, ob, fetches, storeVars,
                 supervisorVars, cancelled, exited, routed, handled>>

\* The order book engine: a delta may make it fetch a snapshot.
BookTake ==
  /\ ob = "idle"
  /\ Take("orderbook")
  /\ \/ UNCHANGED <<ob, fetches>>
     \/ /\ Head(chan["orderbook"]).kind = "delta"
        /\ fetches < MaxSnapshots
        /\ ob' = "fetching"
        /\ fetches' = fetches + 1
  /\ UNCHANGED <<produced, raw, fan, current, alive, storeVars, supervisorVars,
                 cancelled, exited, routed>>

\* The REST call returns, with a snapshot to record or with an error.
BookFetched ==
  /\ ~exited
  /\ ob = "fetching"
  /\ ob' \in {"recording", "idle"}
  /\ UNCHANGED <<produced, raw, fan, current, chan, alive, fetches, storeVars,
                 supervisorVars, cancelled, exited, routed, handled>>

\* The snapshot is sent to the store, past the fan-out.
BookRecord ==
  /\ ~exited
  /\ ob = "recording"
  /\ alive["storage"] => Len(chan["storage"]) < Capacity
  /\ chan' = IF alive["storage"]
               THEN [chan EXCEPT !["storage"] =
                       Append(@, [src |-> Book, n |-> fetches, kind |-> "snapshot"])]
               ELSE chan
  /\ ob' = "idle"
  /\ UNCHANGED <<produced, raw, fan, current, alive, fetches, storeVars,
                 supervisorVars, cancelled, exited, routed, handled>>

BookStop ==
  /\ ob = "idle"
  /\ EngineStop("orderbook")

-----------------------------------------------------------------------------
(***************************************************************************)
(* The store.                                                              *)
(***************************************************************************)
\* The store's task returns: its channel is dropped, what it held is gone.
StoreReturns ==
  /\ Return("storage")
  /\ store' = "returned"
  /\ buffered' = FALSE

\* Switched off, or replaying, the task returns at once.
StoreStart ==
  /\ store = "starting"
  /\ \/ /\ ~exited
        /\ store' = "opening"
        /\ UNCHANGED <<chan, alive, buffered>>
     \/ StoreReturns
  /\ UNCHANGED <<produced, raw, fan, current, ob, fetches, supervisorVars,
                 cancelled, exited, routed, handled>>

\* The directory is there, or could not be created.
StoreOpened ==
  /\ store = "opening"
  /\ \/ /\ store' = "idle"
        /\ UNCHANGED <<chan, alive, buffered>>
     \/ StoreReturns
  /\ UNCHANGED <<produced, raw, fan, current, ob, fetches, supervisorVars,
                 cancelled, exited, routed, handled>>

\* An event fills the batch, or not.
StoreTake ==
  /\ store = "idle"
  /\ Take("storage")
  /\ store' \in {"idle", "writing"}
  /\ buffered' = TRUE
  /\ UNCHANGED <<produced, raw, fan, current, alive, ob, fetches,
                 supervisorVars, cancelled, exited, routed>>

StoreTick ==
  /\ ~exited
  /\ store = "idle" /\ buffered
  /\ store' = "writing"
  /\ UNCHANGED <<produced, raw, fan, current, chan, alive, ob, fetches, buffered,
                 supervisorVars, cancelled, exited, routed, handled>>

\* A flush that fails keeps the batch.
StoreWritten ==
  /\ store = "writing"
  /\ store' = "idle"
  /\ buffered' \in BOOLEAN
  /\ UNCHANGED <<produced, raw, fan, current, chan, alive, ob, fetches,
                 supervisorVars, cancelled, exited, routed, handled>>

StoreStop ==
  /\ store = "idle" /\ cancelled
  /\ \/ /\ ~exited /\ buffered
        /\ store' = "closing"
        /\ UNCHANGED <<chan, alive, buffered>>
     \/ ~buffered /\ StoreReturns
  /\ UNCHANGED <<produced, raw, fan, current, ob, fetches, supervisorVars,
                 cancelled, exited, routed, handled>>

\* The final flush, with or without success.
StoreClosed ==
  /\ store = "closing"
  /\ StoreReturns
  /\ UNCHANGED <<produced, raw, fan, current, ob, fetches, supervisorVars,
                 cancelled, exited, routed, handled>>

-----------------------------------------------------------------------------
(***************************************************************************)
(* The supervisor, on main's own task.                                     *)
(***************************************************************************)
SupervisorStart ==
  /\ ~exited
  /\ state = "BOOTING"
  /\ state' = "SYNCING_MARKET_DATA"
  /\ UNCHANGED <<produced, raw, fan, current, chan, alive, ob, fetches,
                 storeVars, sawEvent, cancelled, exited, routed, handled>>

Supervising == state # "BOOTING" /\ alive["supervisor"]

SupervisorTake ==
  /\ Supervising
  /\ Take("supervisor")
  /\ sawEvent' = TRUE
  /\ UNCHANGED <<produced, raw, fan, current, alive, ob, fetches, storeVars,
                 state, cancelled, exited, routed>>

\* The heartbeat: stale_after is not consulted.
SupervisorTick ==
  /\ ~exited
  /\ Supervising
  /\ state' = IF sawEvent THEN "PAPER_READY" ELSE "WARMING_FEATURES"
  /\ UNCHANGED <<produced, raw, fan, current, chan, alive, ob, fetches,
                 storeVars, sawEvent, cancelled, exited, routed, handled>>

\* Mutant: the supervisor waits for its channel to be closed.
SupervisorStopWhenClosed ==
  /\ Supervising
  /\ Closed("supervisor") /\ state' = "SHUTDOWN"
  /\ Return("supervisor")
  /\ UNCHANGED <<produced, raw, fan, current, ob, fetches, storeVars, sawEvent,
                 cancelled, exited, routed, handled>>

\* select! picks either branch when the token is cancelled and the channel is
\* closed.
SupervisorStop ==
  /\ Supervising
  /\ \/ cancelled /\ state' = "SHUTDOWN"
     \/ Closed("supervisor") /\ state' = "DEGRADED"
  /\ Return("supervisor")
  /\ UNCHANGED <<produced, raw, fan, current, ob, fetches, storeVars, sawEvent,
                 cancelled, exited, routed, handled>>

\* main has returned with the supervisor and the runtime is dropped with every
\* task that is left: one that waits is gone, one inside a call to the disk
\* holds its worker thread, and the drop waits for the thread.
Exit ==
  /\ ~exited
  /\ ~alive["supervisor"]
  /\ store \notin OnDisk
  /\ exited' = TRUE
  /\ UNCHANGED <<produced, raw, fan, current, chan, alive, ob, fetches,
                 storeVars, supervisorVars, cancelled, routed, handled>>

-----------------------------------------------------------------------------
Init ==
  /\ produced = [s \in Sources |-> 0]
  /\ raw = <<>>
  /\ fan = [pc |-> "idle", todo |-> {}]
  /\ current = NoEvent
  /\ chan = [c \in Consumers |-> <<>>]
  /\ alive = [c \in Consumers |-> TRUE]
  /\ ob = "idle"
  /\ fetches = 0
  /\ store = "starting"
  /\ buffered = FALSE
  /\ state = "BOOTING"
  /\ sawEvent = FALSE
  /\ cancelled = FALSE
  /\ exited = FALSE
  /\ routed = <<>>
  /\ handled = [c \in Consumers |-> <<>>]

Fanout == FanTake \/ FanSend \/ FanStop
OrderBook == BookTake \/ BookFetched \/ BookRecord \/ BookStop
Disk == StoreOpened \/ StoreWritten \/ StoreClosed
Store == StoreStart \/ StoreTake \/ StoreTick \/ StoreStop \/ Disk
Supervisor == SupervisorStart \/ SupervisorTake \/ SupervisorTick \/ SupervisorStop

Next ==
  \/ \E s \in Sources : \E k \in Kinds : Produce(s, k)
  \/ CtrlC
  \/ Fanout
  \/ \E c \in Engines : EngineTake(c) \/ EngineStop(c)
  \/ OrderBook
  \/ Store
  \/ Supervisor
  \/ Exit

Spec == Init /\ [][Next]_vars

\* The scheduler runs every task that is ready, and select! does not favour a
\* branch for ever; dropping the runtime stops every worker after finitely many
\* steps.  Nothing is assumed of the sources, of Ctrl-C and of the flush timer.
TasksFair ==
  /\ WF_vars(Fanout)
  /\ \A c \in Engines : WF_vars(EngineTake(c)) /\ WF_vars(EngineStop(c))
  /\ WF_vars(BookTake) /\ WF_vars(BookRecord) /\ WF_vars(BookStop)
  /\ WF_vars(StoreStart) /\ SF_vars(StoreTake)
  /\ WF_vars(SupervisorStart) /\ SF_vars(SupervisorTake)
  /\ SF_vars(SupervisorStop) /\ SF_vars(Exit)

\* A call to the disk returns, with or without success; a REST call returns.
DiskFair == WF_vars(Disk)
RestFair == WF_vars(BookFetched)

\* Neither is part of the specification: the disk may stall and hold the
\* store's task, and the REST client sets no timeout.
FairSpec == Spec /\ TasksFair

-----------------------------------------------------------------------------
(***************************************************************************)
(* Properties.                                                             *)
(***************************************************************************)
\* Every variable has its type; channels are never over capacity.
TypeOK ==
  /\ produced \in [Sources -> Nat]
  /\ raw \in Seq(Event) /\ Len(raw) <= Capacity
  /\ fan \in [pc : {"idle", "sending", "returned"}, todo : SUBSET Consumers]
  /\ fan.pc = "sending" <=> fan.todo # {}
  /\ current \in Event
  /\ chan \in [Consumers -> Seq(Event)]
  /\ \A c \in Consumers : Len(chan[c]) <= Capacity
  /\ alive \in [Consumers -> BOOLEAN]
  /\ ob \in {"idle", "fetching", "recording"}
  /\ fetches \in Nat
  /\ store \in StorePlaces
  /\ buffered \in BOOLEAN
  /\ state \in States
  /\ sawEvent \in BOOLEAN
  /\ cancelled \in BOOLEAN /\ exited \in BOOLEAN
  /\ routed \in Seq(Event)
  /\ handled \in [Consumers -> Seq(Event)]

FromSources == {e \in Event : e.src # Book}
WantedBy(c) == {e \in Event : Wants(c, e.kind)}

\* The events of the fan-out that receiver c should have been sent by now.
Due(c) ==
  LET served == IF c \in fan.todo THEN SubSeq(routed, 1, Len(routed) - 1) ELSE routed
  IN  Only(served, WantedBy(c))

\* As long as its task and the fan-out run, a receiver has taken or has queued every event of
\* its kinds that the fan-out has served, once and in order; the snapshots
\* that reach the store past the fan-out displace none (spawn_market_fanout).
EachReceiverGetsItsEvents ==
  \A c \in Consumers : alive[c] /\ fan.pc # "returned" =>
    Only(handled[c] \o chan[c], FromSources) = Due(c)

\* Before Ctrl-C no task but the store's comes to its end, the process does not
\* end and is not shown degraded.  The store may be switched off or fail at its
\* start and drop its receiver at any moment: that brings no other task down
\* (Supervisor::run, spawn_market_fanout, spawn_parquet_storage).
OnlyShutdownEnds ==
  \/ exited
  \/ state \in {"DEGRADED", "SHUTDOWN"}
  \/ \E c \in Consumers \ {"storage"} : ~alive[c]
  => cancelled

IsNth(e, s, n) == e.src = s /\ e.n = n
Handled(c, s, n) == \E i \in DOMAIN handled[c] : IsNth(handled[c][i], s, n)
HandledByAll(s, n) ==
  \E i \in DOMAIN routed :
    /\ IsNth(routed[i], s, n)
    /\ \A c \in Route(routed[i].kind) :
         Handled(c, s, n) \/ (c = "storage" /\ ~alive["storage"])

\* If the disk and the REST service answer, every event that enters the raw
\* channel is handled by each of its receivers, unless the process is told to
\* stop or the store is not there: a full channel delays, it never loses or
\* deadlocks, and a store that returned holds nobody up.
EveryEventIsHandled ==
  DiskFair /\ RestFair =>
    \A s \in Sources : \A n \in DOMAIN Emits[s] :
      (\E i \in DOMAIN raw : IsNth(raw[i], s, n)) ~> (HandledByAll(s, n) \/ cancelled)

\* If the disk answers, Ctrl-C ends the process, even if the REST call hangs,
\* an engine no longer takes its events, or the fan-out is stuck behind a full
\* channel (Supervisor::run, main).
CtrlCExits == DiskFair => (cancelled ~> exited)

\* "hot path nunca espera disco" (docs/scalping-amt-gex-orderflow-spec.md:1441):
\* trades reach the order flow engine whatever the disk does.
HotPathKeepsMoving ==
  RestFair =>
    \A s \in Sources : \A n \in DOMAIN Emits[s] :
      (\E i \in DOMAIN raw : IsNth(raw[i], s, n) /\ Wants("orderflow", raw[i].kind))
        ~> (Handled("orderflow", s, n) \/ cancelled)

=============================================================================
