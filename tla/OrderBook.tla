----------------------------- MODULE OrderBook -----------------------------
(***************************************************************************)
(* The local Binance order book (orderbook.rs): an engine task that turns  *)
(* a lossy stream of depth deltas and REST snapshots into a copy of the    *)
(* exchange's book, and publishes statistics about it on a watch channel.  *)
(*                                                                         *)
(* The exchange numbers every update of its book.  A depth delta reports   *)
(* the updates U..u with absolute quantities, and names in pu the last     *)
(* update of the previous delta.  Deltas are lost while the websocket is   *)
(* down.  A snapshot is the book after some update, possibly a stale one,  *)
(* and lists only SnapshotDepth levels.                                    *)
(*                                                                         *)
(* The engine handles one event at a time; its handlers await only in      *)
(* sync_from_snapshot.  pc says where the handler is suspended:            *)
(*   idle       waiting in select! for the next event                      *)
(*   fetching   awaiting the REST snapshot                                 *)
(*   recording  awaiting room in the storage channel for the snapshot      *)
(*   replaying  inside the loops of replay_pending (no await: nothing      *)
(*              reads the engine's state between two iterations)           *)
(*   stopped    the task has returned                                      *)
(***************************************************************************)
EXTENDS Naturals, Sequences, FiniteSets

CONSTANTS
  Levels,          \* the price levels of both sides
  Qty,             \* the quantities a level can hold; 0 stands for no entry
  FetchSnapshots,  \* TRUE live, FALSE when a recording is replayed
  FetchMayFail,    \* whether the REST call can return an error
  PuOptional,      \* whether a delta may come without pu
  SnapshotLag,     \* how many updates a snapshot may be behind the exchange
  SnapshotDepth,   \* how many levels a snapshot lists (limit=1000)
  ChannelCapacity, \* capacity of the engine's event channel
  MaxUpdates,      \* bound: updates of the exchange's book
  MaxSnapshots     \* bound: snapshots found in a replayed recording

ASSUME OrderBookAssumption ==
  /\ Qty \subseteq Nat \ {0}
  /\ FetchSnapshots \in BOOLEAN
  /\ FetchMayFail \in BOOLEAN
  /\ PuOptional \in BOOLEAN
  /\ SnapshotLag \in Nat
  /\ SnapshotDepth \in Nat
  /\ ChannelCapacity \in Nat \ {0}
  /\ MaxUpdates \in Nat
  /\ MaxSnapshots \in Nat

VARIABLES
  books,      \* books[i]: the exchange's book after update i
  touched,    \* touched[i]: the levels update i changed (none or one)
  cursor,     \* last update reported by the depth stream
  chan,       \* events queued for the engine
  injected,   \* snapshots a recording has delivered so far
  pc,         \* where the handler is suspended
  fetched,    \* the snapshot being recorded (sync_from_snapshot)
  book,       \* bids and asks together
  seen,       \* history: the levels the engine has been told about
  last,       \* last_update_id, NoId for None
  pending,    \* deltas buffered until a snapshot arrives
  synced, inFlight, awaiting,  \* the flags of LocalOrderBook
  resyncs, gaps,               \* its counters
  published   \* the last statistics sent on the watch channel

exchangeVars == <<books, touched, cursor>>
engineVars == <<book, seen, last, pending, synced, inFlight, awaiting,
                resyncs, gaps>>
vars == <<exchangeVars, chan, injected, pc, fetched, engineVars, published>>

NoId == 0
Book == [Levels -> Qty \cup {0}]
EmptyBook == [l \in Levels |-> 0]

(***************************************************************************)
(* What the events carry.                                                  *)
(***************************************************************************)
Delta == [type : {"delta"}, U : Nat, u : Nat, pu : Nat,
          levels : SUBSET Levels, qty : Book]
Snapshot == [type : {"snapshot"}, id : Nat, levels : SUBSET Levels, qty : Book]

\* Mutant: only the levels of the delta remain.
ApplyLevelsReplaces(b, d) == [l \in d.levels |-> d.qty[l]]

\* A level of the delta is overwritten, or removed when its quantity is 0.
ApplyLevels(b, d) == [l \in Levels |-> IF l \in d.levels THEN d.qty[l] ELSE b[l]]

\* The book of a snapshot holds the levels it lists and nothing else.
SnapshotBook(s) == [l \in Levels |-> IF l \in s.levels THEN s.qty[l] ELSE 0]

(***************************************************************************)
(* The sequencing rules.                                                   *)
(***************************************************************************)
CoversSnapshot(d, id) == d.U <= id /\ d.u >= id

IsBeforeSnapshot(d, id) == d.u < id

\* Mutant: any later delta is taken for the first one.
FirstDeltaMatchesLater(d, id) == CoversSnapshot(d, id) \/ d.U >= id + 1

FirstDeltaMatchesSnapshot(d, id) ==
  \/ CoversSnapshot(d, id)
  \/ d.pu # NoId /\ d.pu = id
  \/ d.U = id + 1

\* Mutant: the previous-id check is lost, only the order is kept.
FollowsDeltaUnchecked(d, id) == d.u > id

FollowsDelta(d, id) ==
  /\ IF d.pu # NoId THEN d.pu = id ELSE d.U <= id + 1
  /\ d.u > id

\* The delta is applied to a synced book (the two accepting paths of
\* apply_synced_delta, and of the loop body of replay_pending).
Accepts(d) == IF awaiting THEN FirstDeltaMatchesSnapshot(d, last)
                          ELSE FollowsDelta(d, last)

\* Still before the first delta that matches the snapshot.
Stale(d) == awaiting /\ IsBeforeSnapshot(d, last)

-----------------------------------------------------------------------------
(***************************************************************************)
(* The exchange, the websocket and the channel (external to the engine).   *)
(***************************************************************************)
\* What the exchange does once the task has returned concerns nobody.
Running == pc # "stopped"

\* The exchange changes one level of its book.
ExchangeUpdate(l, q) ==
  /\ Running
  /\ Len(books) < MaxUpdates
  /\ books' = Append(books, [books[Len(books)] EXCEPT ![l] = q])
  /\ touched' = Append(touched, {l})
  /\ UNCHANGED <<cursor, chan, injected, pc, fetched, engineVars, published>>

\* It consumes an update id that the depth stream does not report.
ExchangeSkipId ==
  /\ Running
  /\ Len(books) < MaxUpdates
  /\ books' = Append(books, books[Len(books)])
  /\ touched' = Append(touched, {})
  /\ UNCHANGED <<cursor, chan, injected, pc, fetched, engineVars, published>>

DeltaOf(first, final, prev) ==
  [type |-> "delta", U |-> first, u |-> final, pu |-> prev,
   levels |-> UNION {touched[k] : k \in first .. final},
   qty |-> books[final]]

SnapshotOf(id, listed) ==
  [type |-> "snapshot", id |-> id, levels |-> listed, qty |-> books[id]]

\* The listed levels of a snapshot of book b: all of them when they fit.
Listings(b) ==
  IF Cardinality({l \in Levels : b[l] # 0}) <= SnapshotDepth
    THEN {Levels}
    ELSE {s \in SUBSET Levels : Cardinality(s) = SnapshotDepth}

RecentIds == {i \in 1 .. Len(books) : i + SnapshotLag >= Len(books)}

\* The depth stream reports the updates first..final; no reported update is
\* skipped.  pu is optional in the payload.
Reports(first, final, prev) ==
  /\ Running
  /\ cursor < first /\ first <= final
  /\ \A k \in cursor + 1 .. first - 1 : touched[k] = {}
  /\ prev = cursor \/ (PuOptional /\ prev = NoId)

\* The delta reaches the channel: the adapter and the fan-out wait for room.
DeliverDelta(first, final, prev) ==
  /\ Reports(first, final, prev)
  /\ Len(chan) < ChannelCapacity
  /\ chan' = Append(chan, DeltaOf(first, final, prev))
  /\ cursor' = final
  /\ UNCHANGED <<books, touched, injected, pc, fetched, engineVars, published>>

\* The delta is lost: the websocket is down or reconnecting when it is sent.
LoseDelta(first, final) ==
  /\ Reports(first, final, cursor)
  /\ cursor' = final
  /\ UNCHANGED <<books, touched, chan, injected, pc, fetched, engineVars,
                 published>>

\* A recording also holds the snapshots that the recorded engine fetched.
InjectSnapshot(id, listed) ==
  /\ Running
  /\ ~FetchSnapshots
  /\ injected < MaxSnapshots
  /\ Len(chan) < ChannelCapacity
  /\ injected' = injected + 1
  /\ chan' = Append(chan, SnapshotOf(id, listed))
  /\ UNCHANGED <<exchangeVars, pc, fetched, engineVars, published>>

-----------------------------------------------------------------------------
(***************************************************************************)
(* The engine.                                                             *)
(***************************************************************************)
NextDelta == pc = "idle" /\ chan # <<>> /\ Head(chan).type = "delta"

\* stats_tx.send(engine.stats()), evaluated on the state the handler leaves.
\* The unsynced statistics are one value: no reader distinguishes them.
Unsynced == [synced |-> FALSE, last |-> NoId, book |-> EmptyBook, seen |-> {}]
Publish ==
  published' = IF synced' /\ ~awaiting'
                 THEN [synced |-> TRUE, last |-> last', book |-> book',
                       seen |-> seen']
                 ELSE Unsynced

\* Whether a delta that finds the book unsynced starts a fetch.
StartsFetch == FetchSnapshots /\ ~inFlight

\* on_depth_delta on an unsynced book: buffer, and fetch unless one is pending.
BufferDelta ==
  /\ NextDelta /\ ~synced
  /\ chan' = Tail(chan)
  /\ pending' = Append(pending, Head(chan))
  /\ UNCHANGED <<exchangeVars, injected, fetched, book, seen, last, synced,
                 awaiting, resyncs, gaps>>
  /\ IF StartsFetch
       THEN inFlight' = TRUE /\ pc' = "fetching" /\ UNCHANGED published
       ELSE Publish /\ UNCHANGED <<inFlight, pc>>

\* apply_synced_delta before the first match: a delta older than the snapshot.
IgnoreDelta ==
  /\ NextDelta /\ synced /\ Stale(Head(chan))
  /\ chan' = Tail(chan)
  /\ UNCHANGED <<exchangeVars, injected, pc, fetched, engineVars>>
  /\ Publish

ApplyTo(d) ==
  /\ book' = ApplyLevels(book, d)
  /\ seen' = seen \cup d.levels
  /\ last' = d.u
  /\ awaiting' = FALSE

ApplyDelta ==
  /\ NextDelta /\ synced
  /\ ~Stale(Head(chan)) /\ Accepts(Head(chan))
  /\ chan' = Tail(chan)
  /\ ApplyTo(Head(chan))
  /\ UNCHANGED <<exchangeVars, injected, pc, fetched, pending, synced,
                 inFlight, resyncs, gaps>>
  /\ Publish

\* Mutant: the book is emptied but still counts as synced.
MarkDesyncedKeepsFlag ==
  /\ synced' = synced
  /\ awaiting' = FALSE
  /\ gaps' = gaps + 1
  /\ last' = NoId
  /\ book' = EmptyBook
  /\ seen' = {}
  /\ pending' = <<>>

\* Mutant: the deltas still buffered stay in the buffer.
MarkDesyncedKeepsPending ==
  /\ synced' = FALSE
  /\ awaiting' = FALSE
  /\ gaps' = gaps + 1
  /\ last' = NoId
  /\ book' = EmptyBook
  /\ seen' = {}
  /\ pending' = pending

MarkDesynced ==
  /\ synced' = FALSE
  /\ awaiting' = FALSE
  /\ gaps' = gaps + 1
  /\ last' = NoId
  /\ book' = EmptyBook
  /\ seen' = {}
  /\ pending' = <<>>

\* A sequence gap: the delta is dropped with the book, and a live engine
\* fetches a snapshot whatever the in-flight flag says.
GapDelta ==
  /\ NextDelta /\ synced
  /\ ~Stale(Head(chan)) /\ ~Accepts(Head(chan))
  /\ chan' = Tail(chan)
  /\ MarkDesynced
  /\ IF FetchSnapshots
       THEN inFlight' = TRUE /\ pc' = "fetching" /\ UNCHANGED published
       ELSE Publish /\ UNCHANGED <<inFlight, pc>>
  /\ UNCHANGED <<exchangeVars, injected, fetched, resyncs>>

\* The REST call returns; the snapshot goes to the storage channel first.
FetchOk(id, listed) ==
  /\ pc = "fetching"
  /\ fetched' = SnapshotOf(id, listed)
  /\ inFlight' = FALSE
  /\ pc' = "recording"
  /\ UNCHANGED <<exchangeVars, chan, injected, book, seen, last, pending,
                 synced, awaiting, resyncs, gaps, published>>

\* The REST call fails: `?` leaves the handler with the flag still set, and
\* the engine loop logs the error without publishing.
FetchErr ==
  /\ FetchMayFail
  /\ pc = "fetching"
  /\ pc' = "idle"
  /\ UNCHANGED <<exchangeVars, chan, injected, fetched, engineVars, published>>

\* Mutant: the book counts as complete without waiting for the first delta.
ApplySnapshotNoWait(s) ==
  /\ book' = SnapshotBook(s)
  /\ seen' = s.levels
  /\ last' = s.id
  /\ synced' = TRUE
  /\ awaiting' = FALSE
  /\ resyncs' = resyncs + 1

ApplySnapshot(s) ==
  /\ book' = SnapshotBook(s)
  /\ seen' = s.levels
  /\ last' = s.id
  /\ synced' = TRUE
  /\ awaiting' = TRUE
  /\ resyncs' = resyncs + 1

\* The storage channel took the snapshot (or was closed).
AdoptFetched ==
  /\ pc = "recording"
  /\ ApplySnapshot(fetched)
  /\ pc' = "replaying"
  /\ UNCHANGED <<exchangeVars, chan, injected, fetched, pending, inFlight,
                 gaps, published>>

\* on_snapshot: a snapshot met in the event stream.
AdoptRecorded ==
  /\ pc = "idle" /\ chan # <<>> /\ Head(chan).type = "snapshot"
  /\ chan' = Tail(chan)
  /\ ApplySnapshot(Head(chan))
  /\ pc' = "replaying"
  /\ UNCHANGED <<exchangeVars, injected, fetched, pending, inFlight, gaps,
                 published>>

(***************************************************************************)
(* replay_pending.  The local first_applied is ~awaiting throughout.       *)
(***************************************************************************)
ReplaySkip ==
  /\ pc = "replaying" /\ pending # <<>> /\ Stale(Head(pending))
  /\ pending' = Tail(pending)
  /\ UNCHANGED <<exchangeVars, chan, injected, pc, fetched, book, seen, last,
                 synced, inFlight, awaiting, resyncs, gaps, published>>

ReplayApply ==
  /\ pc = "replaying" /\ pending # <<>>
  /\ ~Stale(Head(pending)) /\ Accepts(Head(pending))
  /\ pending' = Tail(pending)
  /\ ApplyTo(Head(pending))
  /\ UNCHANGED <<exchangeVars, chan, injected, pc, fetched, synced, inFlight,
                 resyncs, gaps, published>>

ReplayMismatch ==
  /\ pc = "replaying" /\ pending # <<>>
  /\ ~Stale(Head(pending)) /\ ~Accepts(Head(pending))
  /\ MarkDesynced
  /\ pc' = "idle"
  /\ UNCHANGED <<exchangeVars, chan, injected, fetched, inFlight, resyncs>>
  /\ Publish

ReplayDone ==
  /\ pc = "replaying" /\ pending = <<>>
  /\ pc' = "idle"
  /\ UNCHANGED <<exchangeVars, chan, injected, fetched, engineVars>>
  /\ Publish

\* Shutdown, or every sender of the channel is gone: seen only between events.
Stop ==
  /\ pc = "idle"
  /\ pc' = "stopped"
  /\ UNCHANGED <<exchangeVars, chan, injected, fetched, engineVars, published>>

-----------------------------------------------------------------------------
Init ==
  /\ \E b \in Book : books = <<b>>
  /\ touched = <<{}>>
  /\ cursor = 1
  /\ chan = <<>>
  /\ injected = 0
  /\ pc = "idle"
  /\ fetched = SnapshotOf(1, {})
  /\ book = EmptyBook
  /\ seen = {}
  /\ last = NoId
  /\ pending = <<>>
  /\ synced = FALSE
  /\ inFlight = FALSE
  /\ awaiting = FALSE
  /\ resyncs = 0
  /\ gaps = 0
  /\ published = Unsynced

Environment ==
  \/ \E l \in Levels, q \in Qty \cup {0} : ExchangeUpdate(l, q)
  \/ ExchangeSkipId
  \/ \E first, final \in 1 .. Len(books), prev \in {cursor, NoId} :
        DeliverDelta(first, final, prev)
  \/ \E first, final \in 1 .. Len(books) : LoseDelta(first, final)
  \/ \E id \in RecentIds : \E listed \in Listings(books[id]) :
        InjectSnapshot(id, listed)

Engine ==
  \/ BufferDelta
  \/ IgnoreDelta
  \/ ApplyDelta
  \/ GapDelta
  \/ \E id \in RecentIds : \E listed \in Listings(books[id]) :
        FetchOk(id, listed)
  \/ FetchErr
  \/ AdoptFetched
  \/ AdoptRecorded
  \/ ReplaySkip
  \/ ReplayApply
  \/ ReplayMismatch
  \/ ReplayDone
  \/ Stop

Next == Environment \/ Engine

Spec == Init /\ [][Next]_vars

-----------------------------------------------------------------------------
(***************************************************************************)
(* Properties.                                                             *)
(***************************************************************************)
\* Every variable has its type; the engine's queues hold events of its stream.
TypeOK ==
  /\ books \in Seq(Book) /\ Len(books) >= 1
  /\ touched \in Seq(SUBSET Levels) /\ Len(touched) = Len(books)
  /\ cursor \in 1 .. Len(books)
  /\ chan \in Seq(Delta \cup Snapshot)
  /\ injected \in Nat
  /\ pc \in {"idle", "fetching", "recording", "replaying", "stopped"}
  /\ fetched \in Snapshot
  /\ book \in Book
  /\ seen \in SUBSET Levels
  /\ last \in Nat
  /\ pending \in Seq(Delta)
  /\ synced \in BOOLEAN /\ inFlight \in BOOLEAN /\ awaiting \in BOOLEAN
  /\ resyncs \in Nat /\ gaps \in Nat
  /\ published \in [synced : BOOLEAN, last : Nat, book : Book,
                    seen : SUBSET Levels]

\* b is the exchange's book after update id, as far as the levels in known go;
\* a level outside known (below the snapshot's depth) has no entry.
IsExchangeBook(b, id, known) ==
  /\ id \in 1 .. Len(books)
  /\ \A l \in Levels : b[l] = IF l \in known THEN books[id][l] ELSE 0

\* The statistics in /health that claim a synced book describe a book the
\* exchange really had, after the update they name: lost deltas, stale
\* snapshots and resyncs never leave a wrong or phantom level in it
\* (apply_synced_delta, replay_pending, mark_desynced, stats).
PublishedBookIsReal ==
  published.synced => IsExchangeBook(published.book, published.last,
                                     published.seen)

\* A reader of /health never sees a synced book move backwards in update ids,
\* unless an unsynced one was published in between: a stale snapshot can only
\* be adopted through an unsynced publication (sync_from_snapshot, on_snapshot).
PublishedBookAdvances ==
  [][published.synced /\ published'.synced => published'.last >= published.last]_vars

\* The engine implements the abstract mirror: the published statistics are the
\* mirror's view, and every step of the engine, the stream and the exchange is
\* a step of the mirror or leaves it alone.
Mirror == INSTANCE BookMirror WITH view <- published
MirrorsTheExchange == Mirror!Spec

\* Live, the counters of /health account for the book: each gap is answered by
\* one resync, so resyncs - gaps is 1 exactly while a book is held.
ResyncsAnswerGaps ==
  FetchSnapshots => resyncs = gaps + (IF synced THEN 1 ELSE 0)

\* Between events, deltas are buffered only for a book that still lacks a
\* snapshot; a live engine leaves some there only behind a raised in-flight
\* flag (on_depth_delta, replay_pending).
NothingLeftPending ==
  pc = "idle" /\ pending # <<>> => ~synced /\ (FetchSnapshots => inFlight)

\* "orderbook desynced; resync required" (orderbook.rs:336): a live engine that
\* takes a delta while it has no book fetches a snapshot.
DesyncedBookResyncs ==
  [][FetchSnapshots /\ ~synced /\ pc = "idle" /\ chan # <<>> /\ chan' = Tail(chan)
       => pc' = "fetching"]_vars

=============================================================================
