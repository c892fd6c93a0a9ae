-------------------------- MODULE OrderBookProofs --------------------------
(***************************************************************************)
(* Proofs about OrderBook, for every set of levels and quantities, every   *)
(* channel capacity, snapshot lag and depth, live and replayed.            *)
(***************************************************************************)
EXTENDS OrderBook, SequenceTheorems, TLAPS

(***************************************************************************)
(* The facts the inductive invariant is made of.  They are stated over a   *)
(* history bs, ts of books and touched levels, so that they can be carried *)
(* from books, touched to books', touched'.                                *)
(***************************************************************************)
\* A history: between two updates only the levels touched there change.
IsHistory(bs, ts) ==
  /\ bs \in Seq(Book) /\ ts \in Seq(SUBSET Levels) /\ Len(ts) = Len(bs)
  /\ \A i, j \in 1 .. Len(bs), l \in Levels :
       i <= j /\ (\A k \in i + 1 .. j : l \notin ts[k]) => bs[i][l] = bs[j][l]

\* The history bs2, ts2 continues bs, ts.
Continues(bs, ts, bs2, ts2) ==
  /\ Len(bs) <= Len(bs2)
  /\ \A i \in 1 .. Len(bs) : bs2[i] = bs[i] /\ ts2[i] = ts[i]

\* A delta says what the updates it reports did.
TrueDelta(d, bs, ts) ==
  /\ 1 <= d.U /\ d.U <= d.u /\ d.u <= Len(bs)
  /\ d.levels = UNION {ts[k] : k \in d.U .. d.u}
  /\ d.qty = bs[d.u]
  /\ d.pu # NoId => /\ d.pu < d.U
                    /\ \A k \in d.pu + 1 .. d.U - 1 : ts[k] = {}

TrueSnapshot(s, bs) == s.id \in 1 .. Len(bs) /\ s.qty = bs[s.id]

TrueEvent(e, bs, ts) == IF e.type = "delta" THEN TrueDelta(e, bs, ts)
                                            ELSE TrueSnapshot(e, bs)

AllTrue(q, bs, ts) == \A i \in 1 .. Len(q) : TrueEvent(q[i], bs, ts)

\* b is the book bs[id], as far as the known levels go.
TrueBook(b, id, known, bs) ==
  /\ id \in 1 .. Len(bs)
  /\ \A l \in Levels : b[l] = IF l \in known THEN bs[id][l] ELSE 0

\* d continues a book after update id without a hole.
Joins(d, id) == id <= d.u /\ (d.U <= id + 1 \/ (d.pu # NoId /\ d.pu = id))

-----------------------------------------------------------------------------
\* What was true of a history stays true when it is continued.
LEMMA DeltaStaysTrue ==
  ASSUME NEW bs, NEW ts, NEW bs2, NEW ts2, Continues(bs, ts, bs2, ts2),
         Len(bs) \in Nat, Len(bs2) \in Nat,
         NEW d \in Delta, TrueDelta(d, bs, ts)
  PROVE  TrueDelta(d, bs2, ts2)
<1>1. d.U \in Nat /\ d.u \in Nat /\ d.pu \in Nat
  BY DEF Delta
<1>2. \A k \in d.U .. d.u : ts2[k] = ts[k]
  BY <1>1 DEF Continues, TrueDelta
<1>3. {ts2[k] : k \in d.U .. d.u} = {ts[k] : k \in d.U .. d.u}
  BY <1>2
<1>4. d.pu # NoId => \A k \in d.pu + 1 .. d.U - 1 : ts2[k] = {}
  BY <1>1 DEF Continues, TrueDelta
<1>5. bs2[d.u] = bs[d.u] /\ d.u <= Len(bs2)
  BY <1>1 DEF Continues, TrueDelta
<1> QED
  BY <1>1, <1>3, <1>4, <1>5 DEF TrueDelta

\* A snapshot that was true stays true when the exchange's history grows.
LEMMA SnapshotStaysTrue ==
  ASSUME NEW bs, NEW ts, NEW bs2, NEW ts2, Continues(bs, ts, bs2, ts2),
         Len(bs) \in Nat, Len(bs2) \in Nat,
         NEW s \in Snapshot, TrueSnapshot(s, bs)
  PROVE  TrueSnapshot(s, bs2)
BY DEF Continues, TrueSnapshot, Snapshot

\* So does a book that agrees with the exchange at its update id.
LEMMA BookStaysTrue ==
  ASSUME NEW bs, NEW ts, NEW bs2, NEW ts2, Continues(bs, ts, bs2, ts2),
         Len(bs) \in Nat, Len(bs2) \in Nat,
         NEW b, NEW id, NEW known, TrueBook(b, id, known, bs)
  PROVE  TrueBook(b, id, known, bs2)
BY DEF Continues, TrueBook

\* Applying a true delta that joins a true book gives the exchange's next book.
LEMMA ApplyKeepsBookTrue ==
  ASSUME NEW bs, NEW ts, IsHistory(bs, ts),
         NEW b, NEW id, NEW known, TrueBook(b, id, known, bs),
         NEW d \in Delta, TrueDelta(d, bs, ts), Joins(d, id)
  PROVE  TrueBook(ApplyLevels(b, d), d.u, known \cup d.levels, bs)
<1>1. /\ d.U \in Nat /\ d.u \in Nat /\ d.pu \in Nat /\ Len(bs) \in Nat
      /\ id \in 1 .. Len(bs) /\ d.u \in 1 .. Len(bs)
  BY DEF Delta, IsHistory, TrueBook, TrueDelta
<1>2. ASSUME NEW l \in Levels, l \notin d.levels
      PROVE  bs[id][l] = bs[d.u][l]
  <2>1. ASSUME NEW k \in id + 1 .. d.u PROVE l \notin ts[k]
    <3>1. CASE k \in d.U .. d.u
      BY <1>2, <3>1 DEF TrueDelta
    <3>2. CASE ~(k \in d.U .. d.u)
      BY <1>1, <3>2 DEF Joins, TrueDelta
    <3> QED BY <3>1, <3>2
  <2> QED
    BY <1>1, <2>1 DEF IsHistory, Joins
<1>3. ASSUME NEW l \in Levels
      PROVE  ApplyLevels(b, d)[l] =
               IF l \in known \cup d.levels THEN bs[d.u][l] ELSE 0
  BY <1>2 DEF ApplyLevels, TrueBook, TrueDelta
<1> QED
  BY <1>1, <1>3 DEF TrueBook

-----------------------------------------------------------------------------
(***************************************************************************)
(* Typing.                                                                 *)
(***************************************************************************)
LEMMA ListingsAreLevels ==
  ASSUME NEW b, NEW s \in Listings(b)
  PROVE  s \in SUBSET Levels
BY DEF Listings

\* What the environment puts in the channel, and the REST call returns.
LEMMA EventsAreTyped ==
  ASSUME TypeOK
  PROVE  /\ \A first, final \in 1 .. Len(books), prev \in {cursor, NoId} :
              DeltaOf(first, final, prev) \in Delta
         /\ \A id \in RecentIds : \A listed \in Listings(books[id]) :
              SnapshotOf(id, listed) \in Snapshot
<1>1. ASSUME NEW first \in 1 .. Len(books), NEW final \in 1 .. Len(books),
             NEW prev \in {cursor, NoId}
      PROVE  DeltaOf(first, final, prev) \in Delta
  <2>1. UNION {touched[k] : k \in first .. final} \in SUBSET Levels
    BY DEF TypeOK
  <2>2. books[final] \in Book /\ first \in Nat /\ final \in Nat /\ prev \in Nat
    BY DEF TypeOK, NoId
  <2> QED BY <2>1, <2>2 DEF DeltaOf, Delta
<1>2. ASSUME NEW id \in RecentIds, NEW listed \in Listings(books[id])
      PROVE  SnapshotOf(id, listed) \in Snapshot
  <2>1. id \in Nat /\ books[id] \in Book
    BY DEF RecentIds, TypeOK
  <2>2. listed \in SUBSET Levels
    BY ListingsAreLevels
  <2> QED BY <2>1, <2>2 DEF SnapshotOf, Snapshot
<1> QED BY <1>1, <1>2

\* An event is a delta or a snapshot as its type says.
LEMMA EventKinds ==
  ASSUME NEW e \in Delta \cup Snapshot
  PROVE  /\ e.type = "delta" => e \in Delta
         /\ e.type = "snapshot" => e \in Snapshot
BY DEF Delta, Snapshot

\* The empty book, an updated book and the book of a snapshot are books.
LEMMA BooksAreTyped ==
  /\ EmptyBook \in Book
  /\ \A b \in Book, d \in Delta : ApplyLevels(b, d) \in Book
  /\ \A s \in Snapshot : SnapshotBook(s) \in Book
BY DEF EmptyBook, Book, ApplyLevels, SnapshotBook, Delta, Snapshot

\* A published value is typed when the state it reports is.
LEMMA PublishIsTyped ==
  ASSUME Publish, last' \in Nat, book' \in Book, seen' \in SUBSET Levels
  PROVE  published' \in [synced : BOOLEAN, last : Nat, book : Book,
                         seen : SUBSET Levels]
<1>1. Unsynced \in [synced : BOOLEAN, last : Nat, book : Book,
                    seen : SUBSET Levels]
  BY BooksAreTyped DEF Unsynced, NoId
<1>2. [synced |-> TRUE, last |-> last', book |-> book', seen |-> seen']
        \in [synced : BOOLEAN, last : Nat, book : Book, seen : SUBSET Levels]
  OBVIOUS
<1> QED BY <1>1, <1>2 DEF Publish

\* The initial states are well typed.
LEMMA InitTyped == Init => TypeOK
<1> SUFFICES ASSUME Init PROVE TypeOK
  OBVIOUS
<1>1. PICK b \in Book : books = <<b>>
  BY DEF Init
<1>2. books \in Seq(Book) /\ Len(books) = 1 /\ books[1] = b
  BY <1>1
<1>3. fetched \in Snapshot
  BY <1>2 DEF Init, SnapshotOf, Snapshot
<1>4. published \in [synced : BOOLEAN, last : Nat, book : Book,
                     seen : SUBSET Levels]
  BY BooksAreTyped DEF Init, Unsynced, NoId
<1>5. touched \in Seq(SUBSET Levels) /\ Len(touched) = 1
  BY DEF Init
<1>6. chan = <<>> /\ pending = <<>> /\ cursor = 1
  BY DEF Init
<1>7. chan \in Seq(Delta \cup Snapshot) /\ pending \in Seq(Delta)
  BY <1>6
<1>8. cursor \in 1 .. Len(books)
  BY <1>2, <1>6
<1>9. /\ book \in Book /\ seen \in SUBSET Levels /\ last \in Nat
      /\ injected \in Nat /\ resyncs \in Nat /\ gaps \in Nat
  BY BooksAreTyped DEF Init, NoId
<1>10. /\ synced \in BOOLEAN /\ inFlight \in BOOLEAN /\ awaiting \in BOOLEAN
       /\ pc \in {"idle", "fetching", "recording", "replaying", "stopped"}
  BY DEF Init
<1> QED
  BY <1>2, <1>3, <1>4, <1>5, <1>7, <1>8, <1>9, <1>10 DEF TypeOK

\* The exchange, the websocket and the channel keep the types.
LEMMA EnvironmentTyped == TypeOK /\ Environment => TypeOK'
<1> SUFFICES ASSUME TypeOK, Environment PROVE TypeOK'
  OBVIOUS
<1>1. ASSUME NEW l \in Levels, NEW q \in Qty \cup {0}, ExchangeUpdate(l, q)
      PROVE  TypeOK'
  <2>1. [books[Len(books)] EXCEPT ![l] = q] \in Book
    BY DEF TypeOK, Book
  <2> QED
    BY <1>1, <2>1 DEF TypeOK, ExchangeUpdate, engineVars
<1>2. ASSUME ExchangeSkipId PROVE TypeOK'
  <2>1. books[Len(books)] \in Book
    BY DEF TypeOK
  <2> QED
    BY <1>2, <2>1 DEF TypeOK, ExchangeSkipId, engineVars
<1>3. ASSUME NEW first \in 1 .. Len(books), NEW final \in 1 .. Len(books),
             NEW prev \in {cursor, NoId}, DeliverDelta(first, final, prev)
      PROVE  TypeOK'
  <2>1. DeltaOf(first, final, prev) \in Delta \cup Snapshot
    BY EventsAreTyped
  <2>2. chan' \in Seq(Delta \cup Snapshot)
    BY <1>3, <2>1 DEF TypeOK, DeliverDelta
  <2> QED
    BY <1>3, <2>2 DEF TypeOK, DeliverDelta, engineVars
<1>4. ASSUME NEW first \in 1 .. Len(books), NEW final \in 1 .. Len(books),
             LoseDelta(first, final)
      PROVE  TypeOK'
  BY <1>4 DEF TypeOK, LoseDelta, engineVars
<1>5. ASSUME NEW id \in RecentIds, NEW listed \in Listings(books[id]),
             InjectSnapshot(id, listed)
      PROVE  TypeOK'
  <2>1. SnapshotOf(id, listed) \in Delta \cup Snapshot
    BY EventsAreTyped
  <2>2. chan' \in Seq(Delta \cup Snapshot)
    BY <1>5, <2>1 DEF TypeOK, InjectSnapshot
  <2> QED
    BY <1>5, <2>2 DEF TypeOK, InjectSnapshot, exchangeVars, engineVars
<1> QED
  BY <1>1, <1>2, <1>3, <1>4, <1>5 DEF Environment

\* The queues before and after an event is taken from them.
LEMMA QueuesTyped ==
  ASSUME TypeOK
  PROVE  /\ chan # <<>> => /\ Tail(chan) \in Seq(Delta \cup Snapshot)
                           /\ Head(chan).type = "delta" => Head(chan) \in Delta
                           /\ Head(chan).type = "snapshot" => Head(chan) \in Snapshot
         /\ pending # <<>> => Tail(pending) \in Seq(Delta) /\ Head(pending) \in Delta
<1>1. ASSUME chan # <<>>
      PROVE  Tail(chan) \in Seq(Delta \cup Snapshot) /\ Head(chan) \in Delta \cup Snapshot
  BY <1>1, HeadTailProperties DEF TypeOK
<1>2. ASSUME pending # <<>>
      PROVE  Tail(pending) \in Seq(Delta) /\ Head(pending) \in Delta
  BY <1>2, HeadTailProperties DEF TypeOK
<1> QED BY <1>1, <1>2, EventKinds

\* mark_desynced keeps the types of the variables it sets.
LEMMA DesyncedTyped ==
  ASSUME TypeOK, MarkDesynced
  PROVE  /\ book' \in Book /\ seen' \in SUBSET Levels /\ last' \in Nat
         /\ pending' \in Seq(Delta) /\ gaps' \in Nat
         /\ synced' \in BOOLEAN /\ awaiting' \in BOOLEAN
<1>1. pending' \in Seq(Delta)
  BY DEF MarkDesynced
<1>2. seen' \in SUBSET Levels /\ last' \in Nat
  BY DEF MarkDesynced, NoId
<1>3. book' \in Book
  BY BooksAreTyped DEF MarkDesynced
<1>4. gaps' \in Nat
  BY DEF MarkDesynced, TypeOK
<1>5. synced' \in BOOLEAN /\ awaiting' \in BOOLEAN
  BY DEF MarkDesynced
<1> QED BY <1>1, <1>2, <1>3, <1>4, <1>5

\* Every step of the engine keeps the types.
LEMMA EngineTyped == TypeOK /\ Engine => TypeOK'
<1> SUFFICES ASSUME TypeOK, Engine PROVE TypeOK'
  OBVIOUS
<1> USE QueuesTyped, PublishIsTyped, BooksAreTyped
<1>1. CASE BufferDelta
  <2>1. pending' \in Seq(Delta)
    BY <1>1 DEF BufferDelta, NextDelta, TypeOK
  <2> QED
    BY <1>1, <2>1 DEF BufferDelta, NextDelta, TypeOK, exchangeVars
<1>2. CASE IgnoreDelta
  BY <1>2 DEF IgnoreDelta, NextDelta, TypeOK, exchangeVars, engineVars
<1>3. CASE ApplyDelta
  <2>1. last' \in Nat /\ seen' \in SUBSET Levels /\ book' \in Book
    BY <1>3 DEF ApplyDelta, ApplyTo, NextDelta, Delta, TypeOK
  <2> QED
    BY <1>3, <2>1 DEF ApplyDelta, ApplyTo, NextDelta, TypeOK, exchangeVars
<1>4. CASE GapDelta
  BY <1>4, DesyncedTyped DEF GapDelta, NextDelta, TypeOK, exchangeVars
<1>5. ASSUME NEW id \in RecentIds, NEW listed \in Listings(books[id]),
             FetchOk(id, listed)
      PROVE  TypeOK'
  <2>1. fetched' \in Snapshot
    BY <1>5, EventsAreTyped DEF FetchOk
  <2> QED
    BY <1>5, <2>1 DEF FetchOk, TypeOK, exchangeVars
<1>6. CASE FetchErr
  BY <1>6 DEF FetchErr, TypeOK, exchangeVars, engineVars
<1>7. CASE AdoptFetched
  <2>1. last' \in Nat /\ seen' \in SUBSET Levels /\ book' \in Book
    BY <1>7 DEF AdoptFetched, ApplySnapshot, Snapshot, TypeOK
  <2> QED
    BY <1>7, <2>1 DEF AdoptFetched, ApplySnapshot, TypeOK, exchangeVars
<1>8. CASE AdoptRecorded
  <2>1. last' \in Nat /\ seen' \in SUBSET Levels /\ book' \in Book
    BY <1>8 DEF AdoptRecorded, ApplySnapshot, Snapshot, TypeOK
  <2> QED
    BY <1>8, <2>1 DEF AdoptRecorded, ApplySnapshot, TypeOK, exchangeVars
<1>9. CASE ReplaySkip
  BY <1>9 DEF ReplaySkip, TypeOK, exchangeVars
<1>10. CASE ReplayApply
  <2>1. last' \in Nat /\ seen' \in SUBSET Levels /\ book' \in Book
    BY <1>10 DEF ReplayApply, ApplyTo, Delta, TypeOK
  <2> QED
    BY <1>10, <2>1 DEF ReplayApply, ApplyTo, TypeOK, exchangeVars
<1>11. CASE ReplayMismatch
  BY <1>11, DesyncedTyped DEF ReplayMismatch, TypeOK, exchangeVars
<1>12. CASE ReplayDone
  BY <1>12 DEF ReplayDone, TypeOK, exchangeVars, engineVars
<1>13. CASE Stop
  BY <1>13 DEF Stop, TypeOK, exchangeVars, engineVars
<1> QED
  BY <1>1, <1>2, <1>3, <1>4, <1>5, <1>6, <1>7, <1>8, <1>9, <1>10, <1>11,
     <1>12, <1>13 DEF Engine

\* Type correctness of the order book engine and its environment.
THEOREM TypeCorrect == Spec => []TypeOK
<1>1. TypeOK /\ UNCHANGED vars => TypeOK'
  BY DEF TypeOK, vars, exchangeVars, engineVars
<1>2. TypeOK /\ [Next]_vars => TypeOK'
  BY <1>1, EnvironmentTyped, EngineTyped DEF Next
<1> QED BY InitTyped, <1>2, PTL DEF Spec

-----------------------------------------------------------------------------
(***************************************************************************)
(* The inductive invariant.                                                *)
(***************************************************************************)
\* The exchange's past does not change, and everything in flight is true of it.
EventsInv ==
  /\ IsHistory(books, touched)
  /\ AllTrue(chan, books, touched)
  /\ AllTrue(pending, books, touched)
  /\ TrueSnapshot(fetched, books)

\* The engine's book and the published one are true of it.
BooksInv ==
  /\ synced => TrueBook(book, last, seen, books)
  /\ published.synced =>
       TrueBook(published.book, published.last, published.seen, books)

Resting == pc \in {"idle", "stopped"}
Fetching == pc \in {"fetching", "recording"}

\* Where the handler is suspended fixes the flags.
ControlInv ==
  /\ awaiting => synced
  /\ Fetching => ~synced /\ FetchSnapshots
  /\ pc = "fetching" => inFlight
  /\ pc = "replaying" => synced
  /\ Resting /\ pending # <<>> => ~synced /\ (FetchSnapshots => inFlight)
  /\ FetchSnapshots => \A i \in 1 .. Len(chan) : chan[i].type = "delta"
  /\ FetchSnapshots => resyncs = gaps + (IF synced THEN 1 ELSE 0)

\* While /health shows a synced book the engine either still holds it, or has
\* dropped it with nothing buffered that could make it synced again unseen.
ViewInv ==
  /\ ~published.synced => published = Unsynced
  /\ published.synced =>
       \/ Resting /\ synced /\ ~awaiting /\ last = published.last
                  /\ seen = published.seen
       \/ Fetching /\ pending = <<>>
       \/ Resting /\ ~synced /\ inFlight /\ FetchSnapshots /\ pending = <<>>
       \/ pc = "replaying" /\ awaiting /\ pending = <<>>

IInv == TypeOK /\ EventsInv /\ BooksInv /\ ControlInv /\ ViewInv

\* The initial states satisfy the inductive invariant.
LEMMA InitIInv == Init => IInv
<1> SUFFICES ASSUME Init PROVE IInv
  OBVIOUS
<1>1. TypeOK
  BY InitTyped
<1>2. PICK b \in Book : books = <<b>>
  BY DEF Init
<1>3. Len(books) = 1 /\ Len(touched) = 1 /\ chan = <<>> /\ pending = <<>>
  BY <1>2 DEF Init
<1>4. IsHistory(books, touched)
  BY <1>1, <1>3 DEF IsHistory, TypeOK
<1>5. TrueSnapshot(fetched, books)
  BY <1>3 DEF Init, SnapshotOf, TrueSnapshot
<1>6. EventsInv
  BY <1>3, <1>4, <1>5 DEF EventsInv, AllTrue
<1>7. BooksInv /\ ViewInv
  BY DEF Init, BooksInv, ViewInv, Unsynced
<1>8. ControlInv
  BY <1>3 DEF Init, ControlInv, Fetching, Resting
<1> QED BY <1>1, <1>6, <1>7, <1>8 DEF IInv

(***************************************************************************)
(* The exchange's past.                                                    *)
(***************************************************************************)
LEMMA AppendContinues ==
  ASSUME NEW bs, NEW ts, IsHistory(bs, ts), Len(bs) >= 1,
         NEW b \in Book, NEW t \in SUBSET Levels,
         \A l \in Levels : l \notin t => b[l] = bs[Len(bs)][l]
  PROVE  /\ IsHistory(Append(bs, b), Append(ts, t))
         /\ Continues(bs, ts, Append(bs, b), Append(ts, t))
<1> DEFINE n == Len(bs)
           bs2 == Append(bs, b)
           ts2 == Append(ts, t)
<1>1. /\ n \in Nat /\ Len(bs2) = n + 1 /\ Len(ts2) = n + 1
      /\ bs2 \in Seq(Book) /\ ts2 \in Seq(SUBSET Levels)
      /\ bs2[n + 1] = b /\ ts2[n + 1] = t
      /\ \A i \in 1 .. n : bs2[i] = bs[i] /\ ts2[i] = ts[i]
  BY AppendProperties DEF IsHistory
<1>2. ASSUME NEW i \in 1 .. n + 1, NEW j \in 1 .. n + 1, NEW l \in Levels,
             i <= j, \A k \in i + 1 .. j : l \notin ts2[k]
      PROVE  bs2[i][l] = bs2[j][l]
  <2>1. CASE j <= n
    <3>1. \A k \in i + 1 .. j : l \notin ts[k]
      BY <1>1, <1>2, <2>1
    <3> QED BY <1>1, <1>2, <2>1, <3>1 DEF IsHistory
  <2>2. CASE i = n + 1
    BY <1>2, <2>2
  <2>3. CASE j = n + 1 /\ i <= n
    <3>1. l \notin t
      BY <1>1, <1>2, <2>3
    <3>2. \A k \in i + 1 .. n : l \notin ts[k]
      BY <1>1, <1>2, <2>3
    <3>3. bs[i][l] = bs[n][l]
      BY <1>1, <1>2, <2>3, <3>2 DEF IsHistory
    <3> QED BY <1>1, <2>3, <3>1, <3>3
  <2> QED BY <1>1, <2>1, <2>2, <2>3
<1>3. IsHistory(bs2, ts2)
  BY <1>1, <1>2 DEF IsHistory
<1>4. Continues(bs, ts, bs2, ts2)
  BY <1>1 DEF Continues
<1> QED BY <1>3, <1>4

\* Every step keeps the exchange's history or adds one book to it.
LEMMA HistoryStep ==
  ASSUME TypeOK, IsHistory(books, touched), [Next]_vars
  PROVE  /\ IsHistory(books', touched')
         /\ Continues(books, touched, books', touched')
<1>1. CASE \E l \in Levels, q \in Qty \cup {0} : ExchangeUpdate(l, q)
  <2>1. PICK l \in Levels, q \in Qty \cup {0} : ExchangeUpdate(l, q)
    BY <1>1
  <2>2. [books[Len(books)] EXCEPT ![l] = q] \in Book
    BY DEF TypeOK, Book
  <2>3. \A x \in Levels : x \notin {l} =>
          [books[Len(books)] EXCEPT ![l] = q][x] = books[Len(books)][x]
    BY DEF TypeOK, Book
  <2> QED
    BY <2>1, <2>2, <2>3, AppendContinues DEF ExchangeUpdate, TypeOK
<1>2. CASE ExchangeSkipId
  <2>1. books[Len(books)] \in Book
    BY DEF TypeOK
  <2> QED
    BY <1>2, <2>1, AppendContinues DEF ExchangeSkipId, TypeOK
<1>3. ASSUME books' = books, touched' = touched
      PROVE  /\ IsHistory(books', touched')
             /\ Continues(books, touched, books', touched')
  BY <1>3 DEF Continues, TypeOK
<1>4. CASE \/ \E first, final \in 1 .. Len(books), prev \in {cursor, NoId} :
                DeliverDelta(first, final, prev)
           \/ \E first, final \in 1 .. Len(books) : LoseDelta(first, final)
           \/ \E id \in RecentIds : \E listed \in Listings(books[id]) :
                InjectSnapshot(id, listed)
  BY <1>3, <1>4 DEF DeliverDelta, LoseDelta, InjectSnapshot, exchangeVars
<1>5. CASE Engine
  BY <1>3, <1>5 DEF Engine, BufferDelta, IgnoreDelta, ApplyDelta, GapDelta,
     FetchOk, FetchErr, AdoptFetched, AdoptRecorded, ReplaySkip, ReplayApply,
     ReplayMismatch, ReplayDone, Stop, exchangeVars
<1>6. CASE UNCHANGED vars
  BY <1>3, <1>6 DEF vars, exchangeVars
<1> QED
  BY <1>1, <1>2, <1>4, <1>5, <1>6 DEF Next, Environment

(***************************************************************************)
(* The events in flight.                                                   *)
(***************************************************************************)
LEMMA AppendKeepsAllTrue ==
  ASSUME NEW bs, NEW ts, NEW q \in Seq(Delta \cup Snapshot),
         NEW e \in Delta \cup Snapshot,
         AllTrue(q, bs, ts), TrueEvent(e, bs, ts)
  PROVE  AllTrue(Append(q, e), bs, ts)
BY AppendProperties DEF AllTrue

\* Taking the head of a queue of true events leaves true events.
LEMMA TailKeepsAllTrue ==
  ASSUME NEW bs, NEW ts, NEW q \in Seq(Delta \cup Snapshot), q # <<>>,
         AllTrue(q, bs, ts)
  PROVE  AllTrue(Tail(q), bs, ts) /\ TrueEvent(Head(q), bs, ts)
BY HeadTailProperties DEF AllTrue

\* A queue of true events stays true when the history grows.
LEMMA EventsStayTrue ==
  ASSUME NEW bs, NEW ts, NEW bs2, NEW ts2, Continues(bs, ts, bs2, ts2),
         Len(bs) \in Nat, Len(bs2) \in Nat,
         NEW q \in Seq(Delta \cup Snapshot), AllTrue(q, bs, ts)
  PROVE  AllTrue(q, bs2, ts2)
<1>1. ASSUME NEW i \in 1 .. Len(q) PROVE TrueEvent(q[i], bs2, ts2)
  <2>1. q[i] \in Delta \cup Snapshot /\ TrueEvent(q[i], bs, ts)
    BY DEF AllTrue
  <2>2. CASE q[i].type = "delta"
    BY <2>1, <2>2, EventKinds, DeltaStaysTrue DEF TrueEvent
  <2>3. CASE q[i].type # "delta"
    <3>1. q[i] \in Snapshot
      BY <2>1, <2>3 DEF Delta
    <3> QED BY <2>1, <2>3, <3>1, SnapshotStaysTrue DEF TrueEvent
  <2> QED BY <2>2, <2>3
<1> QED BY <1>1 DEF AllTrue

\* What the exchange sends is true of its history.
LEMMA SentEventsAreTrue ==
  ASSUME TypeOK
  PROVE  /\ \A first, final \in 1 .. Len(books), prev \in {cursor, NoId} :
              Reports(first, final, prev) =>
                TrueEvent(DeltaOf(first, final, prev), books, touched)
         /\ \A id \in RecentIds, listed \in SUBSET Levels :
              /\ TrueEvent(SnapshotOf(id, listed), books, touched)
              /\ TrueSnapshot(SnapshotOf(id, listed), books)
<1>1. ASSUME NEW first \in 1 .. Len(books), NEW final \in 1 .. Len(books),
             NEW prev \in {cursor, NoId}, Reports(first, final, prev)
      PROVE  TrueEvent(DeltaOf(first, final, prev), books, touched)
  <2>1. first \in Nat /\ final \in Nat /\ prev \in Nat /\ cursor \in Nat
    BY DEF TypeOK, NoId
  <2>2. /\ 1 <= first /\ first <= final /\ final <= Len(books)
        /\ prev # NoId => /\ prev < first
                          /\ \A k \in prev + 1 .. first - 1 : touched[k] = {}
    BY <1>1, <2>1 DEF Reports, TypeOK
  <2> QED
    BY <2>1, <2>2 DEF DeltaOf, TrueEvent, TrueDelta
<1>2. ASSUME NEW id \in RecentIds, NEW listed \in SUBSET Levels
      PROVE  /\ TrueEvent(SnapshotOf(id, listed), books, touched)
             /\ TrueSnapshot(SnapshotOf(id, listed), books)
  BY DEF RecentIds, SnapshotOf, TrueEvent, TrueSnapshot
<1> QED BY <1>1, <1>2

\* The channel gains a true event at its end or loses its first.
LEMMA ChannelStep ==
  ASSUME TypeOK, [Next]_vars
  PROVE  \/ chan' = chan
         \/ chan # <<>> /\ chan' = Tail(chan)
         \/ \E e \in Delta \cup Snapshot :
              /\ TrueEvent(e, books, touched)
              /\ FetchSnapshots => e.type = "delta"
              /\ chan' = Append(chan, e)
              /\ books' = books /\ touched' = touched
<1>1. ASSUME NEW first \in 1 .. Len(books), NEW final \in 1 .. Len(books),
             NEW prev \in {cursor, NoId}, DeliverDelta(first, final, prev)
      PROVE  \E e \in Delta \cup Snapshot :
              /\ TrueEvent(e, books, touched)
              /\ FetchSnapshots => e.type = "delta"
              /\ chan' = Append(chan, e)
              /\ books' = books /\ touched' = touched
  <2>1. DeltaOf(first, final, prev).type = "delta"
    BY DEF DeltaOf
  <2> QED
    BY <1>1, <2>1, EventsAreTyped, SentEventsAreTrue DEF DeliverDelta
<1>2. ASSUME NEW id \in RecentIds, NEW listed \in Listings(books[id]),
             InjectSnapshot(id, listed)
      PROVE  \E e \in Delta \cup Snapshot :
              /\ TrueEvent(e, books, touched)
              /\ FetchSnapshots => e.type = "delta"
              /\ chan' = Append(chan, e)
              /\ books' = books /\ touched' = touched
  BY <1>2, EventsAreTyped, SentEventsAreTrue, ListingsAreLevels
     DEF InjectSnapshot, exchangeVars
<1>3. CASE \/ \E l \in Levels, q \in Qty \cup {0} : ExchangeUpdate(l, q)
           \/ ExchangeSkipId
           \/ \E first, final \in 1 .. Len(books) : LoseDelta(first, final)
           \/ UNCHANGED vars
  BY <1>3 DEF ExchangeUpdate, ExchangeSkipId, LoseDelta, vars
<1>4. CASE Engine
  BY <1>4 DEF Engine, BufferDelta, IgnoreDelta, ApplyDelta, GapDelta,
     FetchOk, FetchErr, AdoptFetched, AdoptRecorded, ReplaySkip, ReplayApply,
     ReplayMismatch, ReplayDone, Stop, NextDelta
<1> QED
  BY <1>1, <1>2, <1>3, <1>4 DEF Next, Environment

\* Deltas are buffered from the channel, taken from the front, or cleared.
LEMMA PendingStep ==
  ASSUME [Next]_vars
  PROVE  \/ pending' = pending
         \/ pending # <<>> /\ pending' = Tail(pending)
         \/ pending' = <<>>
         \/ /\ chan # <<>> /\ Head(chan).type = "delta"
            /\ pending' = Append(pending, Head(chan))
<1>1. CASE Environment
  BY <1>1 DEF Environment, ExchangeUpdate, ExchangeSkipId, LoseDelta,
     DeliverDelta, InjectSnapshot, engineVars
<1>2. CASE Engine
  BY <1>2 DEF Engine, BufferDelta, IgnoreDelta, ApplyDelta, GapDelta,
     FetchOk, FetchErr, AdoptFetched, AdoptRecorded, ReplaySkip, ReplayApply,
     ReplayMismatch, ReplayDone, Stop, NextDelta, MarkDesynced, engineVars
<1>3. CASE UNCHANGED vars
  BY <1>3 DEF vars, engineVars
<1> QED BY <1>1, <1>2, <1>3 DEF Next

\* A step keeps the fetched snapshot, or fetches a true one.
LEMMA FetchedStep ==
  ASSUME TypeOK, [Next]_vars
  PROVE  \/ fetched' = fetched
         \/ /\ TrueSnapshot(fetched', books)
            /\ books' = books
<1>1. CASE Environment
  BY <1>1 DEF Environment, ExchangeUpdate, ExchangeSkipId, LoseDelta,
     DeliverDelta, InjectSnapshot
<1>2. ASSUME NEW id \in RecentIds, NEW listed \in Listings(books[id]),
             FetchOk(id, listed)
      PROVE  TrueSnapshot(fetched', books) /\ books' = books
  BY <1>2, SentEventsAreTrue, ListingsAreLevels DEF FetchOk, exchangeVars
<1>3. CASE Engine
  BY <1>2, <1>3 DEF Engine, BufferDelta, IgnoreDelta, ApplyDelta, GapDelta,
     FetchErr, AdoptFetched, AdoptRecorded, ReplaySkip, ReplayApply,
     ReplayMismatch, ReplayDone, Stop
<1>4. CASE UNCHANGED vars
  BY <1>4 DEF vars
<1> QED BY <1>1, <1>3, <1>4 DEF Next

\* Every step keeps the queued deltas and snapshots true.
LEMMA EventsStep ==
  ASSUME TypeOK, TypeOK', EventsInv, [Next]_vars
  PROVE  EventsInv'
<1>1. /\ IsHistory(books', touched')
      /\ Continues(books, touched, books', touched')
  BY HistoryStep DEF EventsInv
<1>2. Len(books) \in Nat /\ Len(books') \in Nat
  BY DEF TypeOK
<1>3. /\ chan \in Seq(Delta \cup Snapshot) /\ pending \in Seq(Delta \cup Snapshot)
      /\ chan' \in Seq(Delta \cup Snapshot) /\ pending' \in Seq(Delta \cup Snapshot)
  BY DEF TypeOK
<1>4. /\ AllTrue(chan, books', touched') /\ AllTrue(pending, books', touched')
  BY <1>1, <1>2, <1>3, EventsStayTrue DEF EventsInv
<1>5. AllTrue(chan', books', touched')
  BY <1>3, <1>4, ChannelStep, AppendKeepsAllTrue, TailKeepsAllTrue
<1>6. AllTrue(pending', books', touched')
  <2>1. AllTrue(<<>>, books', touched')
    BY DEF AllTrue
  <2>2. ASSUME chan # <<>>
        PROVE  Head(chan) \in Delta \cup Snapshot /\ TrueEvent(Head(chan), books', touched')
    BY <1>3, <1>4, <2>2, TailKeepsAllTrue, HeadTailProperties
  <2> QED
    BY <1>3, <1>4, <2>1, <2>2, PendingStep, AppendKeepsAllTrue, TailKeepsAllTrue
<1>7. TrueSnapshot(fetched', books')
  <2>1. TrueSnapshot(fetched, books')
    BY <1>1, <1>2, SnapshotStaysTrue DEF EventsInv, TypeOK
  <2> QED BY <2>1, FetchedStep
<1> QED BY <1>1, <1>5, <1>6, <1>7 DEF EventsInv

(***************************************************************************)
(* The books.                                                              *)
(***************************************************************************)
\* The two sequencing rules each make a delta join the book.
LEMMA AcceptedDeltasJoin ==
  ASSUME NEW bs, NEW ts, NEW d \in Delta, TrueDelta(d, bs, ts),
         NEW id \in Nat, id # NoId,
         FirstDeltaMatchesSnapshot(d, id) \/ FollowsDelta(d, id)
  PROVE  Joins(d, id)
BY DEF Delta, TrueDelta, FirstDeltaMatchesSnapshot, CoversSnapshot,
       FollowsDelta, Joins, NoId

\* So an accepted delta moves the engine's book to the exchange's next one.
LEMMA ApplyKeepsTrue ==
  ASSUME TypeOK, EventsInv, BooksInv, synced,
         NEW d \in Delta, TrueEvent(d, books, touched), Accepts(d), ApplyTo(d)
  PROVE  TrueBook(book', last', seen', books)
<1>1. TrueDelta(d, books, touched)
  BY DEF TrueEvent, Delta
<1>2. last \in Nat /\ last # NoId
  BY DEF BooksInv, TrueBook, TypeOK, NoId
<1>3. Joins(d, last)
  BY <1>1, <1>2, AcceptedDeltasJoin DEF Accepts
<1> QED
  BY <1>1, <1>3, ApplyKeepsBookTrue DEF EventsInv, BooksInv, ApplyTo

\* The book of a true snapshot agrees with the exchange.
LEMMA SnapshotIsTrueBook ==
  ASSUME NEW s \in Snapshot, TrueSnapshot(s, books), ApplySnapshot(s)
  PROVE  TrueBook(book', last', seen', books)
BY DEF ApplySnapshot, SnapshotBook, TrueBook, TrueSnapshot, Snapshot

\* Every step leaves the engine unsynced, with its book, or with a true one.
LEMMA BookStep ==
  ASSUME TypeOK, EventsInv, BooksInv, [Next]_vars
  PROVE  \/ ~synced'
         \/ synced /\ UNCHANGED <<book, last, seen>>
         \/ TrueBook(book', last', seen', books) /\ books' = books
<1>1. CASE Environment \/ UNCHANGED vars
  BY <1>1 DEF Environment, ExchangeUpdate, ExchangeSkipId, LoseDelta,
     DeliverDelta, InjectSnapshot, engineVars, vars
<1>2. CASE BufferDelta \/ IgnoreDelta \/ FetchErr \/ ReplaySkip \/ ReplayDone \/ Stop
           \/ \E id \in RecentIds : \E listed \in Listings(books[id]) :
                FetchOk(id, listed)
  BY <1>2 DEF BufferDelta, IgnoreDelta, FetchErr, ReplaySkip, ReplayDone, Stop,
     FetchOk, engineVars
<1>3. CASE GapDelta \/ ReplayMismatch
  BY <1>3 DEF GapDelta, ReplayMismatch, MarkDesynced
<1>4. CASE ApplyDelta
  <2>1. Head(chan) \in Delta /\ TrueEvent(Head(chan), books, touched)
    BY <1>4, QueuesTyped, TailKeepsAllTrue
       DEF ApplyDelta, NextDelta, EventsInv, TypeOK
  <2> QED
    BY <1>4, <2>1, ApplyKeepsTrue DEF ApplyDelta, exchangeVars
<1>5. CASE ReplayApply
  <2>1. Head(pending) \in Delta
    BY <1>5, QueuesTyped DEF ReplayApply
  <2>2. pending \in Seq(Delta \cup Snapshot)
    BY DEF TypeOK
  <2>3. TrueEvent(Head(pending), books, touched)
    BY <1>5, <2>2, TailKeepsAllTrue DEF ReplayApply, EventsInv
  <2>4. CASE synced
    BY <1>5, <2>1, <2>3, <2>4, ApplyKeepsTrue DEF ReplayApply, exchangeVars
  <2>5. CASE ~synced
    BY <1>5, <2>5 DEF ReplayApply
  <2> QED BY <2>4, <2>5
<1>6. CASE AdoptFetched
  BY <1>6, SnapshotIsTrueBook DEF AdoptFetched, EventsInv, TypeOK, exchangeVars
<1>7. CASE AdoptRecorded
  <2>1. Head(chan) \in Snapshot /\ TrueEvent(Head(chan), books, touched)
    BY <1>7, QueuesTyped, TailKeepsAllTrue
       DEF AdoptRecorded, EventsInv, TypeOK
  <2>2. TrueSnapshot(Head(chan), books)
    BY <1>7, <2>1 DEF AdoptRecorded, TrueEvent
  <2> QED
    BY <1>7, <2>1, <2>2, SnapshotIsTrueBook DEF AdoptRecorded, exchangeVars
<1> QED
  BY <1>1, <1>2, <1>3, <1>4, <1>5, <1>6, <1>7 DEF Next, Engine

\* What is published is what was, the unsynced value, or the engine's book.
LEMMA PublishedStep ==
  ASSUME [Next]_vars
  PROVE  \/ published' = published
         \/ published' = Unsynced
         \/ /\ published' = [synced |-> TRUE, last |-> last', book |-> book',
                             seen |-> seen']
            /\ synced' /\ ~awaiting'
<1>1. CASE Environment \/ UNCHANGED vars
  BY <1>1 DEF Environment, ExchangeUpdate, ExchangeSkipId, LoseDelta,
     DeliverDelta, InjectSnapshot, vars
<1>2. CASE Engine
  BY <1>2 DEF Engine, BufferDelta, IgnoreDelta, ApplyDelta, GapDelta,
     FetchOk, FetchErr, AdoptFetched, AdoptRecorded, ReplaySkip, ReplayApply,
     ReplayMismatch, ReplayDone, Stop, Publish
<1> QED BY <1>1, <1>2 DEF Next

\* Every step keeps the engine's book true.
LEMMA BooksStep ==
  ASSUME TypeOK, TypeOK', EventsInv, BooksInv, [Next]_vars
  PROVE  BooksInv'
<1>1. Continues(books, touched, books', touched')
  BY HistoryStep DEF EventsInv
<1>2. Len(books) \in Nat /\ Len(books') \in Nat
  BY DEF TypeOK
<1>3. synced' => TrueBook(book', last', seen', books')
  <2>1. CASE synced /\ UNCHANGED <<book, last, seen>>
    BY <1>1, <1>2, <2>1, BookStaysTrue DEF BooksInv
  <2> QED BY <2>1, BookStep
<1>4. published'.synced =>
        TrueBook(published'.book, published'.last, published'.seen, books')
  <2>1. CASE published' = published
    BY <1>1, <1>2, <2>1, BookStaysTrue DEF BooksInv
  <2>2. CASE published' = Unsynced
    BY <2>2 DEF Unsynced
  <2>3. CASE published' = [synced |-> TRUE, last |-> last', book |-> book',
                           seen |-> seen'] /\ synced'
    BY <1>3, <2>3
  <2> QED BY <2>1, <2>2, <2>3, PublishedStep
<1> QED BY <1>3, <1>4 DEF BooksInv

(***************************************************************************)
(* The flags and the counters.                                             *)
(***************************************************************************)
OnlyDeltas == FetchSnapshots => \A i \in 1 .. Len(chan) : chan[i].type = "delta"

\* A live engine's channel carries only deltas, after every step.
LEMMA OnlyDeltasStep ==
  ASSUME TypeOK, OnlyDeltas, [Next]_vars
  PROVE  OnlyDeltas'
<1>1. CASE chan' = chan
  BY <1>1 DEF OnlyDeltas
<1>2. CASE chan # <<>> /\ chan' = Tail(chan)
  BY <1>2, HeadTailProperties DEF OnlyDeltas, TypeOK
<1>3. ASSUME NEW e \in Delta \cup Snapshot, FetchSnapshots => e.type = "delta",
             chan' = Append(chan, e)
      PROVE  OnlyDeltas'
  BY <1>3, AppendProperties DEF OnlyDeltas, TypeOK
<1> QED BY <1>1, <1>2, <1>3, ChannelStep

\* The part of ControlInv that does not speak of the channel.
Flags ==
  /\ awaiting => synced
  /\ Fetching => ~synced /\ FetchSnapshots
  /\ pc = "fetching" => inFlight
  /\ pc = "replaying" => synced
  /\ Resting /\ pending # <<>> => ~synced /\ (FetchSnapshots => inFlight)
  /\ FetchSnapshots => resyncs = gaps + (IF synced THEN 1 ELSE 0)

\* The environment leaves the engine's state alone.
LEMMA EnvironmentOutside ==
  ASSUME Environment \/ UNCHANGED vars
  PROVE  /\ pc' = pc /\ last' = last /\ seen' = seen /\ pending' = pending
         /\ synced' = synced /\ inFlight' = inFlight /\ awaiting' = awaiting
         /\ resyncs' = resyncs /\ gaps' = gaps /\ published' = published
BY DEF Environment, ExchangeUpdate, ExchangeSkipId, LoseDelta, DeliverDelta,
       InjectSnapshot, engineVars, vars

\* Every step keeps the flags in agreement with the place of the engine.
LEMMA FlagsStep ==
  ASSUME TypeOK, OnlyDeltas, Flags, [Next]_vars
  PROVE  Flags'
<1> USE DEF Flags, Fetching, Resting
<1>1. CASE Environment \/ UNCHANGED vars
  BY <1>1, EnvironmentOutside
<1>2. CASE BufferDelta
  BY <1>2 DEF BufferDelta, StartsFetch, NextDelta
<1>3. CASE IgnoreDelta
  BY <1>3 DEF IgnoreDelta, NextDelta, engineVars
<1>4. CASE ApplyDelta
  BY <1>4 DEF ApplyDelta, ApplyTo, NextDelta
<1>5. CASE GapDelta \/ ReplayMismatch
  <2>1. synced /\ gaps' = gaps + 1 /\ synced' = FALSE /\ resyncs' = resyncs
    BY <1>5 DEF GapDelta, ReplayMismatch, MarkDesynced
  <2>2. FetchSnapshots => resyncs' = gaps' + 0
    BY <2>1 DEF TypeOK
  <2>3. pending' = <<>> /\ ~awaiting'
    BY <1>5 DEF GapDelta, ReplayMismatch, MarkDesynced
  <2>4. pc' = "idle" \/ (pc' = "fetching" /\ inFlight' /\ FetchSnapshots)
    BY <1>5 DEF GapDelta, ReplayMismatch, NextDelta
  <2> QED BY <2>1, <2>2, <2>3, <2>4
<1>6. CASE \E id \in RecentIds : \E listed \in Listings(books[id]) :
             FetchOk(id, listed)
  BY <1>6 DEF FetchOk
<1>7. CASE FetchErr
  BY <1>7 DEF FetchErr, engineVars
<1>8. CASE AdoptFetched
  <2>1. /\ ~synced /\ FetchSnapshots /\ resyncs' = resyncs + 1 /\ gaps' = gaps
        /\ synced' = TRUE /\ pc' = "replaying"
    BY <1>8 DEF AdoptFetched, ApplySnapshot
  <2> QED BY <2>1 DEF TypeOK
<1>9. CASE AdoptRecorded
  <2>1. ~FetchSnapshots
    BY <1>9 DEF AdoptRecorded, OnlyDeltas, TypeOK
  <2> QED BY <1>9, <2>1 DEF AdoptRecorded, ApplySnapshot
<1>10. CASE ReplaySkip
  BY <1>10 DEF ReplaySkip
<1>11. CASE ReplayApply
  BY <1>11 DEF ReplayApply, ApplyTo
<1>12. CASE ReplayDone \/ Stop
  BY <1>12 DEF ReplayDone, Stop, engineVars
<1> QED
  BY <1>1, <1>2, <1>3, <1>4, <1>5, <1>6, <1>7, <1>8, <1>9, <1>10, <1>11, <1>12
     DEF Next, Engine

\* Every step keeps the control part of the inductive invariant.
LEMMA ControlStep ==
  ASSUME TypeOK, ControlInv, [Next]_vars
  PROVE  ControlInv'
<1>1. OnlyDeltas /\ Flags
  BY DEF ControlInv, OnlyDeltas, Flags
<1>2. OnlyDeltas' /\ Flags'
  BY <1>1, OnlyDeltasStep, FlagsStep
<1> QED BY <1>2 DEF ControlInv, OnlyDeltas, Flags

(***************************************************************************)
(* The published view.                                                     *)
(***************************************************************************)
LEMMA ViewStep ==
  ASSUME TypeOK, ControlInv, ViewInv, [Next]_vars
  PROVE  ViewInv'
<1> USE DEF Resting, Fetching
<1>1. Unsynced.synced = FALSE
  BY DEF Unsynced
<1>2. CASE Environment \/ UNCHANGED vars
  BY <1>2, EnvironmentOutside DEF ViewInv
<1>3. CASE BufferDelta
  <2>1. ~synced /\ pc = "idle"
    BY <1>3 DEF BufferDelta, NextDelta
  <2>2. published.synced => inFlight /\ FetchSnapshots
    BY <2>1 DEF ViewInv
  <2>3. CASE StartsFetch
    BY <1>3, <2>1, <2>2, <2>3 DEF BufferDelta, StartsFetch, ViewInv
  <2>4. CASE ~StartsFetch
    BY <1>1, <1>3, <2>1, <2>4 DEF BufferDelta, Publish, ViewInv
  <2> QED BY <2>3, <2>4
<1>4. CASE IgnoreDelta
  BY <1>1, <1>4 DEF IgnoreDelta, NextDelta, Stale, Publish, engineVars, ViewInv
<1>5. CASE ApplyDelta
  <2>1. published' = [synced |-> TRUE, last |-> last', book |-> book',
                      seen |-> seen']
    BY <1>5 DEF ApplyDelta, ApplyTo, Publish
  <2> QED BY <1>5, <2>1 DEF ApplyDelta, ApplyTo, NextDelta, ViewInv
<1>6. CASE GapDelta
  BY <1>1, <1>6 DEF GapDelta, MarkDesynced, NextDelta, Publish, ViewInv
<1>7. CASE \E id \in RecentIds : \E listed \in Listings(books[id]) :
             FetchOk(id, listed)
  BY <1>7 DEF FetchOk, ViewInv
<1>8. CASE FetchErr
  BY <1>8 DEF FetchErr, engineVars, ControlInv, ViewInv
<1>9. CASE AdoptFetched
  BY <1>9 DEF AdoptFetched, ApplySnapshot, ControlInv, ViewInv
<1>10. CASE AdoptRecorded
  <2>1. ~FetchSnapshots
    BY <1>10 DEF AdoptRecorded, ControlInv, TypeOK
  <2>2. published.synced => pending = <<>>
    BY <1>10, <2>1 DEF AdoptRecorded, ControlInv, ViewInv
  <2> QED BY <1>10, <2>2 DEF AdoptRecorded, ApplySnapshot, ViewInv
<1>11. CASE ReplaySkip \/ ReplayApply
  <2>1. ~published.synced
    BY <1>11 DEF ReplaySkip, ReplayApply, ViewInv
  <2> QED BY <1>11, <2>1 DEF ReplaySkip, ReplayApply, ViewInv
<1>12. CASE ReplayMismatch
  BY <1>1, <1>12 DEF ReplayMismatch, MarkDesynced, Publish, ViewInv
<1>13. CASE ReplayDone
  BY <1>1, <1>13 DEF ReplayDone, Publish, engineVars, ViewInv
<1>14. CASE Stop
  BY <1>14 DEF Stop, engineVars, ViewInv
<1> QED
  BY <1>2, <1>3, <1>4, <1>5, <1>6, <1>7, <1>8, <1>9, <1>10, <1>11, <1>12,
     <1>13, <1>14 DEF Next, Engine

\* The inductive invariant is inductive.
LEMMA IInvStep == IInv /\ [Next]_vars => IInv'
<1> SUFFICES ASSUME IInv, [Next]_vars PROVE IInv'
  OBVIOUS
<1>1. TypeOK'
  <2>1. TypeOK /\ UNCHANGED vars => TypeOK'
    BY DEF TypeOK, vars, exchangeVars, engineVars
  <2> QED BY <2>1, EnvironmentTyped, EngineTyped DEF IInv, Next
<1> QED
  BY <1>1, EventsStep, BooksStep, ControlStep, ViewStep DEF IInv

\* The inductive invariant holds in every reachable state.
THEOREM Invariance == Spec => []IInv
BY InitIInv, IInvStep, PTL DEF Spec

-----------------------------------------------------------------------------
(***************************************************************************)
(* What follows from it.                                                   *)
(***************************************************************************)
\* A synced book in /health is a book the exchange had (orderbook.rs,
\* apply_synced_delta and replay_pending), however deltas are lost.
THEOREM PublishedIsReal == Spec => []PublishedBookIsReal
<1>1. IInv => PublishedBookIsReal
  BY DEF IInv, BooksInv, TrueBook, PublishedBookIsReal, IsExchangeBook
<1> QED BY <1>1, Invariance, PTL

\* The gap and resync counters of a live engine account for its book.
THEOREM CountersAccount == Spec => []ResyncsAnswerGaps
<1>1. IInv => ResyncsAnswerGaps
  BY DEF IInv, ControlInv, ResyncsAnswerGaps
<1> QED BY <1>1, Invariance, PTL

\* Nothing stays buffered behind a synced book.
THEOREM PendingIsReplayed == Spec => []NothingLeftPending
<1>1. IInv => NothingLeftPending
  BY DEF IInv, ControlInv, Resting, NothingLeftPending
<1> QED BY <1>1, Invariance, PTL

\* A synced view is replaced by a later one of a book that knows more.
LEMMA ViewsAdvance ==
  ASSUME IInv, [Next]_vars,
         published.synced, published'.synced, published' # published
  PROVE  /\ published.last <= published'.last
         /\ published.seen \subseteq published'.seen
<1> USE DEF IInv, Resting, Fetching
<1>1. CASE Environment \/ UNCHANGED vars
  BY <1>1, EnvironmentOutside
<1>2. CASE ApplyDelta
  <2>1. Head(chan) \in Delta
    BY <1>2, QueuesTyped DEF ApplyDelta, NextDelta
  <2>2. /\ published' = [synced |-> TRUE, last |-> last', book |-> book',
                         seen |-> seen']
        /\ last' = Head(chan).u /\ seen \subseteq seen'
    BY <1>2 DEF ApplyDelta, ApplyTo, Publish
  <2>3. ~awaiting /\ last = published.last /\ seen = published.seen
    BY <1>2 DEF ApplyDelta, NextDelta, ViewInv
  <2>4. FollowsDelta(Head(chan), last)
    BY <1>2, <2>3 DEF ApplyDelta, Accepts
  <2> QED
    BY <2>1, <2>2, <2>3, <2>4 DEF FollowsDelta, Delta, TypeOK
<1>3. CASE IgnoreDelta \/ BufferDelta \/ GapDelta \/ ReplayMismatch
  BY <1>3 DEF IgnoreDelta, BufferDelta, GapDelta, ReplayMismatch, MarkDesynced,
     Stale, Publish, Unsynced, engineVars, ControlInv
<1>4. CASE ReplayDone
  BY <1>4 DEF ReplayDone, Publish, Unsynced, engineVars, ViewInv
<1>5. CASE \/ FetchErr \/ AdoptFetched \/ AdoptRecorded \/ ReplaySkip
           \/ ReplayApply \/ Stop
           \/ \E id \in RecentIds : \E listed \in Listings(books[id]) :
                FetchOk(id, listed)
  BY <1>5 DEF FetchErr, AdoptFetched, AdoptRecorded, ReplaySkip, ReplayApply,
     Stop, FetchOk
<1> QED BY <1>1, <1>2, <1>3, <1>4, <1>5 DEF Next, Engine

\* A reader of /health never sees a synced book go back.
THEOREM PublishedAdvances == Spec => PublishedBookAdvances
<1>1. IInv /\ [Next]_vars =>
        [published.synced /\ published'.synced
           => published'.last >= published.last]_vars
  <2> SUFFICES ASSUME IInv, [Next]_vars, published.synced, published'.synced
               PROVE  published'.last >= published.last
    OBVIOUS
  <2>1. CASE published' = published
    BY <2>1 DEF IInv, TypeOK
  <2>2. CASE published' # published
    <3>1. published.last <= published'.last
      BY <2>2, ViewsAdvance
    <3>2. published.last \in Nat /\ published'.last \in Nat
      BY IInvStep DEF IInv, TypeOK
    <3> QED BY <3>1, <3>2
  <2> QED BY <2>1, <2>2
<1> QED BY <1>1, Invariance, PTL DEF Spec, PublishedBookAdvances

\* The published synced view is the mirror's copy of the book it names.
MirrorView == /\ published = Mirror!ViewAt(published.last, published.seen)
              /\ published.last \in 1 .. Len(books)
              /\ published.seen \in SUBSET Levels

\* Synced statistics are what the abstract mirror may show.
LEMMA ViewIsMirror == IInv /\ published.synced => MirrorView
<1> SUFFICES ASSUME IInv, published.synced PROVE MirrorView
  OBVIOUS
<1>1. published \in [synced : BOOLEAN, last : Nat, book : Book,
                     seen : SUBSET Levels]
  BY DEF IInv, TypeOK
<1>2. TrueBook(published.book, published.last, published.seen, books)
  BY DEF IInv, BooksInv
<1>3. published.book = [l \in Levels |-> IF l \in published.seen
                                          THEN books[published.last][l] ELSE 0]
  BY <1>1, <1>2 DEF Book, TrueBook
<1> QED
  BY <1>1, <1>2, <1>3 DEF MirrorView, Mirror!ViewAt, TrueBook

\* The engine implements the abstract mirror of the exchange's book.
THEOREM Refinement == Spec => MirrorsTheExchange
<1>1. Init => Mirror!Init
  BY DEF Init, Mirror!Init, Mirror!Book, Book, Mirror!NoView, Unsynced,
         EmptyBook, NoId
<1>2. IInv /\ IInv' /\ [Next]_vars => [Mirror!Next]_Mirror!vars
  <2> SUFFICES ASSUME IInv, IInv', [Next]_vars
               PROVE  [Mirror!Next]_Mirror!vars
    OBVIOUS
  <2>1. CASE published' = published
    <3>1. books' = books \/ \E b \in Book : books' = Append(books, b)
      <4>1. \A l \in Levels, q \in Qty \cup {0} :
              [books[Len(books)] EXCEPT ![l] = q] \in Book
        BY DEF IInv, TypeOK, Book
      <4>2. books[Len(books)] \in Book
        BY DEF IInv, TypeOK
      <4>3. CASE Environment
        BY <4>1, <4>2, <4>3 DEF Environment, ExchangeUpdate, ExchangeSkipId,
           LoseDelta, DeliverDelta, InjectSnapshot, exchangeVars
      <4>4. CASE Engine
        BY <4>4 DEF Engine, BufferDelta, IgnoreDelta, ApplyDelta, GapDelta,
           FetchOk, FetchErr, AdoptFetched, AdoptRecorded, ReplaySkip,
           ReplayApply, ReplayMismatch, ReplayDone, Stop, exchangeVars
      <4>5. CASE UNCHANGED vars
        BY <4>5 DEF vars, exchangeVars
      <4> QED BY <4>3, <4>4, <4>5 DEF Next
    <3> QED
      BY <2>1, <3>1 DEF Mirror!Next, Mirror!Trade, Mirror!vars, Mirror!Book, Book
  <2>2. CASE published' # published
    <3>1. books' = books
      <4>1. CASE Environment \/ UNCHANGED vars
        BY <2>2, <4>1, EnvironmentOutside
      <4>2. CASE Engine
        BY <4>2 DEF Engine, BufferDelta, IgnoreDelta, ApplyDelta, GapDelta,
           FetchOk, FetchErr, AdoptFetched, AdoptRecorded, ReplaySkip,
           ReplayApply, ReplayMismatch, ReplayDone, Stop, exchangeVars
      <4> QED BY <4>1, <4>2 DEF Next
    <3>2. CASE ~published'.synced
      <4>1. published' = Unsynced
        BY <3>2 DEF IInv, ViewInv, Unsynced, EmptyBook
      <4> QED
        BY <3>1, <4>1 DEF Mirror!Next, Mirror!Drop, Mirror!NoView, Unsynced,
           EmptyBook, NoId
    <3>3. CASE published'.synced
      <4>1. /\ published' = Mirror!ViewAt(published'.last, published'.seen)
            /\ published'.last \in 1 .. Len(books)
            /\ published'.seen \in SUBSET Levels
        <5>1. MirrorView'
          <6>1. (published.synced)'
            BY <3>3
          <6>2. (IInv /\ published.synced => MirrorView)'
            BY ViewIsMirror, PTL
          <6> QED BY <6>1, <6>2
        <5> QED BY <3>1, <5>1 DEF MirrorView, Mirror!ViewAt
      <4>2. CASE ~published.synced
        BY <3>1, <4>1, <4>2 DEF Mirror!Next, Mirror!Adopt
      <4>3. CASE published.synced
        <5>1. /\ published.last <= published'.last
              /\ published.seen \subseteq published'.seen
          BY <2>2, <3>3, <4>3, ViewsAdvance
        <5>2. published'.last \in published.last .. Len(books)
          BY <4>1, <5>1 DEF IInv, TypeOK
        <5> QED
          BY <3>1, <4>1, <4>3, <5>1, <5>2 DEF Mirror!Next, Mirror!Follow
      <4> QED BY <4>2, <4>3
    <3> QED BY <3>2, <3>3
  <2> QED BY <2>1, <2>2
<1> QED
  BY <1>1, <1>2, Invariance, PTL DEF Spec, MirrorsTheExchange, Mirror!Spec
=============================================================================
