------------------------------ MODULE Heatmap ------------------------------
(***************************************************************************)
(* The heatmap engine (heatmap.rs): a copy of the book kept from every     *)
(* delta as it comes, without a check of its sequence, the touches and     *)
(* removals of each level, and the stack and pull events near the top.     *)
(* Imbalances, walls and the micro price are read off this state.          *)
(***************************************************************************)
EXTENDS MarketEvents

CONSTANTS
  NearTopLevels,  \* NEAR_TOP_LEVELS
  EventHistory,   \* EVENT_HISTORY
  HeatmapVenues   \* the exchanges let through: live {"binance"}, in research all

ASSUME HeatmapAssumption ==
  NearTopLevels \in Nat /\ EventHistory \in Nat \ {0} /\ HeatmapVenues \subseteq STRING

VARIABLES
  book,        \* bids and asks: quantity by price
  levelState,  \* bid_states and ask_states
  stackPull,   \* stack and pull counters by side
  heatEvents   \* recent_events

heatmapVars == <<book, levelState, stackPull, heatEvents>>

Sides == {"bid", "ask"}
NewLevel(ts) == [added |-> 0, removed |-> 0, touches |-> 0, survived |-> 0,
                 vanished |-> 0, firstSeen |-> ts, qty |-> 0]
NoCounts == [kind \in {"stack", "pull"} |-> [side \in Sides |-> 0]]

HeatmapInit ==
  /\ book = [side \in Sides |-> NoEntries]
  /\ levelState = [side \in Sides |-> NoEntries]
  /\ stackPull = NoCounts
  /\ heatEvents = <<>>

-----------------------------------------------------------------------------
\* The n best prices of a side of a book.
Best(b, side, n) ==
  {p \in DOMAIN b[side] :
     Cardinality({q \in DOMAIN b[side] : IF side = "bid" THEN q > p ELSE q < p}) < n}

\* Mutant: a level of quantity 0 stays in the book.
SetLevelKeepsZero(b, side, level) == [b EXCEPT ![side] = Put(@, level.price, level.qty)]

SetLevel(b, side, level) ==
  [b EXCEPT ![side] = IF level.qty = 0
                      THEN [p \in DOMAIN @ \ {level.price} |-> @[p]]
                      ELSE Put(@, level.price, level.qty)]

\* update_state: touched tells whether the level was the best one before.
UpdateState(states, price, before, after, ts, touched) ==
  LET s == IF price \in DOMAIN states THEN states[price] ELSE NewLevel(ts)
  IN IF before = 0 /\ after = 0 THEN states
     ELSE Put(states, price,
            [s EXCEPT !.added = @ + (IF after > before THEN after - before ELSE 0),
                      !.removed = @ + (IF before > after THEN before - after ELSE 0),
                      !.touches = @ + (IF touched THEN 1 ELSE 0),
                      !.survived = @ + (IF touched /\ after > 0 THEN 1 ELSE 0),
                      !.vanished = @ + (IF ~touched /\ before > 0 /\ after = 0
                                           /\ s.touches = 0 THEN 1 ELSE 0),
                      !.qty = after])

\* record_stack_pull: none, or the kind of the event.
StackOrPull(before, after, nearTop) ==
  IF ~nearTop \/ before = 0 THEN {}
  ELSE CASE after > before -> {"stack"}
         [] 2 * after < before -> {"pull"}
         [] OTHER -> {}

\* apply_level on the record of the whole state
ApplyLevel(h, side, level, ts) ==
  LET before == At(h.book[side], level.price)
      after == level.qty
      touched == level.price \in Best(h.book, side, 1)
      newBook == SetLevel(h.book, side, level)
      nearTop == level.price \in Best(h.book, side, NearTopLevels)
                                   \cup Best(newBook, side, NearTopLevels)
      kinds == StackOrPull(before, after, nearTop)
  IN [book |-> newBook,
      states |-> [h.states EXCEPT
        ![side] = UpdateState(@, level.price, before, after, ts, touched)],
      counts |-> [k \in DOMAIN h.counts |->
        [s \in Sides |-> h.counts[k][s] + (IF k \in kinds /\ s = side THEN 1 ELSE 0)]],
      events |-> IF kinds = {} THEN h.events
                 ELSE Recent(Append(h.events,
                        [kind |-> CHOOSE k \in kinds : TRUE, side |-> side,
                         price |-> level.price, before |-> before, after |-> after]),
                        EventHistory)]

\* The levels of one side, one after the other.
ApplyLevels(h, side, levels, ts) ==
  LET apply[n \in 0..Len(levels)] ==
        IF n = 0 THEN h ELSE ApplyLevel(apply[n - 1], side, levels[n], ts)
  IN apply[Len(levels)]

Becomes(h) ==
  /\ book' = h.book
  /\ levelState' = h.states
  /\ stackPull' = h.counts
  /\ heatEvents' = h.events

\* apply_delta: the bids before the asks.
ApplyDelta(e) ==
  LET h == [book |-> book, states |-> levelState, counts |-> stackPull,
            events |-> heatEvents]
  IN Becomes(ApplyLevels(ApplyLevels(h, "bid", e.bids, e.ts), "ask", e.asks, e.ts))

\* The levels an event has for a side
LevelsOf(e, side) == IF side = "bid" THEN e.bids ELSE e.asks

\* apply_snapshot: everything starts anew from the levels of the snapshot.
ApplySnapshot(e) ==
  LET some(side) == {n \in DOMAIN LevelsOf(e, side) : LevelsOf(e, side)[n].qty > 0}
      prices(side) == {LevelsOf(e, side)[n].price : n \in some(side)}
      qty(side, p) == LevelsOf(e, side)[Max({n \in some(side) :
                                               LevelsOf(e, side)[n].price = p})].qty
      fresh == [side \in Sides |-> [p \in prices(side) |-> qty(side, p)]]
  IN Becomes([book |-> fresh,
              states |-> [side \in Sides |-> [p \in prices(side) |->
                [NewLevel(e.ts) EXCEPT !.added = fresh[side][p], !.qty = fresh[side][p]]]],
              counts |-> NoCounts, events |-> <<>>])

HeatmapReceives(e) ==
  CASE e.kind = "snapshot" /\ e.exchange \in HeatmapVenues -> ApplySnapshot(e)
    [] e.kind = "delta" /\ e.exchange \in HeatmapVenues -> ApplyDelta(e)
    [] OTHER -> UNCHANGED heatmapVars

-----------------------------------------------------------------------------
HeatmapTypeOK ==
  /\ \A side \in Sides :
       /\ \A p \in DOMAIN book[side] : book[side][p] \in Nat \ {0}
       /\ \A p \in DOMAIN levelState[side] : levelState[side][p].touches \in Nat
  /\ stackPull \in [{"stack", "pull"} -> [Sides -> Nat]]
  /\ Len(heatEvents) <= EventHistory

BookEvents(l) == {p \in DOMAIN l : /\ l[p].kind \in {"delta", "snapshot"}
                                   /\ l[p].exchange \in HeatmapVenues}

\* The levels by which an event sets a price: a snapshot's empty ones do not.
Writes(e, side, price) ==
  {n \in DOMAIN LevelsOf(e, side) : /\ LevelsOf(e, side)[n].price = price
                                    /\ e.kind = "delta" \/ LevelsOf(e, side)[n].qty > 0}

\* The last quantity the venues sent for a price, no earlier than the last
\* snapshot
Sent(l, side, price) ==
  LET since == {p \in BookEvents(l) :
                  \A s \in BookEvents(l) : l[s].kind = "snapshot" => s <= p}
      written == {p \in since : Writes(l[p], side, price) # {}}
      e == l[Max(written)]
  IN IF written = {} THEN 0 ELSE LevelsOf(e, side)[Max(Writes(e, side, price))].qty

(***************************************************************************)
(* The heatmap shows, level by level, the last quantity sent since the     *)
(* last snapshot, and its history of a level balances: what was added less *)
(* what was removed is what is left, and no more touches are survived than *)
(* there were.  (apply_delta, apply_snapshot, set_level, update_state)     *)
(***************************************************************************)
HeatmapIsTheLastWrite ==
  \A side \in Sides :
    /\ \A price \in DOMAIN levelState[side] \cup DOMAIN book[side] :
         /\ At(book[side], price) = Sent(log, side, price)
         /\ price \in DOMAIN book[side] <=> Sent(log, side, price) > 0
    /\ \A price \in DOMAIN levelState[side] :
         LET s == levelState[side][price]
         IN /\ s.qty = At(book[side], price)
            /\ s.added - s.removed = s.qty
            /\ s.survived <= s.touches
    /\ \A p \in BookEvents(log) : \A n \in DOMAIN LevelsOf(log[p], side) :
         LET price == LevelsOf(log[p], side)[n].price
         IN At(book[side], price) = Sent(log, side, price)
=============================================================================
