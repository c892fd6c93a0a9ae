------------------------------ MODULE Profile ------------------------------
(***************************************************************************)
(* The volume profile engine (profile.rs): time-price opportunities with   *)
(* their point of control and value area, the volume profile, the volume   *)
(* weighted average price, and the naked point of control of the session   *)
(* before.  Bands and z-scores are kept as fractions, so nothing rounds.   *)
(***************************************************************************)
EXTENDS MarketEvents

CONSTANTS
  PriceBin,     \* price_bin_size
  TpoInterval,  \* tpo_interval
  Session,      \* SESSION_MS
  ValueAreaPct  \* VALUE_AREA_PCT in percent

ASSUME ProfileAssumption ==
  /\ PriceBin \in Nat \ {0} /\ TpoInterval \in Nat \ {0}
  /\ Session \in Nat \ {0} /\ ValueAreaPct \in 1..100

VARIABLES
  session,        \* session_start_ms
  tpoBucket,      \* current_tpo_bucket_start_ms
  tpoBins,        \* current_tpo_bins
  tpoCounts,      \* tpo_counts
  volume,         \* volume_by_bin
  sessionTrades,  \* trades_seen
  sums,           \* sum_qty, sum_price_qty, sum_price2_qty
  npoc            \* previous_npoc

profileVars == <<session, tpoBucket, tpoBins, tpoCounts, volume, sessionTrades,
                 sums, npoc>>

NoSums == [qty |-> 0, pq |-> 0, p2q |-> 0]

ProfileInit ==
  /\ session = 0
  /\ tpoBucket = {}
  /\ tpoBins = {}
  /\ tpoCounts = NoEntries
  /\ volume = NoEntries
  /\ sessionTrades = 0
  /\ sums = NoSums
  /\ npoc = {}

-----------------------------------------------------------------------------
(***************************************************************************)
(* value_area: from the point of control the range grows by one bin at a   *)
(* time, to the fuller side and to the right when both are equal, until it *)
(* holds the target or every bin.  grow[n] is the range after n steps.     *)
(***************************************************************************)
TargetTpos(counts) == (Total(counts) * ValueAreaPct + 99) \div 100

Within(counts, low, high) == {b \in DOMAIN counts : low <= b /\ b <= high}
Held(counts, area) == Total([b \in Within(counts, area.low, area.high) |-> counts[b]])

\* Mutant: the range grows to the emptier side.
GrowEmptier(counts, area) ==
  LET below == {b \in DOMAIN counts : b < area.low}
      above == {b \in DOMAIN counts : b > area.high}
      left == IF below = {} THEN 0 ELSE counts[Max(below)]
      right == IF above = {} THEN 0 ELSE counts[Min(above)]
  IN IF Held(counts, area) >= TargetTpos(counts) \/ below \cup above = {} THEN area
     ELSE IF above # {} /\ (right <= left \/ below = {})
          THEN [area EXCEPT !.high = Min(above)]
          ELSE [area EXCEPT !.low = Max(below)]

Grow(counts, area) ==
  LET below == {b \in DOMAIN counts : b < area.low}
      above == {b \in DOMAIN counts : b > area.high}
      left == IF below = {} THEN 0 ELSE counts[Max(below)]
      right == IF above = {} THEN 0 ELSE counts[Min(above)]
  IN IF Held(counts, area) >= TargetTpos(counts) \/ below \cup above = {} THEN area
     ELSE IF above # {} /\ right >= left THEN [area EXCEPT !.high = Min(above)]
          ELSE [area EXCEPT !.low = Max(below)]

ValueArea(counts) ==
  LET poc == ArgMax(counts)
      grow[n \in 0..Cardinality(DOMAIN counts)] ==
        IF n = 0 THEN [low |-> poc, high |-> poc] ELSE Grow(counts, grow[n - 1])
  IN grow[Cardinality(DOMAIN counts)]

(***************************************************************************)
(* vwap_stats: price > vwap + 2 sigma, and price < vwap - 2 sigma, without *)
(* the division by sum_qty and the square root.                            *)
(***************************************************************************)
Deviation(s, price) == price * s.qty - s.pq
VwapVariance(s) == s.p2q * s.qty - s.pq * s.pq
AboveUpper2(s, price) ==
  Deviation(s, price) > 0 /\ Deviation(s, price) * Deviation(s, price) > 4 * VwapVariance(s)
BelowLower2(s, price) ==
  Deviation(s, price) < 0 /\ Deviation(s, price) * Deviation(s, price) > 4 * VwapVariance(s)

-----------------------------------------------------------------------------
\* roll_session carries the point of control of the session that ends.
Carry ==
  {[session |-> session, bin |-> ArgMax(tpoCounts), touched |-> FALSE]}

\* Mutant: a bin is counted again for every trade of the interval.
CountEveryTrade(e, bin, oldBucket, oldBins, oldCounts) ==
  LET start == FloorTo(e.ts, TpoInterval)
      seen == IF oldBucket = {start} THEN oldBins ELSE {}
  IN /\ tpoBucket' = {start}
     /\ tpoBins' = seen \cup {bin}
     /\ tpoCounts' = Add(oldCounts, bin, 1)

\* observe_tpo: a bin counts once per interval.
ObserveTpo(e, bin, oldBucket, oldBins, oldCounts) ==
  LET start == FloorTo(e.ts, TpoInterval)
      seen == IF oldBucket = {start} THEN oldBins ELSE {}
  IN /\ tpoBucket' = {start}
     /\ tpoBins' = seen \cup {bin}
     /\ tpoCounts' = IF bin \in seen THEN oldCounts ELSE Add(oldCounts, bin, 1)

(***************************************************************************)
(* observe_trade: the first trade of another session (before or after the  *)
(* current one) rolls it, then may touch the point of control just carried.*)
(***************************************************************************)
ObserveProfile(e) ==
  LET start == FloorTo(e.ts, Session)
      rolls == sessionTrades > 0 /\ start # session
      bin == e.price \div PriceBin
      old == IF rolls THEN NoSums ELSE sums
  IN /\ session' = IF rolls \/ sessionTrades = 0 THEN start ELSE session
     /\ npoc' = {[n EXCEPT !.touched = @ \/ n.bin = bin] :
                   n \in IF rolls THEN Carry ELSE npoc}
     /\ sessionTrades' = (IF rolls THEN 0 ELSE sessionTrades) + 1
     /\ ObserveTpo(e, bin, IF rolls THEN {} ELSE tpoBucket,
                   IF rolls THEN {} ELSE tpoBins,
                   IF rolls THEN NoEntries ELSE tpoCounts)
     /\ volume' = Add(IF rolls THEN NoEntries ELSE volume, bin, e.qty)
     /\ sums' = [qty |-> old.qty + e.qty, pq |-> old.pq + e.price * e.qty,
                 p2q |-> old.p2q + e.price * e.price * e.qty]

\* The task: trades are observed, every other event is dropped.
ProfileReceives(e) ==
  IF e.kind = "trade" THEN ObserveProfile(e) ELSE UNCHANGED profileVars

-----------------------------------------------------------------------------
ProfileTypeOK ==
  /\ session \in Nat /\ sessionTrades \in Nat
  /\ tpoBucket \subseteq Nat /\ Cardinality(tpoBucket) <= 1
  /\ tpoBins \subseteq DOMAIN tpoCounts
  /\ DOMAIN tpoCounts = DOMAIN volume
  /\ \A b \in DOMAIN tpoCounts : tpoCounts[b] \in Nat \ {0} /\ volume[b] \in Nat \ {0}
  /\ sums \in [qty : Nat, pq : Nat, p2q : Nat]
  /\ Cardinality(npoc) <= 1
  /\ \A n \in npoc : n \in [session : Nat, bin : Nat, touched : BOOLEAN]

SessionOf(e) == FloorTo(e.ts, Session)
IntervalOf(e) == FloorTo(e.ts, TpoInterval)
BinOf(e) == e.price \div PriceBin
Moments(e) == [qty |-> e.qty, pq |-> e.price * e.qty, p2q |-> e.price * e.price * e.qty]

\* The trades of ps since a trade of a session other than s
Stretch(l, ps, s) == {p \in ps : \A q \in ps : p <= q => SessionOf(l[q]) = s}

\* Trade p comes to its bin anew: since the bin last traded, if it did, there
\* was a trade of another interval.
Opens(l, ps, p) ==
  \A q \in ps : q < p /\ BinOf(l[q]) = BinOf(l[p]) =>
    \E r \in ps : q <= r /\ r < p /\ IntervalOf(l[r]) # IntervalOf(l[p])

\* The profile of a set of trades
BinsOf(l, ps) == {BinOf(l[p]) : p \in ps}
InBin(l, ps, b) == {p \in ps : BinOf(l[p]) = b}
Openings(l, ps, b) == {p \in InBin(l, ps, b) : Opens(l, ps, p)}
IntervalsOf(l, ps, b) == {IntervalOf(l[p]) : p \in InBin(l, ps, b)}
CountsOf(l, ps) == [b \in BinsOf(l, ps) |-> Cardinality(Openings(l, ps, b))]
BinVolume(l, ps, b) == Total([p \in InBin(l, ps, b) |-> l[p].qty])
VolumeOf(l, ps) == [b \in BinsOf(l, ps) |-> BinVolume(l, ps, b)]
SumOf(l, ps, k) == Total([p \in ps |-> Moments(l[p])[k]])

(***************************************************************************)
(* The value area is a range of bins around the point of control that      *)
(* holds the target share of the time-price opportunities, and not without *)
(* either end of its own: each end was taken while the range was short of  *)
(* the target and the next bin on the other side was no better (for the    *)
(* upper end, no fuller; for the lower end, emptier).                      *)
(* (value_area, documented as "70% value area high/low")                   *)
(***************************************************************************)
ValueAreaIsTight ==
  sessionTrades > 0 =>
    LET area == ValueArea(tpoCounts)
        poc == ArgMax(tpoCounts)
        short(l, h) == Held(tpoCounts, [low |-> l, high |-> h]) < TargetTpos(tpoCounts)
        beyond(h) == {b \in DOMAIN tpoCounts : b > h}
        before(l) == {b \in DOMAIN tpoCounts : b < l}
    IN /\ area.low <= poc /\ poc <= area.high
       /\ {area.low, area.high} \subseteq DOMAIN tpoCounts
       /\ ~short(area.low, area.high)
       /\ area.low < poc => \E h \in Within(tpoCounts, poc, area.high) :
            /\ short(area.low + 1, h)
            /\ \A b \in beyond(h) :
                 b = Min(beyond(h)) => tpoCounts[b] < tpoCounts[area.low]
       /\ area.high > poc => \E l \in Within(tpoCounts, area.low, poc) :
            /\ short(l, area.high - 1)
            /\ \A b \in before(l) :
                 b = Max(before(l)) => tpoCounts[b] <= tpoCounts[area.high]

(***************************************************************************)
(* The profile is that of the trades since the session last changed, in    *)
(* either direction: a late trade of the session before rolls the engine   *)
(* back.  A bin counts when it trades anew in an interval, volume and all  *)
(* three sums are those of these trades, and the carried point of control  *)
(* is the one of the stretch before, naked until a trade of its bin since. *)
(* While events come in order, these trades are the whole session's, and a *)
(* bin counts exactly once for each interval in which it traded.           *)
(* (observe_trade, roll_session, observe_tpo, mark_npoc_touch)             *)
(***************************************************************************)
ProfileIsTheSession ==
  Trades(log) # {} =>
    LET now == SessionOf(log[Max(Trades(log))])
        current == Stretch(log, Trades(log), now)
        earlier == Trades(log) \ current
    IN /\ session = now
       /\ sessionTrades = Cardinality(current)
       /\ tpoCounts = CountsOf(log, current)
       /\ volume = VolumeOf(log, current)
       /\ \A k \in DOMAIN NoSums : sums[k] = SumOf(log, current, k)
       /\ IF earlier = {} THEN npoc = {}
          ELSE LET last == SessionOf(log[Max(earlier)])
                   poc == ArgMax(CountsOf(log, Stretch(log, earlier, last)))
               IN npoc = {[session |-> last, bin |-> poc,
                           touched |-> poc \in BinsOf(log, current)]}
       /\ InOrder(log) =>
            /\ current = {p \in Trades(log) : SessionOf(log[p]) = now}
            /\ \A b \in DOMAIN tpoCounts :
                 tpoCounts[b] = Cardinality(IntervalsOf(log, current, b))
=============================================================================
