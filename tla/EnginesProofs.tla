--------------------------- MODULE EnginesProofs ---------------------------
(***************************************************************************)
(* What the signal engines promise, for every feed, every jitter and every *)
(* setting of the engines: no theorem here bounds the length of a history  *)
(* or the number of its events.  The invariants relate an engine's state   *)
(* to the log; the log itself only grows.                                  *)
(***************************************************************************)
EXTENDS Engines, Lemmas

-----------------------------------------------------------------------------
(***************************************************************************)
(* The log                                                                 *)
(***************************************************************************)
\* No event is older than one before it by more than the jitter.
LogInv ==
  /\ feed \in Feeds
  /\ log \in Seq(MarketEvent)
  /\ \A p, q \in DOMAIN log : p < q => log[p].ts <= log[q].ts + Jitter

\* What a step does to the log: e takes position n.
Takes(e, n) ==
  /\ e \in MarketEvent
  /\ n \in Nat /\ n = Len(log')
  /\ DOMAIN log' = DOMAIN log \cup {n}
  /\ log'[n] = e
  /\ \A p \in DOMAIN log : p \in Nat /\ p < n /\ log'[p] = log[p]

\* Every event has a time, and the positions of a log are a finite set.
LEMMA EventType ==
  /\ \A e \in MarketEvent : e.ts \in Nat
  /\ \A e \in MarketEvent : e.kind = "greek" => e \in OptionGreek
  /\ \A e \in MarketEvent : e.kind = "trade" => e \in Trade
  /\ \A e \in MarketEvent : e.kind = "ticker" => e \in Ticker
  /\ \A e \in MarketEvent : e.kind = "delta" => e \in DepthDelta
  /\ \A e \in MarketEvent : e.kind = "snapshot" => e \in OrderBookSnapshot
  BY DEF MarketEvent, Trade, DepthDelta, OrderBookSnapshot, Ticker, Kline, OptionGreek

\* A log has positions that are numbers, with a greatest one in every set of them.
LEMMA Positions ==
  ASSUME NEW l, l \in Seq(MarketEvent)
  PROVE  /\ DOMAIN l \subseteq Nat /\ IsFiniteSet(DOMAIN l)
         /\ \A p \in DOMAIN l : l[p] \in MarketEvent
         /\ \A T \in SUBSET DOMAIN l :
              IsFiniteSet(T) /\ (T # {} => Max(T) \in T /\ \A p \in T : p <= Max(T))
<1>1. DOMAIN l = 1 .. Len(l) /\ Len(l) \in Nat
  OBVIOUS
<1>2. IsFiniteSet(DOMAIN l)
  BY <1>1, FS_Interval
<1>3. ASSUME NEW T \in SUBSET DOMAIN l
      PROVE  IsFiniteSet(T) /\ (T # {} => Max(T) \in T /\ \A p \in T : p <= Max(T))
  <2>1. IsFiniteSet(T) /\ T \subseteq Int
    BY <1>1, <1>2, FS_Subset
  <2> QED BY <2>1, GreatestElement
<1> QED BY <1>1, <1>2, <1>3

\* Newest bounds the times of a log.
LEMMA NewestBounds ==
  ASSUME NEW l, l \in Seq(MarketEvent)
  PROVE  \A p \in DOMAIN l : l[p].ts \in Nat /\ l[p].ts <= Newest(l) /\ Newest(l) \in Nat
<1> DEFINE f == [p \in DOMAIN l |-> l[p].ts]
           T == {f[p] : p \in DOMAIN l}
<1>1. \A p \in DOMAIN l : f[p] \in Nat /\ f[p] = l[p].ts
  BY Positions, EventType
<1>2. IsFiniteSet(T)
  <2> HIDE DEF f
  <2> QED BY Positions, FiniteImage
<1>3. T = {l[p].ts : p \in DOMAIN l} /\ T \subseteq Nat /\ T \subseteq Int
  BY <1>1
<1>4. ASSUME NEW p \in DOMAIN l PROVE l[p].ts <= Newest(l) /\ Newest(l) \in Nat
  <2>1. l[p].ts \in T /\ l # <<>>
    BY <1>3
  <2>2. Max(T) \in T /\ \A y \in T : y <= Max(T)
    <3> HIDE DEF T
    <3> QED BY <1>2, <1>3, <2>1, GreatestElement
  <2> QED BY <1>3, <2>1, <2>2 DEF Newest
<1> QED BY <1>1, <1>4

\* The log starts empty.
LEMMA LogStart == Init => LogInv
<1>1. <<>> \in Seq(MarketEvent) /\ DOMAIN <<>> = {}
  OBVIOUS
<1> QED BY <1>1 DEF Init, LogInv

\* An event that arrives takes the next position.
LEMMA LogStep ==
  ASSUME LogInv, NEW e \in feed.events, Arrives(e)
  PROVE  LogInv' /\ \E n : Takes(e, n)
<1>1. e \in MarketEvent
  BY FeedAssumption DEF LogInv
<1>2. log' = Append(log, e) /\ log \in Seq(MarketEvent) /\ feed' = feed /\ feed \in Feeds
  BY DEF Arrives, LogInv
<1>3. PICK n : n = Len(log')
  OBVIOUS
<1>4. Takes(e, n)
  BY <1>1, <1>2, <1>3 DEF Takes
<1>5. log' \in Seq(MarketEvent)
  BY <1>1, <1>2
<1>6. \A p \in DOMAIN log : /\ log[p].ts \in Nat /\ log[p].ts <= Newest(log)
                            /\ Newest(log) \in Nat
  BY <1>2, NewestBounds
<1>7. e.ts \in Nat /\ e.ts + Jitter >= Newest(log)
  BY <1>1, EventType DEF Arrives
<1>8. \A p \in DOMAIN log : log[p].ts <= e.ts + Jitter
  <2> TAKE p \in DOMAIN log
  <2> DEFINE m == Newest(log)
  <2>1. log[p].ts <= m /\ e.ts + Jitter >= m /\ log[p].ts \in Nat /\ m \in Nat
    BY <1>6, <1>7
  <2> HIDE DEF m
  <2> QED BY <1>7, <2>1, JitterAssumption
<1>9. ASSUME NEW p \in DOMAIN log', NEW q \in DOMAIN log', p < q
      PROVE  log'[p].ts <= log'[q].ts + Jitter
  <2>1. p \in DOMAIN log \/ p = n
    BY <1>4 DEF Takes
  <2>2. q \in DOMAIN log \/ q = n
    BY <1>4 DEF Takes
  <2>3. n \in Nat /\ \A r \in DOMAIN log : r \in Nat /\ r < n
    BY <1>4 DEF Takes
  <2>4. p \in DOMAIN log
    BY <1>9, <2>1, <2>2, <2>3
  <2>5. CASE q \in DOMAIN log
    BY <1>4, <1>9, <2>4, <2>5 DEF Takes, LogInv
  <2>6. CASE q = n
    BY <1>4, <1>8, <2>4, <2>6 DEF Takes
  <2> QED BY <2>2, <2>5, <2>6
<1>10. LogInv'
  BY <1>2, <1>5, <1>9 DEF LogInv
<1> QED BY <1>4, <1>10

\* FloorTo rounds down to a multiple.
LEMMA FloorBounds ==
  ASSUME NEW n \in Nat, NEW b \in Nat \ {0}
  PROVE  /\ FloorTo(n, b) \in Nat /\ FloorTo(n, b) <= n /\ n < FloorTo(n, b) + b
         /\ \E i \in Nat : FloorTo(n, b) = b * i
<1>1. PICK i \in Nat, r \in 0 .. b - 1 : i = n \div b /\ r = n % b
  OBVIOUS
<1>2. n = b * i + r
  BY <1>1
<1>3. FloorTo(n, b) = b * i
  BY <1>1, <1>2 DEF FloorTo
<1>4. b * i \in Nat
  OBVIOUS
<1> QED BY <1>2, <1>3, <1>4

\* Two numbers in order and not a multiple between them are rounded alike.
LEMMA FloorSame ==
  ASSUME NEW n \in Nat, NEW m \in Nat, NEW b \in Nat \ {0}, n <= m, FloorTo(m, b) <= n
  PROVE  FloorTo(n, b) = FloorTo(m, b)
<1>1. PICK i \in Nat : FloorTo(n, b) = b * i
  BY FloorBounds
<1>2. PICK j \in Nat : FloorTo(m, b) = b * j
  BY FloorBounds
<1>3. n < b * i + b /\ b * i <= n /\ m < b * j + b /\ b * j <= n
  BY <1>1, <1>2, FloorBounds
<1>4. \A k, l \in Nat : k < l => b * k + b <= b * l
  <2> TAKE k, l \in Nat
  <2> HAVE k < l
  <2>1. PICK d \in Nat : l = k + 1 + d
    <3>1. l - k - 1 \in Nat /\ l = k + 1 + (l - k - 1)
      OBVIOUS
    <3> QED BY <3>1
  <2>2. b * l = b * k + b + b * d
    BY <2>1
  <2>3. b * d \in Nat /\ b * k \in Nat
    OBVIOUS
  <2> QED BY <2>2, <2>3
<1>5. b * i \in Nat /\ b * j \in Nat
  OBVIOUS
<1>6. ~(i < j) /\ ~(j < i)
  <2>1. i < j => b * i + b <= b * j
    BY <1>4
  <2>2. j < i => b * j + b <= b * i
    BY <1>4
  <2>3. PICK x \in Nat : x = b * i
    BY <1>5
  <2>4. PICK y \in Nat : y = b * j
    BY <1>5
  <2> QED BY <1>3, <2>1, <2>2, <2>3, <2>4
<1> QED BY <1>1, <1>2, <1>6

-----------------------------------------------------------------------------
(***************************************************************************)
(* The gamma exposure engine                                               *)
(***************************************************************************)
Keys(l) == {OptionKey(l[p]) : p \in Greeks(l)}

\* The last greeks of an option, and the last spot price, at a position
LastGreeks(l, p) ==
  /\ p \in Greeks(l)
  /\ \A q \in Greeks(l) : OptionKey(l[q]) = OptionKey(l[p]) => q <= p
LastSpot(l, p) == p \in Spots(l) /\ \A q \in Spots(l) : q <= p

\* The engine's state as a function of the log
GexInv ==
  /\ options = [k \in DOMAIN options |-> options[k]]
  /\ DOMAIN options = Keys(log)
  /\ \A p : LastGreeks(log, p) => options[OptionKey(log[p])] = log[p]
  /\ Spots(log) = {} => spot = {}
  /\ \A p : LastSpot(log, p) => spot = {SpotOf(log[p])}
  /\ lastSeen = {} \/ \E t \in Nat : lastSeen = {t}

\* Before the first event there are no greeks.
LEMMA GexStart == Init => GexInv
<1>1. DOMAIN <<>> = {}
  OBVIOUS
<1>2. NoEntries = [k \in DOMAIN NoEntries |-> NoEntries[k]] /\ DOMAIN NoEntries = {}
  BY DEF NoEntries
<1> SUFFICES ASSUME Init PROVE GexInv
  OBVIOUS
<1>3. log = <<>> /\ options = NoEntries /\ spot = {} /\ lastSeen = {}
  BY DEF Init, GexInit
<1>4. Greeks(log) = {} /\ Spots(log) = {} /\ Keys(log) = {}
  BY <1>1, <1>3 DEF Greeks, Spots, Keys
<1> QED BY <1>2, <1>3, <1>4 DEF GexInv, LastGreeks, LastSpot

\* What a new event adds to the greeks and to the spot prices
LEMMA GexLogStep ==
  ASSUME NEW e, NEW n, Takes(e, n)
  PROVE  /\ e.kind = "greek" => Greeks(log') = Greeks(log) \cup {n}
         /\ e.kind # "greek" => Greeks(log') = Greeks(log)
         /\ e.kind \in {"ticker", "trade"} => Spots(log') = Spots(log) \cup {n}
         /\ e.kind \notin {"ticker", "trade"} => Spots(log') = Spots(log)
         /\ \A p \in Greeks(log) \cup Spots(log) :
              p \in Nat /\ p < n /\ log'[p] = log[p]
         /\ n \in Nat /\ log'[n] = e
  BY DEF Takes, Greeks, Spots

\* Every event keeps the greeks and the spot those of the log.
LEMMA GexStep ==
  ASSUME LogInv, GexInv, NEW e \in feed.events, NEW n, Takes(e, n), GexReceives(e)
  PROVE  GexInv'
<1>0. e \in MarketEvent /\ e.ts \in Nat
  BY EventType DEF Takes
<1>1. CASE e.kind = "greek"
  <2>1. ObserveOption(e)
    BY <1>1 DEF GexReceives
  <2> DEFINE k == OptionKey(e)
  <2>2. /\ options' = [j \in DOMAIN options \cup {k} |-> IF j = k THEN e ELSE options[j]]
        /\ lastSeen' = {e.ts} /\ spot' = spot
    BY <2>1 DEF ObserveOption, Put
  <2>3. /\ Greeks(log') = Greeks(log) \cup {n} /\ Spots(log') = Spots(log)
        /\ \A p \in Greeks(log) \cup Spots(log) : p \in Nat /\ p < n /\ log'[p] = log[p]
        /\ n \in Nat /\ log'[n] = e
    <3>1. e.kind \notin {"ticker", "trade"}
      BY <1>1
    <3> QED BY <1>1, <3>1, GexLogStep
  <2>4. Keys(log') = Keys(log) \cup {k}
    BY <2>3 DEF Keys
  <2>5. ASSUME NEW p, LastGreeks(log', p) PROVE options'[OptionKey(log'[p])] = log'[p]
    <3>1. CASE p = n
      BY <2>2, <2>3, <3>1
    <3>2. CASE p # n
      <4>1. p \in Greeks(log)
        BY <2>3, <2>5, <3>2 DEF LastGreeks
      <4>2. OptionKey(log'[p]) # k
        BY <2>3, <2>5, <4>1 DEF LastGreeks
      <4>3. log'[p] = log[p]
        BY <2>3, <4>1
      <4>4. LastGreeks(log, p)
        BY <2>3, <2>5, <4>1 DEF LastGreeks
      <4>5. options[OptionKey(log[p])] = log[p] /\ OptionKey(log[p]) \in DOMAIN options
        BY <4>1, <4>4 DEF GexInv, Keys
      <4> HIDE DEF k
      <4> QED BY <2>2, <4>2, <4>3, <4>5
    <3> QED BY <3>1, <3>2
  <2>6. ASSUME NEW p, LastSpot(log', p) PROVE spot' = {SpotOf(log'[p])}
    BY <2>2, <2>3, <2>6 DEF LastSpot, GexInv
  <2>7. DOMAIN options' = Keys(log')
    BY <2>2, <2>4 DEF GexInv
  <2>8. options' = [j \in DOMAIN options' |-> options'[j]]
    BY <2>2
  <2>9. Spots(log') = {} => spot' = {}
    BY <2>2, <2>3 DEF GexInv
  <2> QED BY <1>0, <2>2, <2>5, <2>6, <2>7, <2>8, <2>9 DEF GexInv
<1>2. CASE e.kind \in {"ticker", "trade"}
  <2>1. ObserveSpot(e, SpotOf(e))
    BY <1>2 DEF GexReceives, SpotOf
  <2>2. spot' = {SpotOf(e)} /\ lastSeen' = {e.ts} /\ options' = options
    BY <2>1 DEF ObserveSpot
  <2>3. /\ Greeks(log') = Greeks(log) /\ Spots(log') = Spots(log) \cup {n}
        /\ \A p \in Greeks(log) \cup Spots(log) : p \in Nat /\ p < n /\ log'[p] = log[p]
        /\ n \in Nat /\ log'[n] = e
    <3>1. e.kind # "greek"
      BY <1>2
    <3> QED BY <1>2, <3>1, GexLogStep
  <2>4. Keys(log') = Keys(log)
    BY <2>3 DEF Keys
  <2>5. ASSUME NEW p, LastGreeks(log', p) PROVE options'[OptionKey(log'[p])] = log'[p]
    <3>1. LastGreeks(log, p) /\ log'[p] = log[p]
      BY <2>3, <2>5 DEF LastGreeks
    <3> QED BY <2>2, <3>1 DEF GexInv
  <2>6. ASSUME NEW p, LastSpot(log', p) PROVE spot' = {SpotOf(log'[p])}
    <3>1. p = n
      BY <2>3, <2>6 DEF LastSpot
    <3> QED BY <2>2, <2>3, <3>1
  <2> QED BY <1>0, <2>2, <2>3, <2>4, <2>5, <2>6 DEF GexInv
<1>3. CASE e.kind \notin {"greek", "ticker", "trade"}
  <2>1. UNCHANGED gexVars
    BY <1>3 DEF GexReceives
  <2>2. spot' = spot /\ lastSeen' = lastSeen /\ options' = options
    BY <2>1 DEF gexVars
  <2>3. /\ Greeks(log') = Greeks(log) /\ Spots(log') = Spots(log)
        /\ \A p \in Greeks(log) \cup Spots(log) : log'[p] = log[p]
    BY <1>3, GexLogStep
  <2>4. Keys(log') = Keys(log)
    BY <2>3 DEF Keys
  <2>5. ASSUME NEW p, LastGreeks(log', p) PROVE options'[OptionKey(log'[p])] = log'[p]
    BY <2>2, <2>3, <2>5 DEF LastGreeks, GexInv
  <2>6. ASSUME NEW p, LastSpot(log', p) PROVE spot' = {SpotOf(log'[p])}
    BY <2>2, <2>3, <2>6 DEF LastSpot, GexInv
  <2> QED BY <2>2, <2>3, <2>4, <2>5, <2>6 DEF GexInv
<1> QED BY <1>1, <1>2, <1>3

\* Every option has last greeks, and a spot price among others is the last.
LEMMA LastExist ==
  ASSUME LogInv
  PROVE  /\ \A k \in Keys(log) :
              LET T == {p \in Greeks(log) : OptionKey(log[p]) = k}
              IN Max(T) \in T /\ LastGreeks(log, Max(T))
         /\ Spots(log) # {} => LastSpot(log, Max(Spots(log)))
<1>1. /\ Greeks(log) \in SUBSET DOMAIN log /\ Spots(log) \in SUBSET DOMAIN log
      /\ \A T \in SUBSET DOMAIN log : T # {} => Max(T) \in T /\ \A p \in T : p <= Max(T)
  BY Positions DEF LogInv, Greeks, Spots
<1>2. ASSUME NEW k \in Keys(log)
      PROVE  LET T == {p \in Greeks(log) : OptionKey(log[p]) = k}
             IN Max(T) \in T /\ LastGreeks(log, Max(T))
  <2> DEFINE T == {p \in Greeks(log) : OptionKey(log[p]) = k}
  <2>1. T \in SUBSET DOMAIN log /\ T # {}
    BY <1>1 DEF Keys
  <2>2. PICK m : m = Max(T)
    OBVIOUS
  <2>3. m \in T /\ \A p \in T : p <= m
    <3> HIDE DEF T
    <3> QED BY <1>1, <2>1, <2>2
  <2>4. LastGreeks(log, m)
    BY <2>3 DEF LastGreeks
  <2> QED BY <2>2, <2>3, <2>4
<1>3. Spots(log) # {} => LastSpot(log, Max(Spots(log)))
  BY <1>1 DEF LastSpot
<1> QED BY <1>2, <1>3

\* The state is well formed and finite.
LEMMA GexTypes ==
  ASSUME LogInv, GexInv
  PROVE  /\ GexTypeOK
         /\ IsFiniteSet(DOMAIN options)
         /\ \A k \in DOMAIN options : k.strike \in Nat /\ k.expiry \in Nat
         /\ spot = {} \/ \E price \in Nat : spot = {price}
<1>1. \A p \in Greeks(log) : log[p] \in OptionGreek
  BY Positions, EventType DEF LogInv, Greeks
<1>2. \A p \in Spots(log) : SpotOf(log[p]) \in Nat
  <2>1. \A p \in Spots(log) : log[p] \in Ticker \/ (log[p] \in Trade /\ log[p].kind = "trade")
    BY Positions, EventType DEF LogInv, Spots
  <2> QED BY <2>1 DEF Ticker, Trade, SpotOf
<1>3. \A k \in DOMAIN options : \E p \in Greeks(log) : options[k] = log[p] /\ OptionKey(log[p]) = k
  <2> TAKE k \in DOMAIN options
  <2>1. k \in Keys(log)
    BY DEF GexInv
  <2>2. PICK p : p \in Greeks(log) /\ OptionKey(log[p]) = k /\ LastGreeks(log, p)
    BY <2>1, LastExist
  <2> QED BY <2>2 DEF GexInv
<1>4. \A k \in DOMAIN options : /\ options[k] \in OptionGreek /\ OptionKey(options[k]) = k
                               /\ k.strike \in Nat /\ k.expiry \in Nat
  BY <1>1, <1>3 DEF OptionGreek, OptionKey
<1>5. spot = {} \/ \E price \in Nat : spot = {price}
  BY <1>2, LastExist DEF GexInv, LastSpot
<1>6. IsFiniteSet(DOMAIN options)
  <2> DEFINE g == [p \in Greeks(log) |-> OptionKey(log[p])]
             K == {g[p] : p \in Greeks(log)}
  <2>1. IsFiniteSet(Greeks(log))
    BY Positions DEF LogInv, Greeks
  <2>2. IsFiniteSet(K)
    <3> HIDE DEF g
    <3> QED BY <2>1, FiniteImage
  <2>3. DOMAIN options = K
    BY DEF GexInv, Keys
  <2> QED BY <2>2, <2>3
<1>7. Cardinality(spot) <= 1 /\ Cardinality(lastSeen) <= 1
  <2>1. lastSeen = {} \/ \E t : lastSeen = {t}
    BY DEF GexInv
  <2> QED BY <1>5, <2>1, AtMostOne
<1>8. GexTypeOK
  BY <1>4, <1>5, <1>7 DEF GexTypeOK, GexInv
<1> QED BY <1>4, <1>5, <1>6, <1>8

\* The exposure is that of the last greeks whenever the state follows the log.
LEMMA ExposureFollows == LogInv /\ GexInv => ExposureIsOfTheLastGreeks
<1> SUFFICES ASSUME LogInv, GexInv PROVE ExposureIsOfTheLastGreeks
  OBVIOUS
<1> DEFINE last(k) == Max({p \in Greeks(log) : OptionKey(log[p]) = k})
           keys == {OptionKey(log[p]) : p \in Greeks(log)}
           price == SpotOf(log[Max(Spots(log))])
<1>1. keys = DOMAIN options /\ keys = Keys(log)
  BY DEF GexInv, Keys
<1>2. CASE Spots(log) = {}
  BY <1>2 DEF ExposureIsOfTheLastGreeks, Levels, GexInv
<1>3. CASE Spots(log) # {}
  <2>1. spot = {price}
    BY <1>3, LastExist DEF GexInv
  <2>2. ASSUME NEW k \in keys PROVE options[k] = log[last(k)]
    <3>1. OptionKey(log[last(k)]) = k /\ LastGreeks(log, last(k))
      BY <1>1, LastExist
    <3> QED BY <3>1 DEF GexInv
  <2>3. Levels = {[strike |-> k.strike, expiry |-> k.expiry] : k \in keys}
    BY <1>1, <2>1 DEF Levels
  <2>4. ASSUME NEW level \in Levels
        PROVE  LevelGex(level) = Total([k \in OfLevel(keys, level) |-> Exposure(log[last(k)], price)])
    <3> DEFINE S == OfLevel(keys, level)
    <3> HIDE DEF last, price, keys
    <3>1. (CHOOSE p \in spot : TRUE) = price
      BY <2>1
    <3>2. \A k \in S : Exposure(options[k], price) = Exposure(log[last(k)], price)
      BY <2>2 DEF OfLevel
    <3>3. [k \in S |-> Exposure(options[k], price)] = [k \in S |-> Exposure(log[last(k)], price)]
      <4> HIDE DEF S
      <4> QED BY <3>2
    <3>4. LevelGex(level) = Total([k \in S |-> Exposure(options[k], price)])
      BY <1>1, <3>1 DEF LevelGex
    <3> QED BY <3>3, <3>4
  <2> QED BY <1>3, <2>3, <2>4 DEF ExposureIsOfTheLastGreeks
<1> QED BY <1>2, <1>3

\* What is fresh by the options is fresh by the log, up to the jitter.
LEMMA FreshFollows == LogInv /\ GexInv => FreshMeansRecentGreeks
<1> SUFFICES ASSUME LogInv, GexInv, lastSeen # {} PROVE
      LET now == CHOOSE t \in lastSeen : TRUE
      IN /\ ~GexStale => \E p \in Greeks(log) : now - log[p].ts <= GexStaleAfter
         /\ GexStale => \A p \in Greeks(log) : now - log[p].ts > GexStaleAfter - Jitter
  BY DEF FreshMeansRecentGreeks
<1>1. PICK now \in Nat : lastSeen = {now}
  BY DEF GexInv
<1>2. (CHOOSE t \in lastSeen : TRUE) = now
  BY <1>1
<1>3. \A k \in DOMAIN options : \E p \in Greeks(log) : options[k] = log[p]
  <2> TAKE k \in DOMAIN options
  <2>1. k \in Keys(log)
    BY DEF GexInv
  <2>2. PICK p : p \in Greeks(log) /\ OptionKey(log[p]) = k /\ LastGreeks(log, p)
    BY <2>1, LastExist
  <2> QED BY <2>2 DEF GexInv
<1>4. \A p \in Greeks(log) : \E k \in DOMAIN options : log[p].ts <= options[k].ts + Jitter
  <2> TAKE p \in Greeks(log)
  <2>1. OptionKey(log[p]) \in Keys(log) /\ OptionKey(log[p]) \in DOMAIN options
    BY DEF GexInv, Keys
  <2>2. PICK q : /\ q \in Greeks(log) /\ OptionKey(log[q]) = OptionKey(log[p])
                 /\ LastGreeks(log, q)
    BY <2>1, LastExist
  <2>3. p \in DOMAIN log /\ q \in DOMAIN log /\ p <= q
    BY <2>2 DEF LastGreeks, Greeks
  <2>4. p \in Nat /\ q \in Nat /\ log[p].ts \in Nat /\ log[q].ts \in Nat
    BY <2>3, Positions, EventType DEF LogInv
  <2>5. log[p].ts <= log[q].ts + Jitter
    <3>1. CASE p = q
      BY <2>4, <3>1, JitterAssumption
    <3>2. CASE p < q
      BY <2>3, <3>2 DEF LogInv
    <3> QED BY <2>3, <2>4, <3>1, <3>2
  <2> QED BY <2>1, <2>2, <2>5 DEF GexInv
<1>5. \A p \in Greeks(log) : p \in DOMAIN log /\ log[p].ts \in Nat
  BY Positions, EventType DEF LogInv, Greeks
<1> DEFINE f == [k \in DOMAIN options |-> options[k].ts]
           T == {f[k] : k \in DOMAIN options}
<1>6. IsFiniteSet(DOMAIN options)
  BY GexTypes
<1>7. IsFiniteSet(T)
  <2> HIDE DEF f
  <2> QED BY <1>6, FiniteImage
<1>8. T = {options[k].ts : k \in DOMAIN options} /\ T \subseteq Int
  BY <1>3, <1>5
<1>9. CASE DOMAIN options = {}
  <2>1. options = NoEntries
    BY <1>9 DEF GexInv, NoEntries
  <2>2. SnapshotAge = {} /\ GexStale
    BY <2>1 DEF SnapshotAge, GexStale
  <2>3. Greeks(log) = {}
    BY <1>4, <1>9
  <2> QED BY <2>2, <2>3
<1>10. CASE DOMAIN options # {}
  <2>1. options # NoEntries
    BY <1>10 DEF NoEntries
  <2>2. PICK m : m = Max(T)
    OBVIOUS
  <2>3. m \in T /\ \A y \in T : y <= m
    <3>1. T # {}
      BY <1>10
    <3> HIDE DEF T
    <3> QED BY <1>7, <1>8, <2>2, <3>1, GreatestElement
  <2>4. SnapshotAge = {now - m}
    BY <1>1, <1>2, <1>8, <2>1, <2>2 DEF SnapshotAge
  <2>5. GexStale <=> now - m > GexStaleAfter
    BY <2>4 DEF GexStale
  <2>6. m \in Nat /\ \E p \in Greeks(log) : log[p].ts = m
    BY <1>3, <1>5, <2>3
  <2>7. \A p \in Greeks(log) : log[p].ts <= m + Jitter
    <3> TAKE p \in Greeks(log)
    <3>1. PICK k \in DOMAIN options : log[p].ts <= options[k].ts + Jitter
      BY <1>4
    <3>2. options[k].ts \in Nat /\ options[k].ts <= m
      BY <1>3, <1>5, <2>3
    <3> QED BY <1>5, <2>6, <3>1, <3>2, JitterAssumption
  <2> QED BY <1>1, <1>2, <1>5, <2>5, <2>6, <2>7, JitterAssumption, GexAssumption
<1> QED BY <1>9, <1>10

-----------------------------------------------------------------------------
Level == [strike : Nat, expiry : Nat]

\* The levels are finitely many, in a strict order; their exposure is a number.
LEMMA LevelsType ==
  ASSUME LogInv, GexInv
  PROVE  /\ Levels \subseteq Level /\ IsFiniteSet(Levels)
         /\ \A l \in Levels : LevelGex(l) \in Int
<1>1. Levels \subseteq Level
  BY GexTypes DEF Levels, Level
<1>2. IsFiniteSet(Levels)
  <2> DEFINE g == [k \in DOMAIN options |-> [strike |-> k.strike, expiry |-> k.expiry]]
             L == {g[k] : k \in DOMAIN options}
  <2>1. IsFiniteSet(L)
    <3> HIDE DEF g
    <3> QED BY GexTypes, FiniteImage
  <2>2. Levels = {} \/ Levels = L
    BY DEF Levels
  <2> QED BY <2>1, <2>2, FS_EmptySet
<1>3. ASSUME NEW l \in Levels PROVE LevelGex(l) \in Int
  <2>1. PICK price \in Nat : spot = {price}
    BY GexTypes DEF Levels
  <2> DEFINE S == OfLevel(DOMAIN options, l)
             f == [k \in S |-> Exposure(options[k], price)]
  <2>2. \A k \in S : Exposure(options[k], price) \in Int
    <3> TAKE k \in S
    <3>1. options[k] \in OptionGreek
      BY GexTypes DEF GexTypeOK, OfLevel
    <3>2. options[k].gamma \in Nat
      BY <3>1 DEF OptionGreek
    <3>3. PICK sign \in Int : sign = IF options[k].type = "Call" THEN CallSign ELSE PutSign
      BY GexAssumption
    <3>4. PICK square \in Int : square = options[k].gamma * price * price
      BY <3>2
    <3>5. square * sign \in Int
      OBVIOUS
    <3> QED BY <3>3, <3>4, <3>5 DEF Exposure
  <2>3. IsFiniteSet(S)
    BY GexTypes, FS_Subset DEF OfLevel
  <2>4. LevelGex(l) = Total(f)
    BY <2>1 DEF LevelGex
  <2>5. Total(f) \in Int
    <3>1. DOMAIN f = S /\ \A k \in S : f[k] \in Int
      BY <2>2
    <3> HIDE DEF f, S
    <3> QED BY <2>3, <3>1, TotalRemove
  <2> QED BY <2>4, <2>5
<1> QED BY <1>1, <1>2, <1>3

\* The running sum at a level is that at the level before, and its own.
LEMMA CumulativeStep ==
  ASSUME LogInv, GexInv, NEW l \in Levels, NEW m \in Levels, Neighbours(l, m)
  PROVE  Cumulative(m) = LevelGex(m) + Cumulative(l)
<1>1. \A k \in Levels : k \in Level
  BY LevelsType
<1>2. \A k \in Levels : /\ k.strike \in Nat /\ k.expiry \in Nat
                        /\ \A j \in Levels : j = k <=> j.strike = k.strike /\ j.expiry = k.expiry
  BY <1>1 DEF Level
<1>3. ASSUME NEW k \in Levels
      PROVE  (k = m \/ Before(k, m)) <=> (k = m \/ k = l \/ Before(k, l))
  BY <1>2 DEF Neighbours, Before
<1>4. UpTo(m) = UpTo(l) \cup {m}
  BY <1>3 DEF UpTo
<1>5. m \notin UpTo(l)
  BY <1>2 DEF UpTo, Neighbours, Before
<1>6. IsFiniteSet(UpTo(l)) /\ UpTo(m) \subseteq Levels
  BY LevelsType, FS_Subset DEF UpTo
<1> DEFINE e == [k \in Levels |-> LevelGex(k)]
           S == UpTo(l)
<1>7. \A k \in S \cup {m} : e[k] \in Int /\ e[k] = LevelGex(k)
  BY <1>4, <1>6, LevelsType
<1>8. [k \in UpTo(m) |-> LevelGex(k)] = [k \in S \cup {m} |-> e[k]]
  BY <1>4, <1>6
<1>9. [k \in UpTo(l) |-> LevelGex(k)] = [k \in S |-> e[k]]
  BY <1>7
<1>10. e[m] = LevelGex(m)
  OBVIOUS
<1> HIDE DEF e, S
<1>11. IsFiniteSet(S) /\ m \notin S
  BY <1>5, <1>6 DEF S
<1>12. Total([k \in S \cup {m} |-> e[k]]) = e[m] + Total([k \in S |-> e[k]])
  BY <1>7, <1>11, TotalWith
<1> QED BY <1>8, <1>9, <1>10, <1>12 DEF Cumulative

\* A running sum of levels of one sign has that sign.
LEMMA CumulativeSign ==
  ASSUME LogInv, GexInv, NEW l \in Levels
  PROVE  /\ Cumulative(l) \in Int
         /\ (\A k \in UpTo(l) : LevelGex(k) > 0) => Cumulative(l) >= 0
         /\ (\A k \in UpTo(l) : LevelGex(k) < 0) => Cumulative(l) < 0
<1> DEFINE e == [k \in Levels |-> LevelGex(k)]
           S == UpTo(l)
<1>1. IsFiniteSet(S) /\ S \subseteq Levels /\ S # {}
  BY LevelsType, FS_Subset DEF UpTo
<1>2. \A k \in S : e[k] \in Int /\ e[k] = LevelGex(k)
  BY <1>1, LevelsType
<1>3. Cumulative(l) = Total([k \in S |-> e[k]])
  <2>1. [k \in UpTo(l) |-> LevelGex(k)] = [k \in S |-> e[k]]
    BY <1>2
  <2> QED BY <2>1 DEF Cumulative
<1> HIDE DEF e, S
<1>4. Total([k \in S |-> e[k]]) \in Int
  BY <1>1, <1>2, TotalType
<1>5. (\A k \in S : e[k] \in Nat) => Total([k \in S |-> e[k]]) \in Nat
  BY <1>1, TotalNotNegative
<1>6. (\A k \in S : e[k] \in Int /\ e[k] < 0) => Total([k \in S |-> e[k]]) < 0
  BY <1>1, TotalNegative
<1>7. (\A k \in S : LevelGex(k) > 0) => \A k \in S : e[k] \in Nat
  BY <1>2
<1>8. (\A k \in S : LevelGex(k) < 0) => \A k \in S : e[k] \in Int /\ e[k] < 0
  BY <1>2
<1> QED BY <1>3, <1>4, <1>5, <1>6, <1>7, <1>8 DEF S

\* The flip has both signs at and below it.
LEMMA FlipFollows == LogInv /\ GexInv => FlipNeedsBothSigns
<1> SUFFICES ASSUME LogInv, GexInv, NEW pair \in GammaFlip,
                    \A k \in UpTo(pair[1]) : LevelGex(k) # 0
             PROVE  LET below == UpTo(pair[1])
                    IN \/ \E l \in below : LevelGex(l) > 0 /\ LevelGex(pair[2]) < 0
                       \/ \E l \in below : LevelGex(l) < 0 /\ LevelGex(pair[2]) > 0
  BY DEF FlipNeedsBothSigns
<1>1. PICK l \in Levels, m \in Levels : pair = <<l, m>>
  BY DEF GammaFlip, Flips
<1>2. Neighbours(l, m) /\ Signum(Cumulative(l)) # Signum(Cumulative(m))
  BY <1>1 DEF GammaFlip, Flips
<1>3. Cumulative(m) = LevelGex(m) + Cumulative(l)
  BY <1>2, CumulativeStep
<1>4. Cumulative(l) \in Int /\ LevelGex(m) \in Int
  BY CumulativeSign, LevelsType
<1>5. \A k \in UpTo(l) : LevelGex(k) \in Int /\ LevelGex(k) # 0
  BY <1>1, LevelsType DEF UpTo
<1>6. CASE LevelGex(m) < 0
  <2>1. SUFFICES ASSUME \A k \in UpTo(l) : ~(LevelGex(k) > 0) PROVE FALSE
    BY <1>1, <1>6
  <2>2. Cumulative(l) < 0
    BY <1>5, <2>1, CumulativeSign
  <2> QED BY <1>2, <1>3, <1>4, <1>6, <2>2 DEF Signum
<1>7. CASE LevelGex(m) > 0
  <2>1. SUFFICES ASSUME \A k \in UpTo(l) : ~(LevelGex(k) < 0) PROVE FALSE
    BY <1>1, <1>7
  <2>2. Cumulative(l) >= 0
    BY <1>5, <2>1, CumulativeSign
  <2> QED BY <1>2, <1>3, <1>4, <1>7, <2>2 DEF Signum
<1>8. LevelGex(m) # 0
  BY <1>2, <1>3, <1>4 DEF Signum
<1> QED BY <1>4, <1>6, <1>7, <1>8

-----------------------------------------------------------------------------
\* The state of the exposure engine follows the log in every behaviour.
LEMMA GexFollows == Spec => [](LogInv /\ GexInv)
<1>1. Init => LogInv /\ GexInv
  BY LogStart, GexStart
<1>2. LogInv /\ GexInv /\ [Next]_vars => (LogInv /\ GexInv)'
  <2> SUFFICES ASSUME LogInv, GexInv, [Next]_vars PROVE (LogInv /\ GexInv)'
    OBVIOUS
  <2>1. CASE UNCHANGED vars
    <3>1. feed' = feed /\ log' = log /\ spot' = spot /\ options' = options /\ lastSeen' = lastSeen
      BY <2>1 DEF vars, gexVars
    <3>2. LogInv'
      BY <3>1 DEF LogInv
    <3>3. GexInv'
      BY <3>1 DEF GexInv, Keys, LastGreeks, LastSpot, Greeks, Spots
    <3> QED BY <3>2, <3>3
  <2>2. CASE Next
    <3>1. PICK e \in feed.events : Receive(e)
      BY <2>2 DEF Next
    <3>2. LogInv' /\ \E n : Takes(e, n)
      BY <3>1, LogStep DEF Receive
    <3> QED BY <3>1, <3>2, GexStep DEF Receive
  <2> QED BY <2>1, <2>2
<1> QED BY <1>1, <1>2, PTL DEF Spec

(***************************************************************************)
(* The exposure of every strike and expiry is that of the last greeks of   *)
(* its options at the last spot price, in whatever order greeks and prices *)
(* come.  (gex.rs: observe_option, observe_spot, strike_stats)             *)
(***************************************************************************)
THEOREM ExposureIsCurrent == Spec => []ExposureIsOfTheLastGreeks
  BY GexFollows, ExposureFollows, PTL

(***************************************************************************)
(* The engine is stale exactly when no option is recent, up to the jitter, *)
(* and a gamma flip separates exposures of both signs unless a level below *)
(* has none.  (gex.rs: stats, gamma_flip)                                  *)
(***************************************************************************)
THEOREM FlagsAreTrue == Spec => []GexFlagsAreTrue
<1>1. LogInv /\ GexInv => GexFlagsAreTrue
  BY FreshFollows, FlipFollows DEF GexFlagsAreTrue
<1> QED BY <1>1, GexFollows, PTL


-----------------------------------------------------------------------------
(***************************************************************************)
(* Deques of trades                                                        *)
(***************************************************************************)
Jittered(l) ==
  /\ l \in Seq(MarketEvent)
  /\ \A p, q \in DOMAIN l : p < q => l[p].ts <= l[q].ts + Jitter

\* A deque holds the last trades; each that it lost was older than some trade
\* by more than the window.
DequeInv(l, deque, window) ==
  /\ deque \subseteq Trades(l)
  /\ \A p \in deque : \A q \in Trades(l) : p <= q => q \in deque
  /\ Trades(l) # {} => deque # {}
  /\ \A p \in Trades(l) \ deque : \E n \in Trades(l) : l[p].ts < l[n].ts - window

\* What a new event adds to the trades
LEMMA TradesStep ==
  ASSUME NEW e, NEW n, Takes(e, n)
  PROVE  /\ e.kind = "trade" => Trades(log') = Trades(log) \cup {n} /\ e \in Trade
         /\ e.kind # "trade" => Trades(log') = Trades(log)
         /\ \A p \in Trades(log) : p \in Nat /\ p < n /\ log'[p] = log[p]
         /\ n \in Nat /\ log'[n] = e
  BY EventType DEF Takes, Trades

\* The trades of a log have a greatest position.
LEMMA TradesType ==
  ASSUME NEW l, l \in Seq(MarketEvent)
  PROVE  /\ Trades(l) \in SUBSET DOMAIN l /\ IsFiniteSet(Trades(l))
         /\ \A p \in Trades(l) : p \in Nat /\ l[p] \in Trade /\ l[p].ts \in Nat
         /\ \A T \in SUBSET Trades(l) :
              IsFiniteSet(T) /\ (T # {} => Max(T) \in T /\ \A p \in T : p <= Max(T))
<1>1. Trades(l) \in SUBSET DOMAIN l
  BY DEF Trades
<1>2. \A T \in SUBSET Trades(l) : T \in SUBSET DOMAIN l
  BY <1>1
<1>3. \A p \in Trades(l) : l[p].kind = "trade"
  BY DEF Trades
<1> QED BY <1>1, <1>2, <1>3, Positions, EventType

\* A deque stays one when a trade comes and the old ones are dropped.
LEMMA DequeStep ==
  ASSUME NEW e, NEW n, Takes(e, n), log \in Seq(MarketEvent), e.kind = "trade",
         NEW window \in Nat, NEW deque, DequeInv(log, deque, window)
  PROVE  DequeInv(log', PopFront(log', deque \cup {n}, e.ts - window), window)
<1> DEFINE cutoff == e.ts - window
           new == PopFront(log', deque \cup {n}, cutoff)
<1>1. /\ Trades(log') = Trades(log) \cup {n} /\ n \in Nat /\ log'[n] = e
      /\ \A p \in Trades(log) : p \in Nat /\ p < n /\ log'[p] = log[p]
  BY TradesStep
<1>2. \A p : p \in new <=> /\ p \in deque \cup {n}
                           /\ \E q \in deque \cup {n} : q <= p /\ log'[q].ts >= cutoff
  BY DEF PopFront
<1>3. e.ts \in Nat /\ cutoff \in Int /\ e.ts >= cutoff
  BY EventType DEF Takes
<1>4. \A p \in Trades(log') : log'[p].ts \in Nat
  BY <1>1, <1>3, TradesType
<1> HIDE DEF new, cutoff
<1>5. deque \subseteq Trades(log) /\ new \subseteq Trades(log')
  BY <1>1, <1>2 DEF DequeInv
<1>6. n \in new
  BY <1>1, <1>2, <1>3
<1>7. ASSUME NEW p \in new, NEW q \in Trades(log'), p <= q PROVE q \in new
  <2>1. p \in deque \cup {n} /\ \E r \in deque \cup {n} : r <= p /\ log'[r].ts >= cutoff
    BY <1>2
  <2>2. PICK r \in deque \cup {n} : r <= p /\ log'[r].ts >= cutoff
    BY <2>1
  <2>3. p \in Nat /\ q \in Nat /\ r \in Nat
    BY <1>1, <1>5, <2>1
  <2>4. q \in deque \cup {n}
    <3>1. CASE q = n
      BY <3>1
    <3>2. CASE q # n
      <4>1. q \in Trades(log) /\ p # n
        BY <1>1, <1>7, <2>3, <3>2
      <4> QED BY <1>7, <2>1, <4>1 DEF DequeInv
    <3> QED BY <3>1, <3>2
  <2> QED BY <1>2, <1>7, <2>2, <2>3, <2>4
<1>8. ASSUME NEW p \in Trades(log') \ new
      PROVE  \E m \in Trades(log') : log'[p].ts < log'[m].ts - window
  <2>1. CASE p \in deque \cup {n}
    <3>1. ~(log'[p].ts >= cutoff)
      BY <1>1, <1>2, <2>1, <1>8
    <3>2. log'[p].ts < log'[n].ts - window
      BY <1>1, <1>3, <1>4, <3>1 DEF cutoff
    <3> QED BY <1>1, <3>2
  <2>2. CASE p \notin deque \cup {n}
    <3>1. p \in Trades(log) \ deque
      BY <1>1, <2>2
    <3>2. PICK m \in Trades(log) : log[p].ts < log[m].ts - window
      BY <3>1 DEF DequeInv
    <3> QED BY <1>1, <3>1, <3>2
  <2> QED BY <2>1, <2>2
<1> QED BY <1>5, <1>6, <1>7, <1>8 DEF DequeInv, new, cutoff

\* The trades a window of length w holds when trade n is the last one
WindowAt(l, n, w) == {p \in Trades(l) : p <= n /\ l[p].ts >= l[n].ts - w}

\* Short of the jitter, a deque has every trade of a window.
LEMMA DequeHasWindow ==
  ASSUME NEW l, Jittered(l), NEW window \in Nat, NEW deque, DequeInv(l, deque, window),
         NEW w \in Nat, w + Jitter <= window, Trades(l) # {}
  PROVE  /\ Max(deque) = Max(Trades(l)) /\ Max(deque) \in deque
         /\ Window(l, deque, w) = WindowAt(l, Max(Trades(l)), w)
<1>1. deque \in SUBSET Trades(l) /\ deque # {} /\ l \in Seq(MarketEvent)
  BY DEF DequeInv, Jittered
<1>2. PICK a : a = Max(deque)
  OBVIOUS
<1>3. PICK b : b = Max(Trades(l))
  OBVIOUS
<1>4. a \in deque /\ b \in Trades(l) /\ (\A p \in deque : p <= a) /\ (\A p \in Trades(l) : p <= b)
  BY <1>1, <1>2, <1>3, TradesType
<1>5. \A p \in Trades(l) : p \in Nat /\ l[p].ts \in Nat
  BY <1>1, TradesType
<1>6. a = b
  <2>1. a \in Trades(l) /\ a <= b
    BY <1>1, <1>4
  <2>2. b \in deque
    BY <1>4, <2>1 DEF DequeInv
  <2>3. b <= a
    BY <1>4, <2>2
  <2> QED BY <1>4, <1>5, <2>1, <2>3
<1>7. ASSUME NEW p \in Trades(l), l[p].ts >= l[b].ts - w PROVE p \in deque
  <2>1. SUFFICES ASSUME p \notin deque PROVE FALSE
    OBVIOUS
  <2>2. PICK n \in Trades(l) : l[p].ts < l[n].ts - window
    BY <2>1 DEF DequeInv
  <2>3. l[n].ts <= l[b].ts + Jitter
    <3>1. n <= b /\ n \in Nat /\ b \in Nat /\ n \in DOMAIN l /\ b \in DOMAIN l
      BY <1>1, <1>4, <1>5, TradesType
    <3>2. CASE n = b
      BY <1>4, <1>5, <3>2, JitterAssumption
    <3>3. CASE n < b
      BY <3>1, <3>3 DEF Jittered
    <3> QED BY <3>1, <3>2, <3>3
  <2> QED BY <1>4, <1>5, <1>7, <2>2, <2>3, JitterAssumption
<1>8. {p \in deque : l[p].ts >= l[a].ts - w} = WindowAt(l, b, w)
  BY <1>1, <1>4, <1>6, <1>7 DEF WindowAt
<1>9. Window(l, deque, w) = WindowAt(l, b, w)
  BY <1>2, <1>8, Zenon DEF Window
<1> QED BY <1>2, <1>3, <1>4, <1>6, <1>9, Zenon

-----------------------------------------------------------------------------
(***************************************************************************)
(* The order flow engine                                                   *)
(***************************************************************************)
\* tr lists the numbers of T in increasing order.
Enumerates(tr, T) ==
  /\ tr \in Seq(Nat)
  /\ \A i, j \in DOMAIN tr : i < j => tr[i] < tr[j]
  /\ T = {tr[i] : i \in DOMAIN tr}

\* The elements from position a to position b, as many as there are positions
Listed(tr, a, b) == {tr[i] : i \in a .. b}

\* An enumeration counts its elements.
LEMMA EnumeratedPart ==
  ASSUME NEW tr, NEW T, Enumerates(tr, T),
         NEW a \in Nat \ {0}, NEW b \in Nat, b <= Len(tr), a <= b + 1
  PROVE  Cardinality(Listed(tr, a, b)) = b - a + 1
<1> DEFINE f == [i \in a .. b |-> tr[i]]
           S == {tr[i] : i \in a .. b}
<1>1. \A i \in a .. b : i \in DOMAIN tr /\ tr[i] \in Nat /\ i \in Nat
  BY DEF Enumerates
<1>2. \A i, j \in a .. b : f[i] = f[j] => i = j
  <2> TAKE i, j \in a .. b
  <2> HAVE f[i] = f[j]
  <2>1. tr[i] = tr[j]
    OBVIOUS
  <2>2. ~(i < j) /\ ~(j < i)
    BY <1>1, <2>1 DEF Enumerates
  <2> QED BY <1>1, <2>2
<1>3. f \in [a .. b -> S] /\ \A t \in S : \E i \in a .. b : f[i] = t
  OBVIOUS
<1>4. ExistsBijection(a .. b, S)
  <2> HIDE DEF f, S
  <2>1. f \in Bijection(a .. b, S)
    BY <1>2, <1>3 DEF Bijection, Injection, Surjection, IsInjective
  <2> QED BY <2>1 DEF ExistsBijection
<1>5. IsFiniteSet(a .. b) /\ Cardinality(a .. b) = b - a + 1
  <2>1. a \in Int /\ b \in Int
    OBVIOUS
  <2>2. IsFiniteSet(a .. b) /\ Cardinality(a .. b) = IF a > b THEN 0 ELSE b - a + 1
    BY <2>1, FS_Interval
  <2> QED BY <2>2
<1> HIDE DEF S
<1> QED BY <1>4, <1>5, FS_Bijection DEF S, Listed

\* One more element, greater than all others
LEMMA EnumerationGrows ==
  ASSUME NEW tr, NEW T, Enumerates(tr, T), NEW n \in Nat, \A p \in T : p < n
  PROVE  Enumerates(Append(tr, n), T \cup {n})
<1> DEFINE t == Append(tr, n)
<1>1. /\ tr \in Seq(Nat) /\ DOMAIN tr = 1 .. Len(tr) /\ Len(tr) \in Nat
      /\ \A i \in DOMAIN tr : tr[i] < n
  BY DEF Enumerates
<1>2. /\ t \in Seq(Nat) /\ DOMAIN t = DOMAIN tr \cup {Len(tr) + 1} /\ t[Len(tr) + 1] = n
      /\ \A i \in DOMAIN tr : t[i] = tr[i]
  BY <1>1
<1> HIDE DEF t
<1>3. \A i, j \in DOMAIN t : i < j => t[i] < t[j]
  <2> TAKE i, j \in DOMAIN t
  <2> HAVE i < j
  <2>1. i \in DOMAIN tr
    BY <1>1, <1>2
  <2>2. CASE j \in DOMAIN tr
    BY <1>2, <2>1, <2>2 DEF Enumerates
  <2>3. CASE j = Len(tr) + 1
    BY <1>1, <1>2, <2>1, <2>3
  <2> QED BY <1>2, <2>2, <2>3
<1>4. T \cup {n} = {t[i] : i \in DOMAIN t}
  BY <1>2 DEF Enumerates
<1> QED BY <1>2, <1>3, <1>4 DEF Enumerates, t

\* The samples are the deltas of the windows of the last MaxSamples trades.
Sampled(l, smp, w, tr) ==
  /\ Len(smp) = IF Len(tr) < MaxSamples THEN Len(tr) ELSE MaxSamples
  /\ \A i \in 1 .. Len(smp) :
       smp[i] = DeltaNotional(l, WindowAt(l, tr[Len(tr) - Len(smp) + i], w))

\* r is s with x at its end and at most n elements.
Shifted(s, x, n, r) ==
  /\ Len(r) = IF Len(s) < n THEN Len(s) + 1 ELSE n
  /\ \A i \in 1 .. Len(r) : r[i] = IF i = Len(r) THEN x ELSE s[Len(s) + 1 - Len(r) + i]

\* Recent drops the oldest sample of a full list.
LEMMA RecentSamples ==
  ASSUME NEW s \in Seq(Int), NEW x \in Int, NEW n \in Nat \ {0}, Len(s) <= n,
         NEW r, r = Recent(Append(s, x), n)
  PROVE  r \in Seq(Int) /\ Shifted(s, x, n, r)
<1> USE DEF Shifted
<1> DEFINE t == Append(s, x)
<1>1. /\ t \in Seq(Int) /\ Len(t) = Len(s) + 1 /\ t[Len(s) + 1] = x /\ Len(s) \in Nat
      /\ \A i \in 1 .. Len(s) : t[i] = s[i]
  OBVIOUS
<1> HIDE DEF t
<1>2. CASE Len(s) < n
  <2>1. r = t
    BY <1>1, <1>2 DEF Recent, t
  <2>2. PICK a \in Nat : a = Len(s) /\ Len(r) = a + 1
    BY <1>1, <2>1
  <2>3. \A i \in 1 .. a + 1 : i # a + 1 => i \in 1 .. a /\ a + 1 - (a + 1) + i = i
    OBVIOUS
  <2> QED BY <1>1, <1>2, <2>1, <2>2, <2>3
<1>3. CASE Len(s) = n
  <2>1. r = SubSeq(t, 2, n + 1)
    BY <1>1, <1>3 DEF Recent, t
  <2>2. r \in Seq(Int) /\ Len(r) = n /\ \A i \in 1 .. n : r[i] = t[i + 1]
    BY <1>1, <1>3, <2>1
  <2> QED BY <1>1, <1>3, <2>2
<1> QED BY <1>1, <1>2, <1>3

\* A delta is a number, and it only depends on the trades of its window.
LEMMA DeltaType ==
  ASSUME NEW l, l \in Seq(MarketEvent), NEW S \in SUBSET Trades(l)
  PROVE  DeltaNotional(l, S) \in Int
<1> DEFINE f == [p \in S |-> SignedNotional(l[p])]
<1>1. \A p \in S : SignedNotional(l[p]) \in Int
  <2> TAKE p \in S
  <2>1. l[p].price \in Nat /\ l[p].qty \in Nat /\ l[p].side \in {"Buy", "Sell", "Unknown"}
    BY TradesType DEF Trade
  <2>2. l[p].price * l[p].qty \in Int
    BY <2>1
  <2> QED BY <2>1, <2>2 DEF SignedNotional
<1>2. IsFiniteSet(DOMAIN f) /\ \A p \in DOMAIN f : f[p] \in Int
  BY <1>1, TradesType
<1> HIDE DEF f
<1>3. Total(f) \in Int
  BY <1>2, TotalRemove
<1> QED BY <1>3 DEF DeltaNotional, f

\* The sum reads the log at its positions only.
LEMMA DeltaAgrees ==
  ASSUME NEW l, NEW k, NEW S, \A p \in S : k[p] = l[p]
  PROVE  DeltaNotional(k, S) = DeltaNotional(l, S)
<1>1. [p \in S |-> SignedNotional(k[p])] = [p \in S |-> SignedNotional(l[p])]
  OBVIOUS
<1> QED BY <1>1 DEF DeltaNotional

\* The position of a sample before and after one is added
LEMMA Shift ==
  ASSUME NEW K \in Nat, NEW M \in Nat \ {0}, NEW a, a = (IF K < M THEN K ELSE M),
         NEW b, b = (IF a < M THEN a + 1 ELSE M), NEW i \in 1 .. b
  PROVE  /\ a \in Nat /\ a <= M /\ b \in Nat /\ b = (IF K + 1 < M THEN K + 1 ELSE M)
         /\ i = b => K + 1 - b + i = K + 1
         /\ i # b => /\ a + 1 - b + i \in 1 .. a /\ K + 1 - b + i \in 1 .. K
                     /\ K + 1 - b + i = K - a + (a + 1 - b + i)
  OBVIOUS

\* The samples stay those of the last trades when one comes.
LEMMA SampledStep ==
  ASSUME NEW e, NEW n, Takes(e, n), e.kind = "trade",
         log \in Seq(MarketEvent), log' \in Seq(MarketEvent),
         NEW tr, Enumerates(tr, Trades(log)), NEW w,
         NEW s \in Seq(Int), Sampled(log, s, w, tr)
  PROVE  LET r == Recent(Append(s, DeltaNotional(log', WindowAt(log', n, w))), MaxSamples)
         IN r \in Seq(Int) /\ Sampled(log', r, w, Append(tr, n))
<1> DEFINE x0 == DeltaNotional(log', WindowAt(log', n, w))
<1>0. PICK x, r, t : x = x0 /\ r = Recent(Append(s, x), MaxSamples) /\ t = Append(tr, n)
  OBVIOUS
<1> SUFFICES r \in Seq(Int) /\ Sampled(log', r, w, t)
  BY <1>0
<1>1. PICK K : K = Len(tr)
  OBVIOUS
<1>2. PICK a : a = Len(s)
  OBVIOUS
<1>3. PICK b : b = Len(r)
  OBVIOUS
<1>4. K \in Nat /\ MaxSamples \in Nat \ {0} /\ tr \in Seq(Nat)
  BY <1>1, OrderflowAssumption DEF Enumerates
<1>5. a = (IF K < MaxSamples THEN K ELSE MaxSamples) /\ a <= MaxSamples /\ a \in Nat
  BY <1>1, <1>2, <1>4 DEF Sampled
<1>6. x \in Int
  BY <1>0, DeltaType DEF WindowAt
<1> HIDE DEF x0
<1>7. r \in Seq(Int) /\ Shifted(s, x, MaxSamples, r)
  <2>1. Len(s) <= MaxSamples
    BY <1>2, <1>5
  <2> QED BY <1>0, <1>4, <1>6, <2>1, RecentSamples
<1>8. b = (IF a < MaxSamples THEN a + 1 ELSE MaxSamples)
  BY <1>2, <1>3, <1>7 DEF Shifted
<1>9. \A i \in 1 .. b : r[i] = IF i = b THEN x ELSE s[a + 1 - b + i]
  BY <1>2, <1>3, <1>7 DEF Shifted
<1>10. /\ Len(t) = K + 1 /\ t[K + 1] = n
       /\ \A i \in 1 .. K : t[i] = tr[i] /\ tr[i] \in Trades(log)
  <2>1. DOMAIN tr = 1 .. K
    BY <1>1, <1>4
  <2>2. Len(t) = K + 1 /\ t[K + 1] = n /\ \A i \in 1 .. K : t[i] = tr[i]
    BY <1>0, <1>1, <1>4
  <2> QED BY <2>1, <2>2 DEF Enumerates
<1>11. /\ Trades(log') = Trades(log) \cup {n} /\ n \in Nat
       /\ \A p \in Trades(log) : p \in Nat /\ p < n /\ log'[p] = log[p]
  BY TradesStep
<1>12. ASSUME NEW i \in 1 .. K
       PROVE  DeltaNotional(log', WindowAt(log', t[i], w)) = DeltaNotional(log, WindowAt(log, tr[i], w))
  <2>1. PICK m : m = tr[i] /\ m = t[i] /\ m \in Trades(log)
    BY <1>10
  <2>2. WindowAt(log', m, w) = WindowAt(log, m, w)
    <3>1. m \in Trades(log) /\ log'[m] = log[m] /\ m < n /\ m \in Nat
      BY <1>11, <2>1
    <3> QED BY <1>11, <3>1 DEF WindowAt
  <2>3. \A p \in WindowAt(log, m, w) : log'[p] = log[p]
    BY <1>11 DEF WindowAt
  <2> QED BY <2>1, <2>2, <2>3, DeltaAgrees
<1>13. b \in Nat /\ b = (IF K + 1 < MaxSamples THEN K + 1 ELSE MaxSamples)
  BY <1>4, <1>5, <1>8
<1>14. ASSUME NEW i \in 1 .. b
       PROVE  r[i] = DeltaNotional(log', WindowAt(log', t[K + 1 - b + i], w))
  <2>1. CASE i = b
    <3>1. K + 1 - b + i = K + 1
      BY <1>4, <1>13, <2>1
    <3>2. r[i] = x
      BY <1>9, <2>1
    <3> QED BY <1>0, <1>10, <3>1, <3>2 DEF x0
  <2>2. CASE i # b
    <3>1. PICK j, k : j = a + 1 - b + i /\ k = K + 1 - b + i
      OBVIOUS
    <3>2. j \in 1 .. a /\ k \in 1 .. K /\ k = K - a + j
      BY <1>4, <1>5, <1>8, <2>2, <3>1, Shift
    <3>3. s[j] = DeltaNotional(log, WindowAt(log, tr[k], w))
      BY <1>1, <1>2, <3>2 DEF Sampled
    <3>4. r[i] = s[j]
      BY <1>9, <2>2, <3>1
    <3> QED BY <1>12, <3>1, <3>2, <3>3, <3>4
  <2> QED BY <2>1, <2>2
<1>15. Len(r) = IF Len(t) < MaxSamples THEN Len(t) ELSE MaxSamples
  BY <1>3, <1>10, <1>13
<1>16. ASSUME NEW i \in 1 .. Len(r)
       PROVE  r[i] = DeltaNotional(log', WindowAt(log', t[Len(t) - Len(r) + i], w))
  <2>1. i \in 1 .. b /\ Len(t) - Len(r) + i = K + 1 - b + i
    BY <1>3, <1>4, <1>10, <1>13
  <2> QED BY <1>14, <2>1
<1> QED BY <1>7, <1>15, <1>16 DEF Sampled

\* A window that leaves room for the jitter
Roomy(w) == w \in Windows /\ w + Jitter <= MaxWindow

\* The trades of the footprint, and what they add up to
FootprintTrades(l, start, bin, side) ==
  {p \in Trades(l) : /\ l[p].ts >= start
                     /\ l[p].price \div FootprintBin = bin
                     /\ l[p].side = side /\ l[p].price > 0}
Traded(l, start, bin, side) ==
  Total([p \in FootprintTrades(l, start, bin, side) |-> l[p].qty])

\* The footprint is that of the bucket that starts at start.
FootprintInv(l, fp, start) ==
  \A bin : /\ At(fp.ask, bin) = Traded(l, start, bin, "Buy")
           /\ At(fp.bid, bin) = Traded(l, start, bin, "Sell")

FlowInv ==
  /\ OrderflowTypeOK
  /\ Trades(log) = {} => bucket = {}
  /\ DequeInv(log, flowTrades, MaxWindow)
  /\ \E tr : /\ Enumerates(tr, Trades(log))
             /\ \A w \in Windows : Roomy(w) => Sampled(log, samples[w], w, tr)
  /\ Trades(log) # {} /\ InOrder(log) =>
       \E start : /\ bucket = {start}
                  /\ start = FloorTo(log[Max(Trades(log))].ts, FootprintBucket)
                  /\ FootprintInv(log, footprint, start)

\* The last samples are those of the window of every one of the last trades.
LEMMA WindowsFollow == LogInv /\ FlowInv => WindowsAreComplete
<1> SUFFICES ASSUME LogInv, FlowInv, Trades(log) # {} PROVE
      LET last == Max(Trades(log))
          order == {n \in Trades(log) :
                      Cardinality({m \in Trades(log) : m > n}) < MaxSamples}
      IN \A w \in {v \in Windows : v + Jitter <= MaxWindow} :
           /\ Window(log, flowTrades, w) = TrueWindow(last, w)
           /\ Len(samples[w]) = Cardinality(order)
           /\ \A n \in order :
                samples[w][Cardinality({m \in order : m <= n})] =
                  DeltaNotional(log, TrueWindow(n, w))
  BY DEF WindowsAreComplete
<1> DEFINE order == {n \in Trades(log) :
                       Cardinality({m \in Trades(log) : m > n}) < MaxSamples}
<1>1. PICK tr : /\ Enumerates(tr, Trades(log))
                /\ \A w \in Windows : Roomy(w) => Sampled(log, samples[w], w, tr)
  BY DEF FlowInv
<1>2. PICK K : K = Len(tr)
  OBVIOUS
<1>3. /\ K \in Nat /\ DOMAIN tr = 1 .. K /\ tr \in Seq(Nat)
      /\ \A i \in 1 .. K : tr[i] \in Nat /\ tr[i] \in Trades(log)
      /\ MaxSamples \in Nat \ {0} /\ Trades(log) = Listed(tr, 1, K)
  BY <1>1, <1>2, OrderflowAssumption DEF Enumerates, Listed
<1>4. \A i, j \in 1 .. K : (tr[i] < tr[j] <=> i < j) /\ (tr[i] <= tr[j] <=> i <= j)
  <2>1. \A i, j \in 1 .. K : i < j => tr[i] < tr[j]
    BY <1>1, <1>3 DEF Enumerates
  <2> TAKE i, j \in 1 .. K
  <2>2. i \in Nat /\ j \in Nat /\ tr[i] \in Nat /\ tr[j] \in Nat
    BY <1>3
  <2>3. i < j \/ i = j \/ j < i
    BY <2>2
  <2>4. i = j => tr[i] = tr[j]
    OBVIOUS
  <2>5. (i < j => tr[i] < tr[j]) /\ (j < i => tr[j] < tr[i])
    BY <2>1
  <2> QED BY <2>2, <2>3, <2>4, <2>5
<1>5. PICK L : L = IF K < MaxSamples THEN K ELSE MaxSamples
  OBVIOUS
<1>6. L \in Nat /\ L <= K /\ L <= MaxSamples
  BY <1>3, <1>5
<1>7. ASSUME NEW j \in 1 .. K
      PROVE  Cardinality({m \in Trades(log) : m > tr[j]}) = K - j
  <2>1. {m \in Trades(log) : m > tr[j]} = Listed(tr, j + 1, K)
    <3>1. \A i \in 1 .. K : tr[i] > tr[j] <=> i \in j + 1 .. K
      BY <1>3, <1>4
    <3>2. \A i \in j + 1 .. K : i \in 1 .. K
      BY <1>3
    <3> QED BY <1>3, <3>1, <3>2 DEF Listed
  <2>2. PICK a \in Nat \ {0} : a = j + 1 /\ a <= K + 1
    BY <1>3
  <2>3. Cardinality(Listed(tr, a, K)) = K - a + 1
    BY <1>1, <1>2, <1>3, <2>2, EnumeratedPart
  <2>4. K - a + 1 = K - j
    BY <1>3, <2>2
  <2> QED BY <2>1, <2>2, <2>3, <2>4, Zenon
<1>8. order = Listed(tr, K - L + 1, K)
  <2>1. \A i \in 1 .. K : tr[i] \in order <=> i \in K - L + 1 .. K
    <3> TAKE i \in 1 .. K
    <3>1. tr[i] \in order <=> K - i < MaxSamples
      <4>1. PICK c : c = Cardinality({m \in Trades(log) : m > tr[i]})
        OBVIOUS
      <4>2. c = K - i
        BY <1>7, <4>1, Zenon
      <4>3. tr[i] \in order <=> c < MaxSamples
        BY <1>3, <4>1, Zenon
      <4> QED BY <4>2, <4>3
    <3> HIDE DEF order
    <3> QED BY <1>3, <1>5, <1>6, <3>1
  <2>2. \A i \in K - L + 1 .. K : i \in 1 .. K
    BY <1>3, <1>6
  <2>3. order \subseteq Listed(tr, 1, K)
    BY <1>3
  <2> HIDE DEF order
  <2> QED BY <2>1, <2>2, <2>3 DEF Listed
<1>9. Cardinality(order) = L
  <2>1. PICK a \in Nat \ {0} : a = K - L + 1 /\ a <= K + 1
    BY <1>3, <1>6
  <2>2. Cardinality(Listed(tr, a, K)) = K - a + 1
    BY <1>1, <1>2, <1>3, <2>1, EnumeratedPart
  <2> HIDE DEF order
  <2> QED BY <1>3, <1>6, <1>8, <2>1, <2>2
<1>10. ASSUME NEW j \in K - L + 1 .. K
       PROVE  Cardinality({m \in order : m <= tr[j]}) = j - (K - L)
  <2>1. {m \in order : m <= tr[j]} = Listed(tr, K - L + 1, j)
    <3>1. \A i \in K - L + 1 .. K : i \in 1 .. K /\ (tr[i] <= tr[j] <=> i \in K - L + 1 .. j)
      BY <1>3, <1>4, <1>6
    <3>2. \A i \in K - L + 1 .. j : i \in K - L + 1 .. K
      BY <1>3, <1>6
    <3> HIDE DEF order
    <3> QED BY <1>8, <3>1, <3>2 DEF Listed
  <2>2. PICK a \in Nat \ {0} : a = K - L + 1 /\ a <= j + 1 /\ j \in Nat /\ j <= K
    BY <1>3, <1>6
  <2>3. Cardinality(Listed(tr, a, j)) = j - a + 1
    BY <1>1, <1>2, <2>2, EnumeratedPart
  <2>4. j - a + 1 = j - (K - L)
    BY <1>3, <1>6, <2>2
  <2> HIDE DEF order
  <2> QED BY <2>1, <2>2, <2>3, <2>4, Zenon
<1> HIDE DEF order
<1>11. ASSUME NEW w \in Windows, w + Jitter <= MaxWindow
       PROVE  /\ Window(log, flowTrades, w) = TrueWindow(Max(Trades(log)), w)
              /\ Len(samples[w]) = Cardinality(order)
              /\ \A n \in order :
                   samples[w][Cardinality({m \in order : m <= n})] =
                     DeltaNotional(log, TrueWindow(n, w))
  <2>1. Window(log, flowTrades, w) = TrueWindow(Max(Trades(log)), w)
    <3>1. Jittered(log) /\ DequeInv(log, flowTrades, MaxWindow)
      BY DEF LogInv, Jittered, FlowInv
    <3>2. w \in Nat /\ MaxWindow \in Nat
      BY OrderflowAssumption
    <3>3. Window(log, flowTrades, w) = WindowAt(log, Max(Trades(log)), w)
      BY <1>11, <3>1, <3>2, DequeHasWindow
    <3> QED BY <3>3 DEF TrueWindow, WindowAt
  <2>2. Sampled(log, samples[w], w, tr)
    BY <1>1, <1>11 DEF Roomy
  <2>3. Len(samples[w]) = L
    BY <1>2, <1>5, <2>2 DEF Sampled
  <2>4. ASSUME NEW n \in order
        PROVE  samples[w][Cardinality({m \in order : m <= n})] =
                 DeltaNotional(log, TrueWindow(n, w))
    <3>1. PICK j \in K - L + 1 .. K : n = tr[j]
      BY <1>8 DEF Listed
    <3>2. Cardinality({m \in order : m <= n}) = j - (K - L)
      BY <1>10, <3>1
    <3>3. PICK i : i = j - (K - L)
      OBVIOUS
    <3>4. i \in 1 .. L /\ K - L + i = j
      BY <1>3, <1>6, <3>3
    <3>5. samples[w][i] = DeltaNotional(log, WindowAt(log, tr[K - L + i], w))
      BY <1>2, <2>2, <2>3, <3>4 DEF Sampled
    <3> QED BY <3>1, <3>2, <3>3, <3>4, <3>5 DEF TrueWindow, WindowAt
  <2> QED BY <1>9, <2>1, <2>3, <2>4
<1> QED BY <1>11 DEF order

\* The footprint of the property is that of the invariant.
LEMMA FootprintFollows == FlowInv => FootprintIsTheBucket
  BY DEF FlowInv, FootprintIsTheBucket, FootprintInv, Traded, FootprintTrades, TradedIn

\* BTreeMap::entry(key).or_default() += amount, read back
LEMMA AddedAt ==
  ASSUME NEW map, \A k \in DOMAIN map : map[k] \in Nat, NEW key, NEW amount \in Nat
  PROVE  /\ \A k \in DOMAIN Add(map, key, amount) : Add(map, key, amount)[k] \in Nat
         /\ \A k : At(map, k) \in Nat
         /\ \A k : At(Add(map, key, amount), k)
                     = At(map, k) + (IF k = key THEN amount ELSE 0)
  BY DEF Add, At

\* Whether a trade counts as bought or sold
LEMMA SideOfTrade ==
  ASSUME NEW e \in Trade
  PROVE  /\ SignedNotional(e) \in Int
         /\ SignedNotional(e) > 0 <=> e.side = "Buy" /\ e.price > 0
         /\ SignedNotional(e) < 0 <=> e.side = "Sell" /\ e.price > 0
<1>1. e.price \in Nat /\ e.qty \in Nat \ {0} /\ e.side \in {"Buy", "Sell", "Unknown"}
  BY DEF Trade
<1>2. PICK v : v = e.price * e.qty
  OBVIOUS
<1>3. v \in Nat /\ (v > 0 <=> e.price > 0)
  <2>1. PICK a \in Nat, b \in Nat : a = e.price /\ b = e.qty - 1 /\ e.qty = b + 1
    BY <1>1
  <2>2. a * b \in Nat /\ a * (b + 1) = a * b + a
    OBVIOUS
  <2> QED BY <1>2, <2>1, <2>2
<1>4. CASE e.side = "Buy"
  <2>1. SignedNotional(e) = v * 1
    BY <1>2, <1>4 DEF SignedNotional
  <2> QED BY <1>3, <1>4, <2>1
<1>5. CASE e.side = "Sell"
  <2>1. SignedNotional(e) = v * (-1)
    BY <1>2, <1>5 DEF SignedNotional
  <2> QED BY <1>3, <1>5, <2>1
<1>6. CASE e.side = "Unknown"
  <2>1. SignedNotional(e) = v * 0
    BY <1>2, <1>6 DEF SignedNotional
  <2> QED BY <1>3, <1>6, <2>1
<1> QED BY <1>1, <1>4, <1>5, <1>6

\* What a trade adds to the quantity of its bin and side
LEMMA TradedStep ==
  ASSUME NEW e, NEW n, Takes(e, n), e.kind = "trade",
         log \in Seq(MarketEvent), log' \in Seq(MarketEvent),
         NEW start, e.ts >= start, NEW bin, NEW side
  PROVE  /\ Traded(log, start, bin, side) \in Int
         /\ Traded(log', start, bin, side) = Traded(log, start, bin, side)
              + (IF e.price \div FootprintBin = bin /\ e.side = side /\ e.price > 0
                 THEN e.qty ELSE 0)
<1>1. /\ Trades(log') = Trades(log) \cup {n} /\ n \in Nat /\ e \in Trade /\ log'[n] = e
      /\ \A p \in Trades(log) : p \in Nat /\ p < n /\ log'[p] = log[p]
  BY TradesStep
<1> DEFINE f == [p \in Trades(log') |-> log'[p].qty]
           S == FootprintTrades(log, start, bin, side)
           hit == e.price \div FootprintBin = bin /\ e.side = side /\ e.price > 0
<1>2. \A p \in Trades(log') : f[p] \in Int /\ f[p] = log'[p].qty
  BY TradesType DEF Trade
<1>3. S \subseteq Trades(log) /\ IsFiniteSet(S) /\ n \notin S
  <2>1. S \in SUBSET Trades(log)
    BY DEF FootprintTrades
  <2>2. IsFiniteSet(S)
    BY <2>1, TradesType
  <2> QED BY <1>1, <2>1, <2>2
<1>4. FootprintTrades(log', start, bin, side) = IF hit THEN S \cup {n} ELSE S
  BY <1>1 DEF FootprintTrades
<1>5. Traded(log, start, bin, side) = Total([p \in S |-> f[p]])
  <2>1. [p \in S |-> log[p].qty] = [p \in S |-> f[p]]
    BY <1>1, <1>2, <1>3
  <2> QED BY <2>1 DEF Traded
<1>6. Total([p \in S |-> f[p]]) \in Int
  <2>1. \A p \in S : f[p] \in Int
    BY <1>1, <1>2, <1>3
  <2> HIDE DEF f, S
  <2> QED BY <1>3, <2>1, TotalType
<1>7. CASE hit
  <2>1. Traded(log', start, bin, side) = Total([p \in S \cup {n} |-> f[p]])
    <3>1. [p \in S \cup {n} |-> log'[p].qty] = [p \in S \cup {n} |-> f[p]]
      BY <1>1, <1>2, <1>3
    <3> QED BY <1>4, <1>7, <3>1 DEF Traded
  <2>2. Total([p \in S \cup {n} |-> f[p]]) = f[n] + Total([p \in S |-> f[p]])
    <3>1. IntegerOn(S \cup {n}, f)
      BY <1>1, <1>2, <1>3 DEF IntegerOn
    <3>2. Splits(S, n, f)
      <4> HIDE DEF f, S
      <4> QED BY <1>3, <3>1, TotalSplits
    <3> HIDE DEF f, S
    <3> QED BY <3>2 DEF Splits
  <2>3. f[n] = e.qty /\ f[n] \in Int
    BY <1>1, <1>2
  <2> HIDE DEF f, S
  <2> QED BY <1>5, <1>6, <1>7, <2>1, <2>2, <2>3
<1>8. CASE ~hit
  <2>1. Traded(log', start, bin, side) = Total([p \in S |-> f[p]])
    <3>1. [p \in S |-> log'[p].qty] = [p \in S |-> f[p]]
      BY <1>1, <1>2, <1>3
    <3> QED BY <1>4, <1>8, <3>1 DEF Traded
  <2> HIDE DEF f, S
  <2> QED BY <1>5, <1>6, <1>8, <2>1
<1> QED BY <1>7, <1>8

\* Any other event leaves the trades as they are.
LEMMA TradesStay ==
  ASSUME NEW e, NEW n, Takes(e, n), e.kind # "trade"
  PROVE  /\ Trades(log') = Trades(log)
         /\ \A p \in Trades(log) : log'[p] = log[p]
  BY TradesStep

\* A trade starts a bucket or adds to it.
LEMMA FootprintStep ==
  ASSUME LogInv, LogInv', FlowInv, NEW e, NEW n, Takes(e, n), e.kind = "trade",
         UpdateFootprint(e), InOrder(log')
  PROVE  /\ bucket' = {FloorTo(e.ts, FootprintBucket)}
         /\ FootprintInv(log', footprint', FloorTo(e.ts, FootprintBucket))
<1> DEFINE start0 == FloorTo(e.ts, FootprintBucket)
           old0 == IF bucket = {start0} THEN footprint ELSE [bid |-> NoEntries, ask |-> NoEntries]
           bin0 == e.price \div FootprintBin
           bought0 == IF SignedNotional(e) > 0 THEN e.qty ELSE 0
           sold0 == IF SignedNotional(e) < 0 THEN e.qty ELSE 0
<1>1. PICK start, old, b, bought, sold :
        start = start0 /\ old = old0 /\ b = bin0 /\ bought = bought0 /\ sold = sold0
  OBVIOUS
<1>2. /\ bucket' = {start}
      /\ footprint' = [ask |-> Add(old.ask, b, bought), bid |-> Add(old.bid, b, sold)]
  BY <1>1 DEF UpdateFootprint
<1>3. /\ Trades(log') = Trades(log) \cup {n} /\ n \in Nat /\ e \in Trade /\ log'[n] = e
      /\ \A p \in Trades(log) : p \in Nat /\ p < n /\ log'[p] = log[p]
  BY TradesStep
<1>4. e.ts \in Nat /\ e.qty \in Nat /\ FootprintBucket \in Nat \ {0}
  BY <1>3, OrderflowAssumption DEF Trade
<1>5. start \in Nat /\ start <= e.ts
  BY <1>1, <1>4, FloorBounds
<1>6. Jittered(log) /\ Jittered(log')
  BY DEF LogInv, Jittered
<1>7. /\ \A p, q \in Trades(log) : p <= q => log[p].ts <= log[q].ts
      /\ \A p \in Trades(log) : log[p].ts <= e.ts /\ log[p].ts \in Nat
  <2>1. Trades(log') \in SUBSET DOMAIN log'
    BY <1>6, TradesType DEF Jittered
  <2>2. \A p, q \in Trades(log') : p <= q => log'[p].ts <= log'[q].ts
    BY <2>1 DEF InOrder
  <2>3. \A p \in Trades(log) : log[p].ts \in Nat
    BY <1>6, TradesType DEF Jittered
  <2> QED BY <1>3, <2>2, <2>3
<1>8. InOrder(log)
  <2>1. \A p \in DOMAIN log : p \in DOMAIN log' /\ log'[p] = log[p]
    BY DEF Takes
  <2> QED BY <2>1 DEF InOrder
<1>9. \A bin : /\ At(old.ask, bin) = Traded(log, start, bin, "Buy")
               /\ At(old.bid, bin) = Traded(log, start, bin, "Sell")
  <2>1. CASE bucket = {start}
    <3>1. old = footprint /\ Trades(log) # {}
      BY <1>1, <2>1 DEF FlowInv
    <3>2. FootprintInv(log, footprint, start)
      BY <1>8, <2>1, <3>1 DEF FlowInv
    <3> QED BY <3>1, <3>2 DEF FootprintInv
  <2>2. CASE bucket # {start}
    <3>1. \A p \in Trades(log) : ~(log[p].ts >= start)
      <4> SUFFICES ASSUME NEW p \in Trades(log), log[p].ts >= start PROVE FALSE
        OBVIOUS
      <4>1. PICK m : m = Max(Trades(log)) /\ m \in Trades(log) /\ p <= m
        BY <1>6, TradesType DEF Jittered
      <4>2. log[m].ts \in Nat /\ start <= log[m].ts /\ log[m].ts <= e.ts
        BY <1>5, <1>7, <4>1
      <4>3. FloorTo(log[m].ts, FootprintBucket) = start
        BY <1>1, <1>4, <4>2, FloorSame
      <4>4. bucket = {FloorTo(log[m].ts, FootprintBucket)}
        BY <1>8, <4>1 DEF FlowInv
      <4> QED BY <2>2, <4>3, <4>4
    <3>2. \A bin, side : Traded(log, start, bin, side) = 0
      <4> TAKE bin, side
      <4>1. FootprintTrades(log, start, bin, side) = {}
        BY <3>1 DEF FootprintTrades
      <4>2. PICK f : f = [p \in FootprintTrades(log, start, bin, side) |-> log[p].qty]
        OBVIOUS
      <4>3. DOMAIN f = {}
        BY <4>1, <4>2
      <4> QED BY <4>2, <4>3, TotalEmpty DEF Traded
    <3>3. old.ask = NoEntries /\ old.bid = NoEntries
      BY <1>1, <2>2
    <3>4. \A bin : At(NoEntries, bin) = 0
      BY DEF At, NoEntries
    <3> QED BY <3>2, <3>3, <3>4
  <2> QED BY <2>1, <2>2
<1>10. /\ \A k \in DOMAIN old.ask : old.ask[k] \in Nat
       /\ \A k \in DOMAIN old.bid : old.bid[k] \in Nat
  <2>1. \A side \in {"bid", "ask"} : \A k \in DOMAIN footprint[side] : footprint[side][k] \in Nat
    BY DEF FlowInv, OrderflowTypeOK
  <2>2. DOMAIN NoEntries = {}
    BY DEF NoEntries
  <2>3. CASE bucket = {start}
    <3>1. old = footprint
      BY <1>1, <2>3
    <3> QED BY <2>1, <3>1
  <2>4. CASE bucket # {start}
    <3>1. old.ask = NoEntries /\ old.bid = NoEntries
      BY <1>1, <2>4
    <3> QED BY <2>2, <3>1
  <2> QED BY <2>3, <2>4
<1>11. bought \in Nat /\ sold \in Nat
  BY <1>1, <1>4
<1>12. bought = (IF e.side = "Buy" /\ e.price > 0 THEN e.qty ELSE 0)
  BY <1>1, <1>3, SideOfTrade
<1>13. sold = (IF e.side = "Sell" /\ e.price > 0 THEN e.qty ELSE 0)
  BY <1>1, <1>3, SideOfTrade
<1>14. ASSUME NEW bin
       PROVE  /\ At(footprint'.ask, bin) = Traded(log', start, bin, "Buy")
              /\ At(footprint'.bid, bin) = Traded(log', start, bin, "Sell")
  <2>1. At(footprint'.ask, bin) = At(old.ask, bin) + (IF bin = b THEN bought ELSE 0)
    BY <1>2, <1>10, <1>11, AddedAt
  <2>2. At(footprint'.bid, bin) = At(old.bid, bin) + (IF bin = b THEN sold ELSE 0)
    BY <1>2, <1>10, <1>11, AddedAt
  <2>3. log \in Seq(MarketEvent) /\ log' \in Seq(MarketEvent) /\ e.ts >= start
    BY <1>4, <1>5, <1>6 DEF Jittered
  <2>4. Traded(log', start, bin, "Buy") = Traded(log, start, bin, "Buy")
          + (IF e.price \div FootprintBin = bin /\ e.side = "Buy" /\ e.price > 0
             THEN e.qty ELSE 0)
    BY <2>3, TradedStep
  <2>5. Traded(log', start, bin, "Sell") = Traded(log, start, bin, "Sell")
          + (IF e.price \div FootprintBin = bin /\ e.side = "Sell" /\ e.price > 0
             THEN e.qty ELSE 0)
    BY <2>3, TradedStep
  <2>6. (IF e.price \div FootprintBin = bin /\ e.side = "Buy" /\ e.price > 0
         THEN e.qty ELSE 0) = IF bin = b THEN bought ELSE 0
    BY <1>1, <1>12
  <2>7. (IF e.price \div FootprintBin = bin /\ e.side = "Sell" /\ e.price > 0
         THEN e.qty ELSE 0) = IF bin = b THEN sold ELSE 0
    BY <1>1, <1>13
  <2> HIDE DEF start0, old0, bin0, bought0, sold0
  <2>8. At(footprint'.ask, bin) = Traded(log', start, bin, "Buy")
    BY <1>9, <2>1, <2>4, <2>6
  <2>9. At(footprint'.bid, bin) = Traded(log', start, bin, "Sell")
    BY <1>9, <2>2, <2>5, <2>7
  <2> QED BY <2>8, <2>9
<1>15. FootprintInv(log', footprint', start)
  BY <1>14 DEF FootprintInv
<1> QED BY <1>1, <1>2, <1>15

\* The types of the order flow engine's state after a trade
LEMMA FlowTypeStep ==
  ASSUME LogInv, LogInv', FlowInv, NEW e, NEW n, Takes(e, n), e.kind = "trade", ObserveFlow(e),
         flowTrades' \subseteq Trades(log')
  PROVE  OrderflowTypeOK'
<1>1. e \in Trade /\ SignedNotional(e) \in Int /\ e.ts \in Nat /\ e.qty \in Nat
  BY TradesStep, SideOfTrade DEF Trade
<1>2. log' \in Seq(MarketEvent)
  BY DEF LogInv
<1>3. flowTrades' \subseteq DOMAIN log'
  BY DEF Trades
<1>4. flow' \in [cvd : Int, buy : Nat, sell : Nat]
  <2>1. /\ flow.cvd \in Int /\ flow.buy \in Nat /\ flow.sell \in Nat
    BY DEF FlowInv, OrderflowTypeOK
  <2>2. flow' = [cvd |-> flow.cvd + SignedNotional(e),
                 buy |-> flow.buy + (IF SignedNotional(e) > 0 THEN SignedNotional(e) ELSE 0),
                 sell |-> flow.sell + (IF SignedNotional(e) < 0 THEN -SignedNotional(e) ELSE 0)]
    BY DEF ObserveFlow
  <2>3. PICK v \in Int : v = SignedNotional(e)
    BY <1>1
  <2>4. /\ flow.cvd + v \in Int /\ flow.buy + (IF v > 0 THEN v ELSE 0) \in Nat
        /\ flow.sell + (IF v < 0 THEN -v ELSE 0) \in Nat
    BY <2>1
  <2> QED BY <2>2, <2>3, <2>4
<1>5. ASSUME NEW w \in Windows
      PROVE  samples'[w] \in Seq(Int) /\ Len(samples'[w]) <= MaxSamples
  <2>1. PICK x : x = DeltaNotional(log', Window(log', flowTrades', w))
    OBVIOUS
  <2>2. x \in Int
    <3>1. Window(log', flowTrades', w) \in SUBSET Trades(log')
      BY DEF Window
    <3> QED BY <1>2, <2>1, <3>1, DeltaType
  <2>3. samples'[w] = Recent(Append(samples[w], x), MaxSamples)
    BY <2>1 DEF ObserveFlow
  <2>4. samples[w] \in Seq(Int) /\ Len(samples[w]) <= MaxSamples /\ MaxSamples \in Nat \ {0}
    BY OrderflowAssumption DEF FlowInv, OrderflowTypeOK
  <2>5. PICK s, r : s = samples[w] /\ r = samples'[w]
    OBVIOUS
  <2>6. r \in Seq(Int) /\ Shifted(s, x, MaxSamples, r)
    BY <2>2, <2>3, <2>4, <2>5, RecentSamples
  <2>7. Len(r) <= MaxSamples
    BY <2>4, <2>5, <2>6 DEF Shifted
  <2> QED BY <2>5, <2>6, <2>7
<1>6. samples' \in [Windows -> Seq(Int)]
  <2>1. samples' = [w \in Windows |-> samples'[w]]
    BY DEF ObserveFlow
  <2> QED BY <1>5, <2>1
<1>7. bucket' \subseteq Nat /\ Cardinality(bucket') <= 1
  <2>1. bucket' = {FloorTo(e.ts, FootprintBucket)}
    BY DEF ObserveFlow, UpdateFootprint
  <2>2. FloorTo(e.ts, FootprintBucket) \in Nat
    BY <1>1, OrderflowAssumption, FloorBounds
  <2> QED BY <2>1, <2>2, AtMostOne
<1>8. \A side \in {"bid", "ask"} : \A b \in DOMAIN footprint'[side] : footprint'[side][b] \in Nat
  <2> DEFINE old0 == IF bucket = {FloorTo(e.ts, FootprintBucket)} THEN footprint
                     ELSE [bid |-> NoEntries, ask |-> NoEntries]
  <2>1. PICK old, b, bought, sold :
          /\ old = old0 /\ b = e.price \div FootprintBin
          /\ bought = (IF SignedNotional(e) > 0 THEN e.qty ELSE 0)
          /\ sold = (IF SignedNotional(e) < 0 THEN e.qty ELSE 0)
    OBVIOUS
  <2>2. footprint' = [ask |-> Add(old.ask, b, bought), bid |-> Add(old.bid, b, sold)]
    BY <2>1 DEF ObserveFlow, UpdateFootprint
  <2>3. bought \in Nat /\ sold \in Nat
    BY <1>1, <2>1
  <2>4. DOMAIN NoEntries = {}
    BY DEF NoEntries
  <2>5. /\ \A k \in DOMAIN footprint.ask : footprint.ask[k] \in Nat
        /\ \A k \in DOMAIN footprint.bid : footprint.bid[k] \in Nat
    BY DEF FlowInv, OrderflowTypeOK
  <2>6. old = footprint \/ (old.ask = NoEntries /\ old.bid = NoEntries)
    BY <2>1
  <2>7. \A k \in DOMAIN old.ask : old.ask[k] \in Nat
    BY <2>4, <2>5, <2>6
  <2>8. \A k \in DOMAIN old.bid : old.bid[k] \in Nat
    BY <2>4, <2>5, <2>6
  <2>9. \A k \in DOMAIN Add(old.ask, b, bought) : Add(old.ask, b, bought)[k] \in Nat
    BY <2>3, <2>7, AddedAt
  <2>10. \A k \in DOMAIN Add(old.bid, b, sold) : Add(old.bid, b, sold)[k] \in Nat
    BY <2>3, <2>8, AddedAt
  <2> QED BY <2>2, <2>9, <2>10
<1> QED BY <1>3, <1>4, <1>5, <1>6, <1>7, <1>8 DEF OrderflowTypeOK

\* Every event keeps the order flow engine's state that of the log.
LEMMA FlowStep ==
  ASSUME LogInv, LogInv', FlowInv, NEW e, NEW n, Takes(e, n), OrderflowReceives(e)
  PROVE  FlowInv'
<1>1. Jittered(log) /\ Jittered(log')
  BY DEF LogInv, Jittered
<1>2. CASE e.kind = "trade"
  <2>1. ObserveFlow(e)
    BY <1>2 DEF OrderflowReceives
  <2>2. /\ Trades(log') = Trades(log) \cup {n} /\ n \in Nat /\ e \in Trade /\ log'[n] = e
        /\ \A p \in Trades(log) : p \in Nat /\ p < n /\ log'[p] = log[p]
    BY <1>2, TradesStep
  <2>3. MaxWindow \in Nat /\ n = Len(log')
    BY OrderflowAssumption DEF Takes
  <2>4. DequeInv(log', flowTrades', MaxWindow)
    <3>1. flowTrades' = PopFront(log', flowTrades \cup {n}, e.ts - MaxWindow)
      BY <2>1, <2>3 DEF ObserveFlow
    <3>2. log \in Seq(MarketEvent) /\ DequeInv(log, flowTrades, MaxWindow)
      BY <1>1 DEF Jittered, FlowInv
    <3> QED BY <1>2, <2>3, <3>1, <3>2, DequeStep
  <2>5. OrderflowTypeOK'
    BY <1>2, <2>1, <2>4, FlowTypeStep DEF DequeInv
  <2>6. Max(Trades(log')) = n
    <3>1. PICK m : m = Max(Trades(log'))
      OBVIOUS
    <3>2. m \in Trades(log') /\ n <= m
      BY <1>1, <2>2, <3>1, TradesType DEF Jittered
    <3> QED BY <2>2, <3>1, <3>2
  <2>7. PICK tr : /\ Enumerates(tr, Trades(log))
                  /\ \A w \in Windows : Roomy(w) => Sampled(log, samples[w], w, tr)
    BY DEF FlowInv
  <2>8. Enumerates(Append(tr, n), Trades(log'))
    BY <2>2, <2>7, EnumerationGrows
  <2>9. ASSUME NEW w \in Windows, Roomy(w)
        PROVE  Sampled(log', samples'[w], w, Append(tr, n))
    <3>1. w \in Nat /\ w + Jitter <= MaxWindow
      BY <2>9, OrderflowAssumption DEF Roomy
    <3>2. Trades(log') # {}
      BY <2>2
    <3>3. Window(log', flowTrades', w) = WindowAt(log', n, w)
      <4>1. Window(log', flowTrades', w) = WindowAt(log', Max(Trades(log')), w)
        BY <1>1, <2>3, <2>4, <3>1, <3>2, DequeHasWindow
      <4> QED BY <2>6, <4>1, Zenon
    <3>4. samples'[w] = Recent(Append(samples[w], DeltaNotional(log', WindowAt(log', n, w))), MaxSamples)
      BY <2>1, <3>3 DEF ObserveFlow
    <3>5. samples[w] \in Seq(Int) /\ Sampled(log, samples[w], w, tr)
      BY <2>7, <2>9 DEF FlowInv, OrderflowTypeOK
    <3>6. PICK s : s = samples[w]
      OBVIOUS
    <3>7. log \in Seq(MarketEvent) /\ log' \in Seq(MarketEvent)
      BY <1>1 DEF Jittered
    <3>8. Sampled(log', Recent(Append(s, DeltaNotional(log', WindowAt(log', n, w))), MaxSamples),
                  w, Append(tr, n))
      BY <1>2, <2>7, <3>5, <3>6, <3>7, SampledStep
    <3> QED BY <3>4, <3>6, <3>8
  <2>10. InOrder(log') =>
           \E start : /\ bucket' = {start}
                      /\ start = FloorTo(log'[Max(Trades(log'))].ts, FootprintBucket)
                      /\ FootprintInv(log', footprint', start)
    <3>1. UpdateFootprint(e)
      BY <2>1 DEF ObserveFlow
    <3>2. ASSUME InOrder(log')
          PROVE  /\ bucket' = {FloorTo(e.ts, FootprintBucket)}
                 /\ FootprintInv(log', footprint', FloorTo(e.ts, FootprintBucket))
      BY <1>2, <3>1, <3>2, FootprintStep
    <3> QED BY <2>2, <2>6, <3>2
  <2>11. Trades(log') # {}
    BY <2>2
  <2> QED BY <2>4, <2>5, <2>8, <2>9, <2>10, <2>11 DEF FlowInv
<1>3. CASE e.kind # "trade"
  <2>1. UNCHANGED orderflowVars
    BY <1>3 DEF OrderflowReceives
  <2>2. /\ flowTrades' = flowTrades /\ flow' = flow /\ samples' = samples
        /\ bucket' = bucket /\ footprint' = footprint
    BY <2>1 DEF orderflowVars
  <2>3. Trades(log') = Trades(log) /\ \A p \in Trades(log) : log'[p] = log[p]
    BY <1>3, TradesStay
  <2>4. DOMAIN log \subseteq DOMAIN log' /\ \A p \in DOMAIN log : log'[p] = log[p]
    BY DEF Takes
  <2>5. OrderflowTypeOK'
    BY <2>2, <2>4 DEF FlowInv, OrderflowTypeOK
  <2>6. DequeInv(log', flowTrades', MaxWindow)
    BY <2>2, <2>3 DEF FlowInv, DequeInv
  <2>7. PICK tr : /\ Enumerates(tr, Trades(log))
                  /\ \A w \in Windows : Roomy(w) => Sampled(log, samples[w], w, tr)
    BY DEF FlowInv
  <2>8. ASSUME NEW w \in Windows, Roomy(w) PROVE Sampled(log', samples'[w], w, tr)
    <3>1. PICK s : s = samples[w]
      OBVIOUS
    <3>2. Sampled(log, s, w, tr)
      BY <2>7, <2>8, <3>1
    <3>3. ASSUME NEW m \in Trades(log)
          PROVE  DeltaNotional(log', WindowAt(log', m, w)) = DeltaNotional(log, WindowAt(log, m, w))
      <4>1. WindowAt(log', m, w) = WindowAt(log, m, w)
        BY <2>3 DEF WindowAt
      <4>2. \A p \in WindowAt(log, m, w) : log'[p] = log[p]
        BY <2>3 DEF WindowAt
      <4> QED BY <4>1, <4>2, DeltaAgrees
    <3>4. ASSUME NEW i \in 1 .. Len(s)
          PROVE  tr[Len(tr) - Len(s) + i] \in Trades(log)
      <4>1. PICK K, a : K = Len(tr) /\ a = Len(s)
        OBVIOUS
      <4>2. K \in Nat /\ DOMAIN tr = 1 .. K /\ MaxSamples \in Nat
        BY <2>7, <4>1, OrderflowAssumption DEF Enumerates
      <4>3. a = IF K < MaxSamples THEN K ELSE MaxSamples
        BY <3>2, <4>1 DEF Sampled
      <4>4. K - a + i \in 1 .. K
        BY <4>1, <4>2, <4>3
      <4> QED BY <2>7, <4>1, <4>2, <4>4 DEF Enumerates
    <3>5. \A i \in 1 .. Len(s) :
            s[i] = DeltaNotional(log', WindowAt(log', tr[Len(tr) - Len(s) + i], w))
      BY <3>2, <3>3, <3>4 DEF Sampled
    <3>6. Sampled(log', s, w, tr)
      BY <3>2, <3>5 DEF Sampled
    <3> QED BY <2>2, <3>1, <3>6
  <2>9. Trades(log') # {} /\ InOrder(log') =>
          \E start : /\ bucket' = {start}
                     /\ start = FloorTo(log'[Max(Trades(log'))].ts, FootprintBucket)
                     /\ FootprintInv(log', footprint', start)
    <3> SUFFICES ASSUME Trades(log') # {}, InOrder(log')
                 PROVE  \E start : /\ bucket' = {start}
                     /\ start = FloorTo(log'[Max(Trades(log'))].ts, FootprintBucket)
                     /\ FootprintInv(log', footprint', start)
      OBVIOUS
    <3>1. InOrder(log)
      BY <2>4 DEF InOrder
    <3>2. PICK start : /\ bucket = {start}
                       /\ start = FloorTo(log[Max(Trades(log))].ts, FootprintBucket)
                       /\ FootprintInv(log, footprint, start)
      BY <2>3, <3>1 DEF FlowInv
    <3>3. PICK m : m = Max(Trades(log)) /\ m \in Trades(log)
      BY <1>1, <2>3, TradesType DEF Jittered
    <3>4. ASSUME NEW bin, NEW side
          PROVE  Traded(log', start, bin, side) = Traded(log, start, bin, side)
      <4>1. FootprintTrades(log', start, bin, side) = FootprintTrades(log, start, bin, side)
        BY <2>3 DEF FootprintTrades
      <4>2. PICK S : S = FootprintTrades(log, start, bin, side)
        OBVIOUS
      <4>3. \A p \in S : log'[p] = log[p]
        BY <2>3, <4>2 DEF FootprintTrades
      <4>4. [p \in S |-> log'[p].qty] = [p \in S |-> log[p].qty]
        BY <4>3
      <4> QED BY <4>1, <4>2, <4>4 DEF Traded
    <3>5. FootprintInv(log', footprint, start)
      BY <3>2, <3>4 DEF FootprintInv
    <3> QED BY <2>2, <2>3, <3>2, <3>3, <3>5
  <2>10. Trades(log') = {} => bucket' = {}
    BY <2>2, <2>3 DEF FlowInv
  <2> QED BY <2>3, <2>5, <2>6, <2>7, <2>8, <2>9, <2>10 DEF FlowInv
<1> QED BY <1>2, <1>3

\* The engine starts with the empty log.
LEMMA FlowStart == Init => FlowInv
<1> SUFFICES ASSUME Init PROVE FlowInv
  OBVIOUS
<1>1. /\ log = <<>> /\ flowTrades = {} /\ flow = [cvd |-> 0, buy |-> 0, sell |-> 0]
      /\ samples = [w \in Windows |-> <<>>] /\ bucket = {}
      /\ footprint = [bid |-> NoEntries, ask |-> NoEntries]
  BY DEF Init, OrderflowInit
<1>2. DOMAIN <<>> = {} /\ Len(<<>>) = 0 /\ <<>> \in Seq(Int) /\ <<>> \in Seq(Nat)
  OBVIOUS
<1>3. Trades(log) = {}
  BY <1>1, <1>2 DEF Trades
<1>4. OrderflowTypeOK
  <2>1. MaxSamples \in Nat /\ Cardinality(bucket) = 0
    BY <1>1, OrderflowAssumption, FS_EmptySet
  <2>2. DOMAIN NoEntries = {}
    BY DEF NoEntries
  <2>3. samples \in [Windows -> Seq(Int)] /\ \A w \in Windows : Len(samples[w]) <= MaxSamples
    BY <1>1, <1>2, <2>1
  <2>4. \A side \in {"bid", "ask"} : footprint[side] = NoEntries
    BY <1>1
  <2>5. \A side \in {"bid", "ask"} : \A b \in DOMAIN footprint[side] : footprint[side][b] \in Nat
    BY <2>2, <2>4
  <2> QED BY <1>1, <2>1, <2>3, <2>5 DEF OrderflowTypeOK
<1>5. Enumerates(<<>>, Trades(log))
  BY <1>2, <1>3 DEF Enumerates
<1>6. \A w \in Windows : Sampled(log, samples[w], w, <<>>)
  <2> TAKE w \in Windows
  <2>1. samples[w] = <<>>
    BY <1>1
  <2>2. MaxSamples \in Nat \ {0}
    BY OrderflowAssumption
  <2> QED BY <1>2, <2>1, <2>2 DEF Sampled
<1>7. DequeInv(log, flowTrades, MaxWindow)
  BY <1>1, <1>3 DEF DequeInv
<1> QED BY <1>1, <1>3, <1>4, <1>5, <1>6, <1>7 DEF FlowInv

\* Everything the order flow engine's invariant speaks of
LEMMA FlowUnchanged ==
  ASSUME FlowInv, log' = log, UNCHANGED orderflowVars
  PROVE  FlowInv'
<1>1. /\ flowTrades' = flowTrades /\ flow' = flow /\ samples' = samples
      /\ bucket' = bucket /\ footprint' = footprint
  BY DEF orderflowVars
<1>2. OrderflowTypeOK'
  BY <1>1 DEF FlowInv, OrderflowTypeOK
<1> QED BY <1>1, <1>2 DEF FlowInv

\* The state of the order flow engine follows the log in every behaviour.
LEMMA FlowFollows == Spec => [](LogInv /\ FlowInv)
<1>1. Init => LogInv /\ FlowInv
  BY LogStart, FlowStart
<1>2. LogInv /\ FlowInv /\ [Next]_vars => (LogInv /\ FlowInv)'
  <2> SUFFICES ASSUME LogInv, FlowInv, [Next]_vars PROVE (LogInv /\ FlowInv)'
    OBVIOUS
  <2>1. CASE UNCHANGED vars
    <3>1. feed' = feed /\ log' = log /\ UNCHANGED orderflowVars
      BY <2>1 DEF vars
    <3>2. LogInv'
      BY <3>1 DEF LogInv
    <3> QED BY <3>1, <3>2, FlowUnchanged
  <2>2. CASE Next
    <3>1. PICK e \in feed.events : Receive(e)
      BY <2>2 DEF Next
    <3>2. LogInv' /\ \E n : Takes(e, n)
      BY <3>1, LogStep DEF Receive
    <3> QED BY <3>1, <3>2, FlowStep DEF Receive
  <2> QED BY <2>1, <2>2
<1> QED BY <1>1, <1>2, PTL DEF Spec

(***************************************************************************)
(* However late an event arrives and whatever the deque has dropped, the   *)
(* windows, the samples behind the z-scores and, while events come in      *)
(* order, the footprint are those of the whole history of trades.          *)
(* (orderflow.rs: observe_trade, update_footprint, prune_old_trades)       *)
(***************************************************************************)
THEOREM TheTapeIsWhole == Spec => []OrderflowIsTheTape
<1>1. LogInv /\ FlowInv => OrderflowIsTheTape
  BY WindowsFollow, FootprintFollows DEF OrderflowIsTheTape
<1> QED BY <1>1, FlowFollows, PTL

-----------------------------------------------------------------------------
(***************************************************************************)
(* The volume profile engine                                               *)
(***************************************************************************)
\* A map over finitely many integers has a first greatest value.
LEMMA ArgMaxIs ==
  ASSUME NEW map, IsFiniteSet(DOMAIN map), DOMAIN map \subseteq Int, DOMAIN map # {},
         \A k \in DOMAIN map : map[k] \in Int
  PROVE  /\ ArgMax(map) \in DOMAIN map
         /\ \A j \in DOMAIN map : \/ map[j] < map[ArgMax(map)]
                                  \/ map[j] = map[ArgMax(map)] /\ ArgMax(map) <= j
<1> DEFINE Beats(k, j) == map[j] < map[k] \/ (map[j] = map[k] /\ k <= j)
           B == {T \in SUBSET DOMAIN map : T # {} /\ ~ \E k \in T : \A j \in T : Beats(k, j)}
<1>1. SUFFICES B = {}
  <2>1. DOMAIN map \notin B => \E k \in DOMAIN map : \A j \in DOMAIN map : Beats(k, j)
    OBVIOUS
  <2> QED BY <2>1 DEF ArgMax
<1>2. SUFFICES ASSUME B # {} PROVE FALSE
  OBVIOUS
<1>3. B \subseteq SUBSET DOMAIN map
  OBVIOUS
<1>4. PICK T \in B : \A x \in T : T \ {x} \notin B
  <2> HIDE DEF B
  <2> QED BY <1>2, <1>3, LeastSet
<1>5. PICK x \in T : TRUE
  BY <1>4
<1>6. T \ {x} # {}
  BY <1>4, <1>5
<1>7. PICK y \in T \ {x} : \A z \in T \ {x} : Beats(y, z)
  BY <1>4, <1>5, <1>6
<1>8. /\ x \in Int /\ y \in Int /\ map[x] \in Int /\ map[y] \in Int
      /\ \A z \in T : z \in Int /\ map[z] \in Int
  BY <1>4, <1>5, <1>7
<1>9. Beats(x, y) \/ Beats(y, x)
  BY <1>8
<1>10. CASE Beats(x, y)
  <2>1. \A z \in T : Beats(x, z)
    BY <1>7, <1>8, <1>10
  <2> QED BY <1>4, <1>5, <2>1
<1>11. CASE Beats(y, x)
  BY <1>4, <1>7, <1>11
<1> QED BY <1>9, <1>10, <1>11

\* What a product and a quotient of natural numbers are
LEMMA Naturals2 ==
  ASSUME NEW a \in Nat, NEW b \in Nat
  PROVE  a * b \in Nat /\ (b # 0 => a \div b \in Nat)
  OBVIOUS

\* Adding a positive amount to a map of positive amounts
LEMMA AddPositive ==
  ASSUME NEW map, \A k \in DOMAIN map : map[k] \in Nat \ {0},
         NEW key, NEW amount \in Nat \ {0}
  PROVE  /\ DOMAIN Add(map, key, amount) = DOMAIN map \cup {key}
         /\ \A k \in DOMAIN Add(map, key, amount) :
              Add(map, key, amount)[k] \in Nat \ {0}
  BY DEF Add

ProfileShape ==
  /\ ProfileTypeOK
  /\ IsFiniteSet(DOMAIN tpoCounts) /\ DOMAIN tpoCounts \subseteq Nat
  /\ sessionTrades > 0 => DOMAIN tpoCounts # {}
  /\ npoc = {} \/ \E n : npoc = {n}

\* A trade keeps the profile well formed.
LEMMA ProfileShapeStep ==
  ASSUME ProfileShape, NEW e \in Trade, ObserveProfile(e)
  PROVE  ProfileShape'
<1> DEFINE start == FloorTo(e.ts, Session)
           rolls == sessionTrades > 0 /\ start # session
           bin == e.price \div PriceBin
           old == IF rolls THEN NoSums ELSE sums
           oldBucket == IF rolls THEN {} ELSE tpoBucket
           oldBins == IF rolls THEN {} ELSE tpoBins
           oldCounts == IF rolls THEN NoEntries ELSE tpoCounts
           oldVolume == IF rolls THEN NoEntries ELSE volume
           seen == IF oldBucket = {FloorTo(e.ts, TpoInterval)} THEN oldBins ELSE {}
<1>1. /\ e.ts \in Nat /\ e.price \in Nat /\ e.qty \in Nat \ {0}
      /\ Session \in Nat \ {0} /\ TpoInterval \in Nat \ {0} /\ PriceBin \in Nat \ {0}
  BY ProfileAssumption DEF Trade
<1>2. start \in Nat /\ FloorTo(e.ts, TpoInterval) \in Nat /\ bin \in Nat
  <2>1. bin \in Nat
    BY <1>1, Naturals2
  <2>2. start \in Nat /\ FloorTo(e.ts, TpoInterval) \in Nat
    BY <1>1, FloorBounds
  <2> QED BY <2>1, <2>2
<1>3. /\ session' = IF rolls \/ sessionTrades = 0 THEN start ELSE session
      /\ sessionTrades' = (IF rolls THEN 0 ELSE sessionTrades) + 1
      /\ tpoBucket' = {FloorTo(e.ts, TpoInterval)}
      /\ tpoBins' = seen \cup {bin}
      /\ tpoCounts' = IF bin \in seen THEN oldCounts ELSE Add(oldCounts, bin, 1)
      /\ volume' = Add(oldVolume, bin, e.qty)
      /\ sums' = [qty |-> old.qty + e.qty, pq |-> old.pq + e.price * e.qty,
                  p2q |-> old.p2q + e.price * e.price * e.qty]
      /\ npoc' = {[n EXCEPT !.touched = @ \/ n.bin = bin] :
                    n \in IF rolls THEN Carry ELSE npoc}
  BY DEF ObserveProfile, ObserveTpo
<1>4. /\ session \in Nat /\ sessionTrades \in Nat /\ sums \in [qty : Nat, pq : Nat, p2q : Nat]
      /\ tpoBins \subseteq DOMAIN tpoCounts /\ DOMAIN tpoCounts = DOMAIN volume
      /\ \A b \in DOMAIN tpoCounts : tpoCounts[b] \in Nat \ {0} /\ volume[b] \in Nat \ {0}
      /\ npoc = {} \/ \E n : npoc = {n}
      /\ \A n \in npoc : n \in [session : Nat, bin : Nat, touched : BOOLEAN]
      /\ IsFiniteSet(DOMAIN tpoCounts) /\ DOMAIN tpoCounts \subseteq Nat
      /\ sessionTrades > 0 => DOMAIN tpoCounts # {}
  BY DEF ProfileShape, ProfileTypeOK
<1>5. /\ \A b \in DOMAIN oldCounts : oldCounts[b] \in Nat \ {0}
      /\ \A b \in DOMAIN oldVolume : oldVolume[b] \in Nat \ {0}
      /\ DOMAIN oldCounts = DOMAIN oldVolume /\ oldBins \subseteq DOMAIN oldCounts
      /\ IsFiniteSet(DOMAIN oldCounts) /\ DOMAIN oldCounts \subseteq Nat
  <2>1. DOMAIN NoEntries = {} /\ IsFiniteSet({})
    BY FS_EmptySet DEF NoEntries
  <2> QED BY <1>4, <2>1
<1>6. seen \subseteq DOMAIN oldCounts
  BY <1>5
<1>7. old \in [qty : Nat, pq : Nat, p2q : Nat]
  BY <1>4 DEF NoSums
<1> HIDE DEF start, bin, old, oldBucket, oldBins, oldCounts, oldVolume, seen
<1>8. /\ DOMAIN volume' = DOMAIN oldVolume \cup {bin}
      /\ \A b \in DOMAIN volume' : volume'[b] \in Nat \ {0}
  BY <1>1, <1>3, <1>5, AddPositive
<1>9. /\ DOMAIN tpoCounts' = DOMAIN oldCounts \cup {bin}
      /\ \A b \in DOMAIN tpoCounts' : tpoCounts'[b] \in Nat \ {0}
  <2>1. CASE bin \in seen
    BY <1>3, <1>5, <1>6, <2>1
  <2>2. CASE bin \notin seen
    <3>1. tpoCounts' = Add(oldCounts, bin, 1) /\ 1 \in Nat \ {0}
      BY <1>3, <2>2
    <3> QED BY <1>5, <3>1, AddPositive
  <2> QED BY <2>1, <2>2
<1>10. tpoBins' \subseteq DOMAIN tpoCounts' /\ DOMAIN tpoCounts' = DOMAIN volume'
  BY <1>3, <1>5, <1>6, <1>8, <1>9
<1>11. sums' \in [qty : Nat, pq : Nat, p2q : Nat]
  <2>1. e.price * e.qty \in Nat /\ e.price * e.price \in Nat
    BY <1>1, Naturals2
  <2>2. e.price * e.price * e.qty \in Nat
    BY <1>1, <2>1, Naturals2
  <2>3. PICK a \in Nat, b \in Nat : a = e.price * e.qty /\ b = e.price * e.price * e.qty
    BY <2>1, <2>2
  <2>4. sums' = [qty |-> old.qty + e.qty, pq |-> old.pq + a, p2q |-> old.p2q + b]
    BY <1>3, <2>3
  <2> QED BY <1>1, <1>7, <2>4
<1>12. /\ npoc' = {} \/ \E n : npoc' = {n}
       /\ \A n \in npoc' : n \in [session : Nat, bin : Nat, touched : BOOLEAN]
  <2>1. PICK N : N = IF rolls THEN Carry ELSE npoc
    OBVIOUS
  <2>2. \A n \in N : n \in [session : Nat, bin : Nat, touched : BOOLEAN]
    <3>1. CASE rolls
      <4>1. PICK poc : poc = ArgMax(tpoCounts)
        OBVIOUS
      <4>2. poc \in DOMAIN tpoCounts
        BY <1>4, <3>1, <4>1, ArgMaxIs
      <4>3. N = {[session |-> session, bin |-> poc, touched |-> FALSE]}
        BY <2>1, <3>1, <4>1 DEF Carry
      <4>4. session \in Nat /\ poc \in Nat
        BY <1>4, <4>2
      <4>5. [session |-> session, bin |-> poc, touched |-> FALSE]
              \in [session : Nat, bin : Nat, touched : BOOLEAN]
        BY <4>4
      <4> QED BY <4>3, <4>5, Zenon
    <3>2. CASE ~rolls
      <4>1. N = npoc
        BY <2>1, <3>2
      <4> QED BY <1>4, <4>1
    <3> QED BY <3>1, <3>2
  <2>3. N = {} \/ \E x : N = {x}
    BY <1>4, <2>1 DEF Carry
  <2>4. npoc' = {[n EXCEPT !.touched = @ \/ n.bin = bin] : n \in N}
    BY <1>3, <2>1
  <2>5. \A n \in npoc' : n \in [session : Nat, bin : Nat, touched : BOOLEAN]
    BY <2>2, <2>4
  <2>6. npoc' = {} \/ \E n : npoc' = {n}
    <3>1. CASE N = {}
      BY <2>4, <3>1
    <3>2. CASE \E x : N = {x}
      <4>1. PICK x : N = {x}
        BY <3>2
      <4>2. PICK y : y = [x EXCEPT !.touched = @ \/ x.bin = bin]
        OBVIOUS
      <4>3. npoc' = {y}
        BY <2>4, <4>1, <4>2, Zenon
      <4> QED BY <4>3
    <3> QED BY <2>3, <3>1, <3>2
  <2> QED BY <2>5, <2>6
<1>13. session' \in Nat /\ sessionTrades' \in Nat /\ sessionTrades' > 0
  BY <1>2, <1>3, <1>4
<1>14. /\ tpoBucket' \subseteq Nat /\ Cardinality(tpoBucket') <= 1
       /\ Cardinality(npoc') <= 1
  BY <1>2, <1>3, <1>12, AtMostOne
<1>15. IsFiniteSet(DOMAIN tpoCounts') /\ DOMAIN tpoCounts' \subseteq Nat /\ DOMAIN tpoCounts' # {}
  BY <1>2, <1>5, <1>9, FS_AddElement
<1>16. ProfileTypeOK'
  BY <1>8, <1>9, <1>10, <1>11, <1>12, <1>13, <1>14 DEF ProfileTypeOK
<1> QED BY <1>12, <1>15, <1>16 DEF ProfileShape

-----------------------------------------------------------------------------
\* What a trade adds to the sums
MomentKeys == DOMAIN NoSums

\* The moments of a trade are natural numbers.
LEMMA MomentsType ==
  ASSUME NEW e \in Trade
  PROVE  /\ MomentKeys = {"qty", "pq", "p2q"}
         /\ \A k \in MomentKeys : Moments(e)[k] \in Nat /\ NoSums[k] = 0
         /\ Moments(e).qty = e.qty /\ Moments(e).pq = e.price * e.qty
         /\ Moments(e).p2q = e.price * e.price * e.qty
<1>1. e.price \in Nat /\ e.qty \in Nat
  BY DEF Trade
<1>2. PICK a \in Nat, b \in Nat, c \in Nat :
        a = e.qty /\ b = e.price * e.qty /\ c = e.price * e.price * e.qty
  <2>1. e.price * e.qty \in Nat /\ e.price * e.price \in Nat
    BY <1>1, Naturals2
  <2>2. e.price * e.price * e.qty \in Nat
    BY <1>1, <2>1, Naturals2
  <2> QED BY <1>1, <2>1, <2>2
<1>3. Moments(e) = [qty |-> a, pq |-> b, p2q |-> c]
  BY <1>2, Zenon DEF Moments
<1>4. MomentKeys = {"qty", "pq", "p2q"} /\ \A k \in MomentKeys : NoSums[k] = 0
  BY DEF MomentKeys, NoSums
<1>5. Moments(e).qty = a /\ Moments(e).pq = b /\ Moments(e).p2q = c
  BY <1>3
<1>6. \A k \in MomentKeys : Moments(e)[k] \in Nat
  BY <1>4, <1>5
<1> QED BY <1>2, <1>4, <1>5, <1>6

\* Logs that agree on a set of trades give it the same profile.
LEMMA ProfileAgrees ==
  ASSUME NEW l, NEW m, NEW ps, \A p \in ps : m[p] = l[p]
  PROVE  /\ BinsOf(m, ps) = BinsOf(l, ps)
         /\ CountsOf(m, ps) = CountsOf(l, ps)
         /\ VolumeOf(m, ps) = VolumeOf(l, ps)
         /\ \A k : SumOf(m, ps, k) = SumOf(l, ps, k)
<1>1. BinsOf(m, ps) = BinsOf(l, ps)
  BY DEF BinsOf
<1>2. ASSUME NEW b
      PROVE  /\ Openings(m, ps, b) = Openings(l, ps, b)
             /\ BinVolume(m, ps, b) = BinVolume(l, ps, b)
  <2>1. InBin(m, ps, b) = InBin(l, ps, b)
    BY DEF InBin
  <2>2. PICK S : S = InBin(l, ps, b)
    OBVIOUS
  <2>3. \A p \in S : m[p] = l[p]
    BY <2>2 DEF InBin
  <2>4. Openings(m, ps, b) = Openings(l, ps, b)
    <3>1. \A p \in ps : Opens(m, ps, p) <=> Opens(l, ps, p)
      BY DEF Opens
    <3> QED BY <2>1, <3>1 DEF Openings, InBin
  <2>5. [p \in S |-> m[p].qty] = [p \in S |-> l[p].qty]
    BY <2>3
  <2> QED BY <2>1, <2>2, <2>4, <2>5, Zenon DEF BinVolume
<1>3. CountsOf(m, ps) = CountsOf(l, ps)
  BY <1>1, <1>2, Zenon DEF CountsOf
<1>4. VolumeOf(m, ps) = VolumeOf(l, ps)
  BY <1>1, <1>2, Zenon DEF VolumeOf
<1>5. ASSUME NEW k PROVE SumOf(m, ps, k) = SumOf(l, ps, k)
  <2>1. [p \in ps |-> Moments(m[p])[k]] = [p \in ps |-> Moments(l[p])[k]]
    OBVIOUS
  <2> QED BY <2>1, Zenon DEF SumOf
<1> QED BY <1>1, <1>3, <1>4, <1>5

\* No trades
LEMMA ProfileOfNone ==
  ASSUME NEW l
  PROVE  /\ CountsOf(l, {}) = NoEntries /\ VolumeOf(l, {}) = NoEntries
         /\ \A k : SumOf(l, {}, k) = 0
<1>1. BinsOf(l, {}) = {}
  BY DEF BinsOf
<1>2. ASSUME NEW k PROVE SumOf(l, {}, k) = 0
  <2>1. PICK f : f = [p \in {} |-> Moments(l[p])[k]]
    OBVIOUS
  <2>2. DOMAIN f = {}
    BY <2>1
  <2> QED BY <2>1, <2>2, TotalEmpty DEF SumOf
<1>3. \A f, g : DOMAIN f = {} /\ DOMAIN g = {} /\ f = [x \in {} |-> f[x]] /\ g = [x \in {} |-> g[x]] => f = g
  OBVIOUS
<1>4. CountsOf(l, {}) = NoEntries /\ VolumeOf(l, {}) = NoEntries
  BY <1>1 DEF CountsOf, VolumeOf, NoEntries
<1> QED BY <1>2, <1>4

\* The bins of trades are finitely many numbers.
LEMMA BinsType ==
  ASSUME NEW l, l \in Seq(MarketEvent), NEW ps \in SUBSET Trades(l)
  PROVE  /\ IsFiniteSet(ps) /\ IsFiniteSet(BinsOf(l, ps)) /\ BinsOf(l, ps) \subseteq Nat
         /\ \A p \in ps : l[p] \in Trade /\ l[p].qty \in Nat
         /\ \A b : /\ IsFiniteSet(InBin(l, ps, b)) /\ IsFiniteSet(Openings(l, ps, b))
                   /\ BinVolume(l, ps, b) \in Nat
         /\ \A k \in MomentKeys : SumOf(l, ps, k) \in Nat
<1>1. IsFiniteSet(ps) /\ \A p \in ps : l[p] \in Trade
  BY TradesType
<1>2. \A p \in ps : l[p].price \in Nat /\ l[p].qty \in Nat
  BY <1>1 DEF Trade
<1>3. BinsOf(l, ps) \subseteq Nat
  <2>1. \A p \in ps : BinOf(l[p]) \in Nat
    BY <1>2, Naturals2, ProfileAssumption DEF BinOf
  <2> QED BY <2>1 DEF BinsOf
<1>4. IsFiniteSet(BinsOf(l, ps))
  <2> DEFINE f == [p \in ps |-> BinOf(l[p])]
  <2>1. BinsOf(l, ps) = {f[p] : p \in ps}
    BY DEF BinsOf
  <2> HIDE DEF f
  <2> QED BY <1>1, <2>1, FiniteImage
<1>5. ASSUME NEW b
      PROVE  /\ IsFiniteSet(InBin(l, ps, b)) /\ IsFiniteSet(Openings(l, ps, b))
             /\ BinVolume(l, ps, b) \in Nat
  <2>1. PICK S : S = InBin(l, ps, b)
    OBVIOUS
  <2>2. S \subseteq ps
    BY <2>1 DEF InBin
  <2>3. IsFiniteSet(S)
    BY <1>1, <2>2, FS_Subset
  <2> DEFINE q == [p \in S |-> l[p].qty]
  <2>4. Openings(l, ps, b) \subseteq S
    BY <2>1 DEF Openings
  <2>5. \A p \in S : q[p] \in Nat
    BY <1>2, <2>2
  <2>6. BinVolume(l, ps, b) = Total([p \in S |-> q[p]])
    <3>1. [p \in S |-> l[p].qty] = [p \in S |-> q[p]]
      OBVIOUS
    <3> QED BY <2>1, <3>1, Zenon DEF BinVolume
  <2> HIDE DEF q
  <2>7. IsFiniteSet(Openings(l, ps, b))
    BY <2>3, <2>4, FS_Subset
  <2>8. Total([p \in S |-> q[p]]) \in Nat
    BY <2>3, <2>5, TotalNotNegative
  <2> QED BY <2>1, <2>3, <2>6, <2>7, <2>8
<1>6. ASSUME NEW k \in MomentKeys PROVE SumOf(l, ps, k) \in Nat
  <2> DEFINE v == [p \in ps |-> Moments(l[p])[k]]
  <2>1. \A p \in ps : v[p] \in Nat
    BY <1>1, MomentsType
  <2>2. SumOf(l, ps, k) = Total([p \in ps |-> v[p]])
    <3>1. [p \in ps |-> Moments(l[p])[k]] = [p \in ps |-> v[p]]
      OBVIOUS
    <3> QED BY <3>1, Zenon DEF SumOf
  <2> HIDE DEF v
  <2>3. Total([p \in ps |-> v[p]]) \in Nat
    BY <1>1, <2>1, TotalNotNegative
  <2> QED BY <2>2, <2>3
<1> QED BY <1>1, <1>2, <1>3, <1>4, <1>5, <1>6

\* The last trades of ps, all of interval i
Lately(l, ps, i) == {p \in ps : \A q \in ps : p <= q => IntervalOf(l[q]) = i}

\* A trade after all of ps opens its bin unless the bin traded lately in its
\* interval, and changes nothing for the others.
LEMMA OpeningsGrow ==
  ASSUME NEW l, NEW ps \in SUBSET Nat, NEW n \in Nat, \A p \in ps : p < n, NEW c
  PROVE  Openings(l, ps \cup {n}, c) =
           IF c = BinOf(l[n]) /\ c \notin BinsOf(l, Lately(l, ps, IntervalOf(l[n])))
           THEN Openings(l, ps, c) \cup {n} ELSE Openings(l, ps, c)
<1>1. PICK ns, i : ns = ps \cup {n} /\ i = IntervalOf(l[n])
  OBVIOUS
<1>2. ASSUME NEW p \in ps PROVE Opens(l, ns, p) <=> Opens(l, ps, p)
  <2>1. \A q \in ns : q < p => q \in ps
    BY <1>1
  <2>2. \A q \in ps : q \in ns
    BY <1>1
  <2> QED BY <2>1, <2>2 DEF Opens
<1>3. Opens(l, ns, n) <=> BinOf(l[n]) \notin BinsOf(l, Lately(l, ps, i))
  <2>1. \A q \in ns : q < n <=> q \in ps
    BY <1>1
  <2>2. \A q \in ps : q \in ns
    BY <1>1
  <2>3. Opens(l, ns, n) <=> \A q \in ps : BinOf(l[q]) = BinOf(l[n]) =>
                              \E r \in ps : q <= r /\ IntervalOf(l[r]) # i
    BY <1>1, <2>1, <2>2 DEF Opens
  <2> QED BY <2>3 DEF BinsOf, Lately
<1>4. n \notin ps
  OBVIOUS
<1>5. \A p : p \in Openings(l, ns, c) <=>
        \/ p \in Openings(l, ps, c)
        \/ p = n /\ c = BinOf(l[n]) /\ c \notin BinsOf(l, Lately(l, ps, i))
  BY <1>1, <1>2, <1>3, <1>4, Zenon DEF Openings, InBin
<1> QED BY <1>1, <1>5

\* One trade more adds its quantity, its moments and, if its bin has not traded
\* lately in its interval, a count of its bin.
LEMMA ProfileGrows ==
  ASSUME NEW l, l \in Seq(MarketEvent), NEW ps \in SUBSET Trades(l),
         NEW n \in Trades(l), \A p \in ps : p < n
  PROVE  /\ BinsOf(l, ps \cup {n}) = BinsOf(l, ps) \cup {BinOf(l[n])}
         /\ VolumeOf(l, ps \cup {n}) = Add(VolumeOf(l, ps), BinOf(l[n]), l[n].qty)
         /\ \A k \in MomentKeys : SumOf(l, ps \cup {n}, k) = SumOf(l, ps, k) + Moments(l[n])[k]
         /\ CountsOf(l, ps \cup {n}) =
              IF BinOf(l[n]) \in BinsOf(l, Lately(l, ps, IntervalOf(l[n]))) THEN CountsOf(l, ps)
              ELSE Add(CountsOf(l, ps), BinOf(l[n]), 1)
<1>1. PICK ns, b : ns = ps \cup {n} /\ b = BinOf(l[n])
  OBVIOUS
<1>0. n \notin ps /\ n \in Nat /\ ps \in SUBSET Nat
  BY TradesType
<1>2. ns \in SUBSET Trades(l)
  BY <1>1
<1>3. BinsOf(l, ns) = BinsOf(l, ps) \cup {b}
  BY <1>1 DEF BinsOf
<1>4. \A c : InBin(l, ns, c) = IF c = b THEN InBin(l, ps, c) \cup {n} ELSE InBin(l, ps, c)
  BY <1>1 DEF InBin
<1>5. \A c : BinVolume(l, ns, c) = BinVolume(l, ps, c) + (IF c = b THEN l[n].qty ELSE 0)
  <2> TAKE c
  <2>1. PICK S : S = InBin(l, ps, c)
    OBVIOUS
  <2>2. S \subseteq ps /\ IsFiniteSet(S) /\ BinVolume(l, ps, c) \in Nat
    BY <2>1, BinsType DEF InBin
  <2>3. BinVolume(l, ps, c) = Total([p \in S |-> l[p].qty])
    BY <2>1 DEF BinVolume
  <2>4. CASE c = b
    <3> DEFINE q == [p \in ns |-> l[p].qty]
    <3>1. S \cup {n} \subseteq ns /\ n \notin S
      BY <1>0, <1>1, <2>2
    <3>2. \A p \in ns : q[p] = l[p].qty /\ q[p] \in Nat
      BY <1>2, BinsType
    <3>3. IntegerOn(S \cup {n}, q)
      BY <3>1, <3>2 DEF IntegerOn
    <3>4. [p \in S |-> l[p].qty] = [p \in S |-> q[p]]
          /\ [p \in S \cup {n} |-> l[p].qty] = [p \in S \cup {n} |-> q[p]]
      BY <3>1, <3>2
    <3>5. BinVolume(l, ns, c) = Total([p \in S \cup {n} |-> l[p].qty])
      BY <1>4, <2>1, <2>4 DEF BinVolume
    <3>6. q[n] = l[n].qty /\ q[n] \in Nat
      BY <1>1, <3>2
    <3> HIDE DEF q
    <3>7. Splits(S, n, q)
      BY <2>2, <3>1, <3>3, TotalSplits
    <3>8. BinVolume(l, ns, c) = q[n] + BinVolume(l, ps, c)
      BY <2>3, <3>4, <3>5, <3>7, Zenon DEF Splits
    <3> QED BY <2>2, <2>4, <3>6, <3>8
  <2>5. CASE c # b
    <3>1. BinVolume(l, ns, c) = BinVolume(l, ps, c)
      BY <1>4, <2>5 DEF BinVolume
    <3> QED BY <2>2, <2>5, <3>1
  <2> QED BY <2>4, <2>5
<1>6. \A c : c \notin BinsOf(l, ps) => /\ BinVolume(l, ps, c) = 0
                                       /\ Openings(l, ps, c) = {}
  <2> SUFFICES ASSUME NEW c, c \notin BinsOf(l, ps)
               PROVE  BinVolume(l, ps, c) = 0 /\ Openings(l, ps, c) = {}
    OBVIOUS
  <2>1. InBin(l, ps, c) = {}
    BY DEF InBin, BinsOf
  <2>2. PICK f : f = [p \in InBin(l, ps, c) |-> l[p].qty]
    OBVIOUS
  <2>3. DOMAIN f = {}
    BY <2>1, <2>2
  <2> QED BY <2>1, <2>2, <2>3, TotalEmpty DEF BinVolume, Openings
<1>7. VolumeOf(l, ns) = Add(VolumeOf(l, ps), b, l[n].qty)
  <2>1. PICK v : v = VolumeOf(l, ps)
    OBVIOUS
  <2>2. DOMAIN v = BinsOf(l, ps) /\ \A c \in BinsOf(l, ps) : v[c] = BinVolume(l, ps, c)
    BY <2>1 DEF VolumeOf
  <2>3. \A c \in BinsOf(l, ns) :
          BinVolume(l, ns, c) = (IF c \in DOMAIN v THEN v[c] ELSE 0)
                                  + (IF c = b THEN l[n].qty ELSE 0)
    BY <1>5, <1>6, <2>2
  <2>4. VolumeOf(l, ns) = Add(v, b, l[n].qty)
    BY <1>3, <2>2, <2>3, Zenon DEF VolumeOf, Add
  <2> QED BY <2>1, <2>4
<1>8. ASSUME NEW k \in MomentKeys
      PROVE  SumOf(l, ns, k) = SumOf(l, ps, k) + Moments(l[n])[k]
  <2> DEFINE q == [p \in ns |-> Moments(l[p])[k]]
  <2>1. \A p \in ns : q[p] = Moments(l[p])[k] /\ q[p] \in Nat
    <3>1. \A p \in ns : l[p] \in Trade
      BY <1>2, BinsType
    <3> QED BY <3>1, MomentsType
  <2>2. IntegerOn(ps \cup {n}, q)
    <3>1. \A p \in ns : q[p] \in Int
      <4> HIDE DEF q
      <4> QED BY <2>1
    <3> HIDE DEF q
    <3> QED BY <1>1, <3>1 DEF IntegerOn
  <2>3. /\ [p \in ps |-> Moments(l[p])[k]] = [p \in ps |-> q[p]]
        /\ [p \in ns |-> Moments(l[p])[k]] = [p \in ps \cup {n} |-> q[p]]
    BY <1>1, <2>1
  <2>4. IsFiniteSet(ps) /\ SumOf(l, ps, k) \in Nat
    BY BinsType
  <2>5. q[n] = Moments(l[n])[k] /\ q[n] \in Nat
    BY <1>1, <2>1
  <2> HIDE DEF q
  <2>6. Splits(ps, n, q)
    BY <1>0, <2>2, <2>4, TotalSplits
  <2>7. SumOf(l, ns, k) = q[n] + SumOf(l, ps, k)
    BY <2>3, <2>6, Zenon DEF Splits, SumOf
  <2>8. q[n] + SumOf(l, ps, k) = SumOf(l, ps, k) + q[n]
    <3>1. \A x, y \in Nat : x + y = y + x
      OBVIOUS
    <3> QED BY <2>4, <2>5, <3>1, Zenon
  <2> QED BY <2>5, <2>7, <2>8, Zenon
<1>9. PICK late : late = BinsOf(l, Lately(l, ps, IntervalOf(l[n])))
  OBVIOUS
<1>14. \A c : Openings(l, ns, c) = IF c = b /\ c \notin late THEN Openings(l, ps, c) \cup {n}
                                  ELSE Openings(l, ps, c)
  <2>1. \A c : Openings(l, ps \cup {n}, c) =
                 IF c = BinOf(l[n]) /\ c \notin BinsOf(l, Lately(l, ps, IntervalOf(l[n])))
                 THEN Openings(l, ps, c) \cup {n} ELSE Openings(l, ps, c)
    BY <1>0, OpeningsGrow
  <2> QED BY <1>1, <1>9, <2>1, Zenon
<1>10. PICK k : k = CountsOf(l, ps)
  OBVIOUS
<1>11. DOMAIN k = BinsOf(l, ps) /\ \A c \in BinsOf(l, ps) : k[c] = Cardinality(Openings(l, ps, c))
  BY <1>10 DEF CountsOf
<1>12. CASE b \in late
  <2>1. \A c : Openings(l, ns, c) = Openings(l, ps, c)
    BY <1>12, <1>14
  <2>2. b \in BinsOf(l, ps)
    BY <1>9, <1>12 DEF BinsOf, Lately
  <2>3. BinsOf(l, ns) = BinsOf(l, ps)
    BY <1>3, <2>2
  <2>4. CountsOf(l, ns) = k
    BY <1>10, <2>1, <2>3, Zenon DEF CountsOf
  <2> QED BY <1>1, <1>3, <1>7, <1>8, <1>9, <1>10, <1>12, <2>4, Zenon
<1>13. CASE b \notin late
  <2>1. \A c \in BinsOf(l, ns) :
          Cardinality(Openings(l, ns, c)) = (IF c \in DOMAIN k THEN k[c] ELSE 0)
                                                 + (IF c = b THEN 1 ELSE 0)
    <3> TAKE c \in BinsOf(l, ns)
    <3>1. PICK I : I = Openings(l, ps, c)
      OBVIOUS
    <3>2. IsFiniteSet(I) /\ Cardinality(I) \in Nat
      BY <3>1, BinsType, FS_CardinalityType
    <3>3. Cardinality(I) = IF c \in DOMAIN k THEN k[c] ELSE 0
      BY <1>6, <1>11, <3>1, FS_EmptySet
    <3>4. CASE c = b
      <4>0. n \notin I
        BY <1>0, <3>1 DEF Openings, InBin
      <4>1. Cardinality(I \cup {n}) = Cardinality(I) + 1
        BY <3>2, <4>0, FS_AddElement
      <4>2. Openings(l, ns, c) = I \cup {n}
        BY <1>13, <1>14, <3>1, <3>4
      <4> QED BY <3>2, <3>3, <3>4, <4>1, <4>2
    <3>5. CASE c # b
      <4>1. Openings(l, ns, c) = I
        BY <1>14, <3>1, <3>5
      <4> QED BY <3>2, <3>3, <3>5, <4>1
    <3> QED BY <3>4, <3>5
  <2>2. CountsOf(l, ns) = Add(k, b, 1)
    BY <1>3, <1>11, <2>1, Zenon DEF CountsOf, Add
  <2> QED BY <1>1, <1>3, <1>7, <1>8, <1>9, <1>10, <1>13, <2>2, Zenon
<1> QED BY <1>12, <1>13

\* The last trades, all of session s
Current(l, s) == Stretch(l, Trades(l), s)

\* mark_npoc_touch
TouchedBy(N, bin) == {[r EXCEPT !.touched = @ \/ r.bin = bin] : r \in N}

\* N is point of control c of session a, touched if it is one of the bins B.
Marked(N, a, c, B) ==
  IF c \in B THEN N = {[session |-> a, bin |-> c, touched |-> TRUE]}
  ELSE N = {[session |-> a, bin |-> c, touched |-> FALSE]}

\* The point of control carried into session s is that of the session before.
CarriedIs(l, s) ==
  LET earlier == Trades(l) \ Current(l, s)
  IN IF earlier = {} THEN npoc = {}
     ELSE \E before, poc :
            /\ before = SessionOf(l[Max(earlier)])
            /\ poc = ArgMax(CountsOf(l, Stretch(l, earlier, before)))
            /\ Marked(npoc, before, poc, BinsOf(l, Current(l, s)))

\* The profile is that of session s, the one of the last trade.
ProfileIs(l, s) ==
  LET last == l[Max(Trades(l))]
  IN /\ s = SessionOf(last) /\ session = s
     /\ sessionTrades = Cardinality(Current(l, s))
     /\ tpoCounts = CountsOf(l, Current(l, s))
     /\ volume = VolumeOf(l, Current(l, s))
     /\ \A k \in MomentKeys : sums[k] = SumOf(l, Current(l, s), k)
     /\ tpoBucket = {IntervalOf(last)}
     /\ tpoBins = BinsOf(l, Lately(l, Current(l, s), IntervalOf(last)))
     /\ CarriedIs(l, s)

ProfileInv ==
  /\ ProfileShape
  /\ sessionTrades > 0 <=> Trades(log) # {}
  /\ Trades(log) = {} => ProfileInit
  /\ Trades(log) # {} => \E s : ProfileIs(log, s)

\* Between two times of the same interval lie only times of that interval.
LEMMA SameFloor ==
  ASSUME NEW a \in Nat, NEW b \in Nat, NEW c \in Nat, a <= b, b <= c, NEW k \in Nat \ {0},
         FloorTo(a, k) = FloorTo(c, k)
  PROVE  FloorTo(b, k) = FloorTo(c, k)
<1>1. FloorTo(a, k) \in Nat /\ FloorTo(a, k) <= a
  BY FloorBounds
<1>2. FloorTo(c, k) <= b
  BY <1>1
<1> QED BY <1>2, FloorSame

\* A touch marks the carried point of control if it is in that bin.
LEMMA Touches ==
  ASSUME NEW a, NEW c, NEW B, NEW bin, NEW N, Marked(N, a, c, B)
  PROVE  Marked(TouchedBy(N, bin), a, c, B \cup {bin})
<1> DEFINE M(t) == [session |-> a, bin |-> c, touched |-> t]
<1>1. \A t : M(t).bin = c /\ M(t).touched = t /\ \A u : [M(t) EXCEPT !.touched = u] = M(u)
  OBVIOUS
<1>2. N = {M(TRUE)} \/ N = {M(FALSE)}
  BY DEF Marked
<1> HIDE DEF M
<1>3. ASSUME NEW t, N = {M(t)}
      PROVE  TouchedBy(N, bin) = {[M(t) EXCEPT !.touched = t \/ c = bin]}
  <2>1. PICK x : x = M(t)
    OBVIOUS
  <2>2. TouchedBy(N, bin) = {[x EXCEPT !.touched = x.touched \/ x.bin = bin]}
    BY <1>3, <2>1, Zenon DEF TouchedBy
  <2>3. x.touched = t /\ x.bin = c
    BY <1>1, <2>1, Zenon
  <2> QED BY <2>1, <2>2, <2>3, Zenon
<1>4. ASSUME c = bin PROVE TouchedBy(N, bin) = {M(TRUE)}
  <2>1. (TRUE \/ c = bin) = TRUE /\ (FALSE \/ c = bin) = TRUE
    BY <1>4
  <2> QED BY <1>1, <1>2, <1>3, <2>1, Zenon
<1>5. ASSUME c # bin PROVE TouchedBy(N, bin) = N
  <2>1. (TRUE \/ c = bin) = TRUE /\ (FALSE \/ c = bin) = FALSE
    BY <1>5
  <2> QED BY <1>1, <1>2, <1>3, <2>1, Zenon
<1>6. c \in B \cup {bin} <=> (c \in B \/ c = bin)
  OBVIOUS
<1>7. CASE c = bin
  BY <1>4, <1>6, <1>7, Zenon DEF Marked, M
<1>8. CASE c # bin
  BY <1>5, <1>6, <1>8, Zenon DEF Marked, M
<1> QED BY <1>7, <1>8

\* A trade goes on with the current session, or starts another one.
LEMMA ProfileStep ==
  ASSUME LogInv, LogInv', ProfileInv, NEW e, NEW n, Takes(e, n), e.kind = "trade",
         ObserveProfile(e)
  PROVE  ProfileIs(log, SessionOf(e))'
<1> DEFINE fresh == sessionTrades = 0 \/ SessionOf(e) # session
<1>1. PICK l, start, bin, at :
        l = log' /\ start = SessionOf(e) /\ bin = BinOf(e) /\ at = IntervalOf(e)
  OBVIOUS
<1>2. /\ Trades(l) = Trades(log) \cup {n} /\ n \in Nat /\ e \in Trade /\ l[n] = e
      /\ \A p \in Trades(log) : p \in Nat /\ p < n /\ l[p] = log[p]
      /\ n \notin Trades(log)
  <2>1. /\ Trades(log') = Trades(log) \cup {n} /\ n \in Nat /\ e \in Trade /\ log'[n] = e
        /\ \A p \in Trades(log) : p \in Nat /\ p < n /\ log'[p] = log[p]
    BY TradesStep
  <2> QED BY <1>1, <2>1
<1>3. log \in Seq(MarketEvent) /\ l \in Seq(MarketEvent)
  BY <1>1 DEF LogInv
<1>4. Max(Trades(l)) = n
  <2>1. PICK m : m = Max(Trades(l))
    OBVIOUS
  <2>2. m \in Trades(l) /\ n <= m
    BY <1>2, <1>3, <2>1, TradesType
  <2> QED BY <1>2, <2>1, <2>2
<1>5. /\ start = FloorTo(e.ts, Session) /\ at = FloorTo(e.ts, TpoInterval)
      /\ bin = e.price \div PriceBin /\ e.ts \in Nat
      /\ Session \in Nat \ {0} /\ TpoInterval \in Nat \ {0}
  BY <1>1, <1>2, ProfileAssumption DEF SessionOf, IntervalOf, BinOf, Trade
<1>6. /\ sessionTrades \in Nat /\ (sessionTrades > 0 <=> Trades(log) # {})
  BY DEF ProfileInv, ProfileShape, ProfileTypeOK
\* The state before the trade, when there are trades
<1>8. ASSUME Trades(log) # {}
      PROVE  \E m : /\ m = Max(Trades(log)) /\ m \in Trades(log)
                    /\ ProfileIs(log, session) /\ session = SessionOf(l[m])
                    /\ \A p \in Trades(log) : p <= m
  <2>1. PICK s : ProfileIs(log, s)
    BY <1>8 DEF ProfileInv
  <2>2. PICK m : m = Max(Trades(log)) /\ m \in Trades(log) /\ \A p \in Trades(log) : p <= m
    BY <1>3, <1>8, TradesType
  <2>3. s = SessionOf(log[m]) /\ session = s
    BY <2>1, <2>2 DEF ProfileIs
  <2> QED BY <1>2, <2>1, <2>2, <2>3
\* The trades of the session before this one, none when it starts it
<1>9. PICK cur : cur = IF fresh THEN {} ELSE Current(log, session)
  OBVIOUS
<1>10. cur \subseteq Trades(log) /\ cur \in SUBSET Trades(l) /\ n \notin cur
       /\ \A p \in cur : l[p] = log[p] /\ p < n
  BY <1>2, <1>9 DEF Current, Stretch
<1>11. Current(l, start) = cur \cup {n}
  <2>1. SessionOf(l[n]) = start
    BY <1>1, <1>2
  <2>2. ASSUME NEW p \in Trades(log)
        PROVE  p \in Current(l, start) <=>
                 \A q \in Trades(log) : p <= q => SessionOf(log[q]) = start
    <3>1. p \in Trades(l) /\ \A q \in Trades(l) : q \in Trades(log) \/ q = n
      BY <1>2
    <3>2. \A q \in Trades(log) : q \in Trades(l) /\ l[q] = log[q]
      BY <1>2
    <3>3. p \in Current(l, start) <=> \A q \in Trades(l) : p <= q => SessionOf(l[q]) = start
      BY <3>1 DEF Current, Stretch
    <3>4. ASSUME \A q \in Trades(log) : p <= q => SessionOf(log[q]) = start, NEW q \in Trades(l), p <= q
          PROVE  SessionOf(l[q]) = start
      <4>1. CASE q = n
        BY <2>1, <4>1
      <4>2. CASE q # n
        <5>1. q \in Trades(log)
          BY <3>1, <4>2
        <5>2. l[q] = log[q]
          BY <3>2, <5>1
        <5> QED BY <3>4, <5>1, <5>2
      <4> QED BY <4>1, <4>2
    <3>5. ASSUME \A q \in Trades(l) : p <= q => SessionOf(l[q]) = start, NEW q \in Trades(log), p <= q
          PROVE  SessionOf(log[q]) = start
      BY <3>2, <3>5
    <3> QED BY <3>3, <3>4, <3>5, Zenon
  <2>3. \A p \in Trades(log) : p \in Current(l, start) <=> p \in cur
    <3>1. CASE Trades(log) = {}
      BY <3>1
    <3>2. CASE Trades(log) # {} /\ start = session
      <4>1. cur = Current(log, session)
        BY <1>1, <1>6, <1>9, <3>2
      <4> QED BY <2>2, <3>2, <4>1 DEF Current, Stretch
    <3>3. CASE Trades(log) # {} /\ start # session
      <4>1. cur = {}
        BY <1>1, <1>9, <3>3
      <4>2. PICK m : /\ m \in Trades(log) /\ session = SessionOf(l[m])
                     /\ \A p \in Trades(log) : p <= m
        BY <1>8, <3>3
      <4>3. \A p \in Trades(log) : p <= m /\ SessionOf(log[m]) # start
        BY <1>2, <3>3, <4>2
      <4> QED BY <2>2, <4>1, <4>2, <4>3
    <3> QED BY <3>1, <3>2, <3>3
  <2>4. n \in Current(l, start)
    <3>1. \A q \in Trades(l) : n <= q => q = n
      BY <1>2
    <3> QED BY <1>2, <2>1, <3>1 DEF Current, Stretch
  <2>5. Current(l, start) \subseteq Trades(log) \cup {n}
    BY <1>2 DEF Current, Stretch
  <2> QED BY <1>10, <2>3, <2>4, <2>5
\* The profile the trade is added to is that of cur.
<1> DEFINE oldCounts == IF fresh THEN NoEntries ELSE tpoCounts
           oldVolume == IF fresh THEN NoEntries ELSE volume
           oldSums == IF fresh THEN NoSums ELSE sums
           oldTrades == IF fresh THEN 0 ELSE sessionTrades
           oldBucket == IF fresh THEN {} ELSE tpoBucket
           oldBins == IF fresh THEN {} ELSE tpoBins
           seen == IF oldBucket = {at} THEN oldBins ELSE {}
           carried == IF sessionTrades > 0 /\ start # session THEN Carry ELSE npoc
<1>12. /\ session' = start
       /\ sessionTrades' = oldTrades + 1
       /\ tpoBucket' = {at}
       /\ tpoBins' = seen \cup {bin}
       /\ tpoCounts' = IF bin \in seen THEN oldCounts ELSE Add(oldCounts, bin, 1)
       /\ volume' = Add(oldVolume, bin, e.qty)
       /\ sums' = [qty |-> oldSums.qty + e.qty, pq |-> oldSums.pq + e.price * e.qty,
                    p2q |-> oldSums.p2q + e.price * e.price * e.qty]
       /\ npoc' = TouchedBy(carried, bin)
  <2>1. CASE sessionTrades = 0
    <3>1. ProfileInit
      BY <1>6, <2>1 DEF ProfileInv
    <3>2. /\ tpoCounts = NoEntries /\ volume = NoEntries /\ sums = NoSums
          /\ tpoBucket = {} /\ tpoBins = {}
      BY <3>1 DEF ProfileInit
    <3>3. ~(sessionTrades > 0 /\ FloorTo(e.ts, Session) # session)
      BY <2>1
    <3> QED BY <1>1, <1>5, <2>1, <3>2, <3>3 DEF ObserveProfile, ObserveTpo, TouchedBy
  <2>2. CASE sessionTrades # 0
    <3>1. sessionTrades > 0 /\ (fresh <=> start # session)
      BY <1>1, <1>6, <2>2
    <3> QED BY <1>1, <1>5, <2>2, <3>1 DEF ObserveProfile, ObserveTpo, TouchedBy
  <2> QED BY <2>1, <2>2
<1>13. /\ oldCounts = CountsOf(l, cur) /\ oldVolume = VolumeOf(l, cur)
       /\ (\A k \in MomentKeys : oldSums[k] = SumOf(l, cur, k)) /\ oldTrades = Cardinality(cur)
  <2>1. CASE fresh
    <3>1. cur = {} /\ (\A k \in MomentKeys : NoSums[k] = 0) /\ Cardinality({}) = 0
      BY <1>2, <1>9, <2>1, FS_EmptySet, MomentsType
    <3> QED BY <2>1, <3>1, ProfileOfNone
  <2>2. CASE ~fresh
    <3>1. Trades(log) # {} /\ cur = Current(log, session)
      BY <1>6, <1>9, <2>2
    <3>2. ProfileIs(log, session)
      BY <1>8, <3>1
    <3>3. /\ CountsOf(l, cur) = CountsOf(log, cur) /\ VolumeOf(l, cur) = VolumeOf(log, cur)
          /\ \A k : SumOf(l, cur, k) = SumOf(log, cur, k)
      BY <1>10, ProfileAgrees
    <3> QED BY <2>2, <3>1, <3>2, <3>3 DEF ProfileIs
  <2> QED BY <2>1, <2>2
<1>14. seen = BinsOf(l, Lately(l, cur, at))
  <2>1. CASE fresh
    BY <1>9, <2>1 DEF BinsOf, Lately
  <2>2. CASE ~fresh
    <3>1. Trades(log) # {} /\ cur = Current(log, session)
      BY <1>6, <1>9, <2>2
    <3>2. PICK m : /\ m = Max(Trades(log)) /\ m \in Trades(log)
                   /\ ProfileIs(log, session) /\ session = SessionOf(l[m])
                   /\ \A p \in Trades(log) : p <= m
      BY <1>8, <3>1
    <3>3. l[m] = log[m] /\ m \in cur /\ \A p \in cur : p <= m
      <4>1. \A p \in Trades(log) : m \in Nat /\ p \in Nat /\ p <= m
        BY <1>2, <3>2
      <4>2. \A p \in Trades(log) : m <= p => p = m
        BY <4>1
      <4> QED BY <1>2, <1>10, <3>1, <3>2, <4>2 DEF Current, Stretch
    <3>4. /\ tpoBucket = {IntervalOf(l[m])}
          /\ tpoBins = BinsOf(log, Lately(log, cur, IntervalOf(l[m])))
      BY <3>1, <3>2, <3>3 DEF ProfileIs
    <3>5. CASE IntervalOf(l[m]) = at
      <4>1. seen = BinsOf(log, Lately(log, cur, at))
        BY <2>2, <3>4, <3>5
      <4>2. Lately(log, cur, at) = Lately(l, cur, at)
        BY <1>10 DEF Lately
      <4>3. BinsOf(log, Lately(l, cur, at)) = BinsOf(l, Lately(l, cur, at))
        BY <1>10 DEF BinsOf, Lately
      <4> HIDE DEF seen
      <4> QED BY <4>1, <4>2, <4>3
    <3>6. CASE IntervalOf(l[m]) # at
      <4>1. seen = {}
        BY <2>2, <3>4, <3>6
      <4>2. Lately(l, cur, at) = {}
        BY <3>3, <3>6 DEF Lately
      <4> HIDE DEF seen
      <4> QED BY <4>1, <4>2 DEF BinsOf
    <3> QED BY <3>5, <3>6
  <2> QED BY <2>1, <2>2
<1> HIDE DEF seen, oldCounts, oldVolume, oldSums, oldTrades, oldBucket, oldBins, carried
<1>16. /\ l[n] = e /\ BinOf(l[n]) = bin /\ IntervalOf(l[n]) = at /\ n \in Trades(l)
  BY <1>1, <1>2
<1>17. /\ VolumeOf(l, cur \cup {n}) = Add(VolumeOf(l, cur), bin, e.qty)
       /\ \A k \in MomentKeys : SumOf(l, cur \cup {n}, k) = SumOf(l, cur, k) + Moments(e)[k]
       /\ CountsOf(l, cur \cup {n}) =
            IF bin \in BinsOf(l, Lately(l, cur, at)) THEN CountsOf(l, cur)
            ELSE Add(CountsOf(l, cur), bin, 1)
       /\ BinsOf(l, cur \cup {n}) = BinsOf(l, cur) \cup {bin}
  <2>1. /\ cur \in SUBSET Trades(l) /\ n \in Trades(l) /\ l \in Seq(MarketEvent)
        /\ \A p \in cur : p < n
    BY <1>3, <1>10, <1>16
  <2>2. /\ BinsOf(l, cur \cup {n}) = BinsOf(l, cur) \cup {BinOf(l[n])}
        /\ VolumeOf(l, cur \cup {n}) = Add(VolumeOf(l, cur), BinOf(l[n]), l[n].qty)
        /\ \A k \in MomentKeys : SumOf(l, cur \cup {n}, k) = SumOf(l, cur, k) + Moments(l[n])[k]
        /\ CountsOf(l, cur \cup {n}) =
             IF BinOf(l[n]) \in BinsOf(l, Lately(l, cur, IntervalOf(l[n]))) THEN CountsOf(l, cur)
             ELSE Add(CountsOf(l, cur), BinOf(l[n]), 1)
    BY <2>1, ProfileGrows
  <2> QED BY <1>16, <2>2, Zenon
<1>18. /\ tpoCounts' = CountsOf(l, Current(l, start))
       /\ volume' = VolumeOf(l, Current(l, start))
       /\ \A k \in MomentKeys : sums'[k] = SumOf(l, Current(l, start), k)
  <2>1. \A k \in MomentKeys : sums'[k] = oldSums[k] + Moments(e)[k]
    <3>1. MomentKeys = {"qty", "pq", "p2q"}
      BY <1>2, MomentsType
    <3>2. PICK a, b, c : a = e.qty /\ b = e.price * e.qty /\ c = e.price * e.price * e.qty
      OBVIOUS
    <3>3. sums' = [qty |-> oldSums.qty + a, pq |-> oldSums.pq + b, p2q |-> oldSums.p2q + c]
      BY <1>12, <3>2, Zenon
    <3>4. Moments(e).qty = a /\ Moments(e).pq = b /\ Moments(e).p2q = c
      BY <1>2, <3>2, MomentsType
    <3> QED BY <3>1, <3>3, <3>4
  <2>2. \A k \in MomentKeys : sums'[k] = SumOf(l, cur, k) + Moments(e)[k]
    BY <1>13, <2>1, Zenon
  <2> QED BY <1>11, <1>12, <1>13, <1>14, <1>17, <2>2, Zenon
<1>19. sessionTrades' = Cardinality(Current(l, start))
  <2>1. IsFiniteSet(cur)
    BY <1>3, <1>10, BinsType
  <2>2. Cardinality(cur \cup {n}) = Cardinality(cur) + 1
    BY <1>10, <2>1, FS_AddElement
  <2> QED BY <1>11, <1>12, <1>13, <2>2, Zenon
<1>20. tpoBins' = BinsOf(l, Lately(l, Current(l, start), at))
  <2>1. Lately(l, cur \cup {n}, at) = Lately(l, cur, at) \cup {n}
    <3>1. \A p \in cur : p \in Nat /\ p < n /\ ~(n <= p)
      BY <1>2, <1>10
    <3> QED BY <1>16, <3>1 DEF Lately
  <2>2. BinsOf(l, Lately(l, cur, at) \cup {n}) = BinsOf(l, Lately(l, cur, at)) \cup {bin}
    BY <1>16 DEF BinsOf
  <2> QED BY <1>11, <1>12, <1>14, <2>1, <2>2, Zenon
<1>21. ASSUME NEW E \in SUBSET Trades(log), NEW s
       PROVE  CountsOf(l, Stretch(l, E, s)) = CountsOf(log, Stretch(log, E, s))
  <2>1. \A p \in E : l[p] = log[p]
    BY <1>2
  <2>2. Stretch(l, E, s) = Stretch(log, E, s)
    BY <2>1 DEF Stretch
  <2>3. \A p \in Stretch(log, E, s) : l[p] = log[p]
    BY <2>1 DEF Stretch
  <2> QED BY <2>2, <2>3, ProfileAgrees
<1>22. ASSUME NEW before, NEW poc,
              before = SessionOf(l[Max(Trades(l) \ Current(l, start))]),
              poc = ArgMax(CountsOf(l, Stretch(l, Trades(l) \ Current(l, start), before))),
              Marked(carried, before, poc, BinsOf(l, cur))
       PROVE  \E b, c :
                /\ b = SessionOf(l[Max(Trades(l) \ Current(l, start))])
                /\ c = ArgMax(CountsOf(l, Stretch(l, Trades(l) \ Current(l, start), b)))
                /\ Marked(npoc', b, c, BinsOf(l, Current(l, start)))
  <2>1. PICK N, B : N = carried /\ B = BinsOf(l, cur)
    OBVIOUS
  <2>2. Marked(TouchedBy(N, bin), before, poc, B \cup {bin})
    BY <1>22, <2>1, Touches, Zenon
  <2>3. BinsOf(l, Current(l, start)) = B \cup {bin} /\ npoc' = TouchedBy(N, bin)
    BY <1>11, <1>12, <1>17, <2>1, Zenon
  <2> QED BY <1>22, <2>2, <2>3, Zenon
<1>23. IF Trades(l) \ Current(l, start) = {} THEN npoc' = {}
       ELSE \E b, c :
              /\ b = SessionOf(l[Max(Trades(l) \ Current(l, start))])
              /\ c = ArgMax(CountsOf(l, Stretch(l, Trades(l) \ Current(l, start), b)))
              /\ Marked(npoc', b, c, BinsOf(l, Current(l, start)))
  <2>1. Trades(l) \ Current(l, start) = Trades(log) \ cur
    BY <1>2, <1>11
  <2>2. CASE Trades(log) = {}
    <3>1. sessionTrades = 0 /\ npoc = {}
      BY <1>6, <2>2 DEF ProfileInv, ProfileInit
    <3>2. carried = {}
      BY <3>1 DEF carried
    <3>3. npoc' = {}
      BY <1>12, <3>2 DEF TouchedBy
    <3> QED BY <2>1, <2>2, <3>3
  <2>3. CASE Trades(log) # {} /\ start # session
    <3>1. PICK m : /\ m = Max(Trades(log)) /\ m \in Trades(log)
                   /\ ProfileIs(log, session) /\ session = SessionOf(l[m])
      BY <1>8, <2>3
    <3>2. cur = {}
      BY <1>1, <1>9, <2>3
    <3>3. Trades(l) \ Current(l, start) = Trades(log)
      BY <2>1, <3>2
    <3>4. CountsOf(l, Stretch(l, Trades(log), session)) = tpoCounts
      BY <1>21, <3>1 DEF ProfileIs, Current
    <3>5. carried = {[session |-> session, bin |-> ArgMax(tpoCounts), touched |-> FALSE]}
      BY <1>6, <2>3 DEF carried, Carry
    <3>6. PICK b, c : b = session /\ c = ArgMax(tpoCounts)
      OBVIOUS
    <3>7. Marked(carried, b, c, BinsOf(l, cur))
      <4>1. c \notin BinsOf(l, cur)
        BY <3>2 DEF BinsOf
      <4>2. carried = {[session |-> b, bin |-> c, touched |-> FALSE]}
        BY <3>5, <3>6, Zenon
      <4> QED BY <4>1, <4>2, Zenon DEF Marked
    <3>8. /\ b = SessionOf(l[Max(Trades(l) \ Current(l, start))])
          /\ c = ArgMax(CountsOf(l, Stretch(l, Trades(l) \ Current(l, start), b)))
      BY <3>1, <3>3, <3>4, <3>6, Zenon
    <3> QED BY <1>22, <2>1, <2>3, <3>2, <3>7, <3>8, Zenon
  <2>4. CASE Trades(log) # {} /\ start = session
    <3>1. ProfileIs(log, session) /\ cur = Current(log, session)
      BY <1>1, <1>6, <1>8, <1>9, <2>4
    <3>2. carried = npoc /\ CarriedIs(log, session)
      BY <2>4, <3>1 DEF carried, ProfileIs
    <3>3. CASE Trades(log) \ cur = {}
      <4>1. npoc = {}
        BY <3>1, <3>2, <3>3 DEF CarriedIs
      <4>2. npoc' = {}
        BY <1>12, <3>2, <4>1 DEF TouchedBy
      <4> QED BY <2>1, <3>3, <4>2
    <3>4. CASE Trades(log) \ cur # {}
      <4>1. PICK b, c :
              /\ b = SessionOf(log[Max(Trades(log) \ cur)])
              /\ c = ArgMax(CountsOf(log, Stretch(log, Trades(log) \ cur, b)))
              /\ Marked(npoc, b, c, BinsOf(log, cur))
        BY <3>1, <3>2, <3>4 DEF CarriedIs
      <4>2. PICK m : m = Max(Trades(log) \ cur) /\ m \in Trades(log) /\ m \notin cur
        BY <1>3, <3>4, TradesType
      <4>3. l[m] = log[m] /\ b = SessionOf(log[m])
        BY <1>2, <4>1, <4>2
      <4>5. c = ArgMax(CountsOf(l, Stretch(l, Trades(l) \ Current(l, start), b)))
        BY <1>21, <2>1, <4>1
      <4>6. BinsOf(l, cur) = BinsOf(log, cur)
        BY <1>10, ProfileAgrees
      <4>7. b = SessionOf(l[Max(Trades(l) \ Current(l, start))])
        BY <2>1, <4>2, <4>3
      <4>8. Marked(carried, b, c, BinsOf(l, cur))
        BY <3>2, <4>1, <4>6, Zenon
      <4> QED BY <1>22, <2>1, <3>4, <4>5, <4>7, <4>8, Zenon
    <3> QED BY <3>3, <3>4
  <2> QED BY <2>2, <2>3, <2>4
<1>24. CarriedIs(log, start)'
  BY <1>1, <1>23, Zenon DEF CarriedIs
<1>25. start = SessionOf(l[Max(Trades(l))]) /\ at = IntervalOf(l[Max(Trades(l))])
  BY <1>1, <1>2, <1>4
<1>26. session' = start /\ tpoBucket' = {at}
  BY <1>12
<1>27. ProfileIs(log, start)'
  BY <1>1, <1>18, <1>19, <1>20, <1>24, <1>25, <1>26, Zenon DEF ProfileIs
<1> QED BY <1>1, <1>27, Zenon

\* The engine starts with the empty log.
LEMMA ProfileStart == Init => ProfileInv
<1> SUFFICES ASSUME Init PROVE ProfileInv
  OBVIOUS
<1>1. log = <<>> /\ ProfileInit
  BY DEF Init
<1>2. Trades(log) = {}
  <2>1. DOMAIN <<>> = {}
    OBVIOUS
  <2> QED BY <1>1, <2>1 DEF Trades
<1>3. /\ session = 0 /\ tpoBucket = {} /\ tpoBins = {} /\ tpoCounts = NoEntries
      /\ volume = NoEntries /\ sessionTrades = 0 /\ sums = NoSums /\ npoc = {}
  BY <1>1 DEF ProfileInit
<1>4. DOMAIN NoEntries = {} /\ IsFiniteSet({}) /\ Cardinality({}) = 0
  BY FS_EmptySet DEF NoEntries
<1>5. NoSums \in [qty : Nat, pq : Nat, p2q : Nat]
  BY DEF NoSums
<1>6. ProfileTypeOK
  BY <1>3, <1>4, <1>5 DEF ProfileTypeOK
<1>7. ProfileShape
  BY <1>3, <1>4, <1>6 DEF ProfileShape
<1> QED BY <1>1, <1>2, <1>3, <1>7 DEF ProfileInv

\* Every event keeps the profile that of the log.
LEMMA ProfileKeeps ==
  ASSUME LogInv, LogInv', ProfileInv, NEW e, NEW n, Takes(e, n), ProfileReceives(e)
  PROVE  ProfileInv'
<1>1. CASE e.kind = "trade"
  <2>1. ObserveProfile(e)
    BY <1>1 DEF ProfileReceives
  <2>2. e \in Trade /\ n \in Trades(log')
    BY <1>1, TradesStep
  <2>3. ProfileShape'
    BY <2>1, <2>2, ProfileShapeStep DEF ProfileInv
  <2>4. sessionTrades' > 0
    <3>1. sessionTrades \in Nat
      BY DEF ProfileInv, ProfileShape, ProfileTypeOK
    <3>2. sessionTrades' = sessionTrades + 1 \/ sessionTrades' = 0 + 1
      BY <2>1 DEF ObserveProfile
    <3> QED BY <3>1, <3>2
  <2>5. ProfileIs(log, SessionOf(e))'
    BY <1>1, <2>1, ProfileStep
  <2>6. Trades(log') # {}
    BY <2>2
  <2>7. \E s : ProfileIs(log, s)'
    BY <2>5
  <2> QED BY <2>3, <2>4, <2>6, <2>7 DEF ProfileInv
<1>2. CASE e.kind # "trade"
  <2>1. UNCHANGED profileVars
    BY <1>2 DEF ProfileReceives
  <2>2. /\ session' = session /\ tpoBucket' = tpoBucket /\ tpoBins' = tpoBins
        /\ tpoCounts' = tpoCounts /\ volume' = volume /\ sessionTrades' = sessionTrades
        /\ sums' = sums /\ npoc' = npoc
    BY <2>1 DEF profileVars
  <2>3. PICK l : l = log'
    OBVIOUS
  <2>4. Trades(l) = Trades(log) /\ \A p \in Trades(log) : l[p] = log[p]
    BY <1>2, <2>3, TradesStay
  <2>5. ProfileShape'
    BY <2>2 DEF ProfileInv, ProfileShape, ProfileTypeOK
  <2>6. Trades(l) = {} => ProfileInit'
    BY <2>2, <2>4 DEF ProfileInv, ProfileInit
  <2>7. ASSUME Trades(l) # {} PROVE \E s : ProfileIs(log, s)'
    <3>2. PICK s : ProfileIs(log, s)
      BY <2>4, <2>7 DEF ProfileInv
    <3>3. PICK m : m = Max(Trades(log)) /\ m \in Trades(log)
      <4>1. log \in Seq(MarketEvent) /\ Trades(log) # {}
        BY <2>4, <2>7 DEF LogInv
      <4> QED BY <4>1, TradesType
    <3>4. Max(Trades(l)) = m /\ l[m] = log[m]
      BY <2>4, <3>3
    <3>5. \A t : Current(l, t) = Current(log, t)
      BY <2>4 DEF Current, Stretch
    <3>6. ASSUME NEW ps \in SUBSET Trades(log)
          PROVE  /\ CountsOf(l, ps) = CountsOf(log, ps) /\ VolumeOf(l, ps) = VolumeOf(log, ps)
                 /\ \A k : SumOf(l, ps, k) = SumOf(log, ps, k)
                 /\ BinsOf(l, ps) = BinsOf(log, ps)
                 /\ \A i : Lately(l, ps, i) = Lately(log, ps, i)
                           /\ Lately(log, ps, i) \in SUBSET Trades(log)
                 /\ \A t : Stretch(l, ps, t) = Stretch(log, ps, t)
                           /\ Stretch(log, ps, t) \in SUBSET Trades(log)
      <4>1. \A p \in ps : l[p] = log[p]
        BY <2>4
      <4>2. \A i : Lately(l, ps, i) = Lately(log, ps, i)
                   /\ Lately(log, ps, i) \in SUBSET Trades(log)
        BY <4>1 DEF Lately
      <4>3. \A t : Stretch(l, ps, t) = Stretch(log, ps, t)
                   /\ Stretch(log, ps, t) \in SUBSET Trades(log)
        BY <4>1 DEF Stretch
      <4>4. /\ BinsOf(l, ps) = BinsOf(log, ps) /\ CountsOf(l, ps) = CountsOf(log, ps)
            /\ VolumeOf(l, ps) = VolumeOf(log, ps)
            /\ \A k : SumOf(l, ps, k) = SumOf(log, ps, k)
        BY <4>1, ProfileAgrees
      <4> QED BY <4>2, <4>3, <4>4, Zenon
    <3>7. \A t : Current(log, t) \in SUBSET Trades(log)
      BY DEF Current, Stretch
    <3>8. CarriedIs(log, s)'
      <4>1. CarriedIs(log, s)
        BY <3>2 DEF ProfileIs
      <4>2. CASE Trades(log) \ Current(log, s) = {}
        <5>1. npoc' = {}
          BY <2>2, <4>1, <4>2 DEF CarriedIs
        <5>2. Trades(l) \ Current(l, s) = {}
          BY <2>4, <3>5, <4>2
        <5> QED BY <2>3, <5>1, <5>2, Zenon DEF CarriedIs
      <4>3. CASE Trades(log) \ Current(log, s) # {}
        <5>1. PICK b, c :
                /\ b = SessionOf(log[Max(Trades(log) \ Current(log, s))])
                /\ c = ArgMax(CountsOf(log, Stretch(log, Trades(log) \ Current(log, s), b)))
                /\ Marked(npoc, b, c, BinsOf(log, Current(log, s)))
          BY <4>1, <4>3 DEF CarriedIs
        <5>2. PICK k : k = Max(Trades(log) \ Current(log, s)) /\ k \in Trades(log)
          <6>1. log \in Seq(MarketEvent) /\ Trades(log) \ Current(log, s) \in SUBSET Trades(log)
            BY DEF LogInv
          <6> QED BY <4>3, <6>1, TradesType
        <5>3. Max(Trades(l) \ Current(l, s)) = k /\ l[k] = log[k]
          BY <2>4, <3>5, <5>2
        <5>4. b = SessionOf(l[Max(Trades(l) \ Current(l, s))])
          BY <5>1, <5>2, <5>3
        <5>5. c = ArgMax(CountsOf(l, Stretch(l, Trades(l) \ Current(l, s), b)))
          <6>1. PICK E : E = Trades(log) \ Current(log, s)
            OBVIOUS
          <6>2. E \in SUBSET Trades(log) /\ Trades(l) \ Current(l, s) = E
            BY <2>4, <3>5, <6>1
          <6>3. CountsOf(l, Stretch(l, E, b)) = CountsOf(log, Stretch(log, E, b))
            BY <3>6, <6>2
          <6> QED BY <5>1, <6>1, <6>2, <6>3, Zenon
        <5>6. BinsOf(l, Current(l, s)) = BinsOf(log, Current(log, s))
          BY <3>5, <3>6, <3>7
        <5>7. Marked(npoc', b, c, BinsOf(l, Current(l, s)))
          BY <2>2, <5>1, <5>6, Zenon
        <5>8. Trades(l) \ Current(l, s) # {}
          BY <2>4, <3>5, <4>3
        <5> QED BY <2>3, <5>4, <5>5, <5>7, <5>8, Zenon DEF CarriedIs
      <4> QED BY <4>2, <4>3
    <3>9. /\ s = SessionOf(l[Max(Trades(l))]) /\ session' = s
          /\ sessionTrades' = Cardinality(Current(l, s))
          /\ tpoBucket' = {IntervalOf(l[Max(Trades(l))])}
      BY <2>2, <3>2, <3>3, <3>4, <3>5 DEF ProfileIs
    <3>10. /\ tpoCounts' = CountsOf(l, Current(l, s))
           /\ volume' = VolumeOf(l, Current(l, s))
           /\ \A k \in MomentKeys : sums'[k] = SumOf(l, Current(l, s), k)
      BY <2>2, <3>2, <3>5, <3>6, <3>7 DEF ProfileIs
    <3>11. tpoBins' = BinsOf(l, Lately(l, Current(l, s), IntervalOf(l[Max(Trades(l))])))
      <4>1. PICK i : i = IntervalOf(log[m])
        OBVIOUS
      <4>2. tpoBins = BinsOf(log, Lately(log, Current(log, s), i))
        BY <3>2, <3>3, <4>1 DEF ProfileIs
      <4>3. Lately(l, Current(l, s), i) = Lately(log, Current(log, s), i)
            /\ Lately(log, Current(log, s), i) \in SUBSET Trades(log)
        BY <3>5, <3>6, <3>7
      <4>4. BinsOf(l, Lately(l, Current(l, s), i)) = tpoBins
        BY <3>6, <4>2, <4>3
      <4> QED BY <2>2, <3>4, <4>1, <4>4
    <3>12. ProfileIs(log, s)'
      BY <2>3, <3>8, <3>9, <3>10, <3>11, Zenon DEF ProfileIs
    <3> QED BY <3>12
  <2>8. sessionTrades' > 0 <=> Trades(l) # {}
    BY <2>2, <2>4 DEF ProfileInv
  <2> QED BY <2>3, <2>5, <2>6, <2>7, <2>8, Zenon DEF ProfileInv
<1> QED BY <1>1, <1>2

\* In order, a bin opens once for each interval in which it trades.
LEMMA OpeningsInOrder ==
  ASSUME NEW l, l \in Seq(MarketEvent), InOrder(l), NEW ps \in SUBSET Trades(l), NEW b
  PROVE  Cardinality(Openings(l, ps, b)) = Cardinality(IntervalsOf(l, ps, b))
<1>1. PICK O, I : O = Openings(l, ps, b) /\ I = IntervalsOf(l, ps, b)
  OBVIOUS
<1>2. /\ IsFiniteSet(O) /\ O \subseteq InBin(l, ps, b) /\ InBin(l, ps, b) \subseteq ps
      /\ IsFiniteSet(InBin(l, ps, b))
  BY <1>1, BinsType DEF Openings, InBin
<1>3. \A p \in ps : p \in Nat /\ p \in DOMAIN l /\ l[p].ts \in Nat /\ p \in Trades(l)
  BY TradesType
<1>4. TpoInterval \in Nat \ {0}
  BY ProfileAssumption
<1> DEFINE f == [p \in O |-> IntervalOf(l[p])]
<1>5. ASSUME NEW p \in O, NEW q \in O, p < q PROVE f[p] # f[q]
  <2>1. /\ p \in ps /\ q \in ps /\ BinOf(l[p]) = BinOf(l[q]) /\ Opens(l, ps, q)
    BY <1>1 DEF Openings, InBin
  <2>2. PICK r \in ps : p <= r /\ r < q /\ IntervalOf(l[r]) # IntervalOf(l[q])
    BY <1>5, <2>1 DEF Opens
  <2>3. PICK x \in Nat, y \in Nat, z \in Nat : x = l[p].ts /\ y = l[r].ts /\ z = l[q].ts
    BY <1>3, <2>1
  <2>4. x <= y /\ y <= z
    <3>1. r <= q
      BY <1>3, <2>1, <2>2
    <3> QED BY <1>3, <2>1, <2>2, <2>3, <3>1 DEF InOrder
  <2>5. FloorTo(x, TpoInterval) # FloorTo(z, TpoInterval)
    <3>1. FloorTo(y, TpoInterval) # FloorTo(z, TpoInterval)
      BY <2>2, <2>3 DEF IntervalOf
    <3> QED BY <1>4, <2>4, <3>1, SameFloor
  <2> QED BY <2>3, <2>5 DEF IntervalOf
<1>6. ASSUME NEW i \in I PROVE \E p \in O : f[p] = i
  <2> DEFINE S == {p \in InBin(l, ps, b) : IntervalOf(l[p]) = i}
  <2>1. S # {} /\ S \subseteq InBin(l, ps, b)
    BY <1>1, <1>6 DEF IntervalsOf
  <2>2. IsFiniteSet(S) /\ S \subseteq Int
    <3>1. \A p \in InBin(l, ps, b) : p \in Int
      BY <1>2, <1>3
    <3> HIDE DEF S
    <3> QED BY <1>2, <2>1, <3>1, FS_Subset
  <2>3. PICK m : m \in S /\ \A q \in S : m <= q
    <3> HIDE DEF S
    <3> QED BY <2>1, <2>2, LeastOfAll
  <2>4. m \in InBin(l, ps, b) /\ IntervalOf(l[m]) = i /\ m \in ps /\ BinOf(l[m]) = b
    BY <2>3 DEF InBin
  <2>5. ASSUME NEW q \in ps, q < m, BinOf(l[q]) = b
        PROVE  IntervalOf(l[q]) # i /\ q <= q
    <3>1. q \notin S /\ q \in InBin(l, ps, b)
      <4>1. ~(m <= q)
        BY <1>3, <2>4, <2>5
      <4>2. q \in InBin(l, ps, b)
        BY <2>5 DEF InBin
      <4> QED BY <2>3, <4>1, <4>2
    <3>2. q <= q
      BY <1>3
    <3> QED BY <3>1, <3>2
  <2>6. Opens(l, ps, m)
    BY <2>4, <2>5 DEF Opens
  <2>7. m \in O
    BY <1>1, <2>4, <2>6 DEF Openings
  <2> QED BY <2>4, <2>7
<1>7. f \in Bijection(O, I)
  <2>1. \A p \in O : f[p] \in I
    BY <1>1, <1>2 DEF IntervalsOf
  <2>2. \A p, q \in O : f[p] = f[q] => p = q
    <3> SUFFICES ASSUME NEW p \in O, NEW q \in O, f[p] = f[q], p # q PROVE FALSE
      OBVIOUS
    <3>1. p \in Nat /\ q \in Nat
      BY <1>2, <1>3
    <3>2. p < q \/ q < p
      BY <3>1
    <3> HIDE DEF f
    <3> QED BY <1>5, <3>2
  <2>3. f \in [O -> I]
    <3>1. f = [p \in O |-> f[p]]
      OBVIOUS
    <3> HIDE DEF f
    <3> QED BY <2>1, <3>1
  <2> HIDE DEF f
  <2> QED BY <1>6, <2>2, <2>3 DEF Bijection, Injection, Surjection, IsInjective
<1>8. ExistsBijection(O, I)
  <2> HIDE DEF f
  <2> QED BY <1>7 DEF ExistsBijection
<1> QED BY <1>1, <1>2, <1>8, FS_Bijection

\* In order, the current trades are all of their session.
LEMMA CurrentInOrder ==
  ASSUME NEW l, l \in Seq(MarketEvent), InOrder(l), Trades(l) # {},
         NEW s, s = SessionOf(l[Max(Trades(l))])
  PROVE  Current(l, s) = {p \in Trades(l) : SessionOf(l[p]) = s}
<1>1. PICK m : m = Max(Trades(l)) /\ m \in Trades(l) /\ \A p \in Trades(l) : p <= m
  BY TradesType
<1>2. \A p \in Trades(l) : p \in Nat /\ p \in DOMAIN l /\ l[p].ts \in Nat
  BY TradesType
<1>3. Session \in Nat \ {0}
  BY ProfileAssumption
<1>4. ASSUME NEW p \in Trades(l), NEW q \in Trades(l), p <= q, SessionOf(l[p]) = s
      PROVE  SessionOf(l[q]) = s
  <2>1. PICK x \in Nat, y \in Nat, z \in Nat : x = l[p].ts /\ y = l[q].ts /\ z = l[m].ts
    BY <1>1, <1>2
  <2>2. x <= y /\ y <= z
    BY <1>1, <1>2, <1>4, <2>1 DEF InOrder
  <2>3. FloorTo(x, Session) = s /\ s = FloorTo(z, Session)
    BY <1>1, <1>4, <2>1 DEF SessionOf
  <2>4. FloorTo(y, Session) = FloorTo(z, Session)
    BY <1>3, <2>2, <2>3, SameFloor
  <2> QED BY <2>1, <2>3, <2>4 DEF SessionOf
<1>5. \A p \in Trades(l) : p <= p
  BY <1>2
<1> QED BY <1>4, <1>5, Zenon DEF Current, Stretch

\* The property speaks of the same profile.
LEMMA ProfileFollows == LogInv /\ ProfileInv => ProfileIsTheSession
<1> SUFFICES ASSUME LogInv, ProfileInv, Trades(log) # {} PROVE
    LET now == SessionOf(log[Max(Trades(log))])
        current == Stretch(log, Trades(log), now)
        earlier == Trades(log) \ current
    IN /\ session = now
       /\ sessionTrades = Cardinality(current)
       /\ tpoCounts = CountsOf(log, current)
       /\ volume = VolumeOf(log, current)
       /\ \A k \in DOMAIN NoSums : sums[k] = SumOf(log, current, k)
       /\ IF earlier = {} THEN npoc = {}
          ELSE LET last == SessionOf(log[Max(earlier)])
                   poc == ArgMax(CountsOf(log, Stretch(log, earlier, last)))
               IN npoc = {[session |-> last, bin |-> poc,
                           touched |-> poc \in BinsOf(log, current)]}
       /\ InOrder(log) =>
            /\ current = {p \in Trades(log) : SessionOf(log[p]) = now}
            /\ \A b \in DOMAIN tpoCounts :
                 tpoCounts[b] = Cardinality(IntervalsOf(log, current, b))
  BY Zenon DEF ProfileIsTheSession
<1>1. PICK s : ProfileIs(log, s)
  BY DEF ProfileInv
<1> DEFINE now == SessionOf(log[Max(Trades(log))])
           current == Stretch(log, Trades(log), now)
           earlier == Trades(log) \ current
           last == SessionOf(log[Max(earlier)])
           poc == ArgMax(CountsOf(log, Stretch(log, earlier, last)))
<1>2. s = now /\ current = Current(log, s)
  BY <1>1 DEF ProfileIs, Current
<1>3. /\ session = now /\ sessionTrades = Cardinality(current)
      /\ tpoCounts = CountsOf(log, current) /\ volume = VolumeOf(log, current)
      /\ \A k \in DOMAIN NoSums : sums[k] = SumOf(log, current, k)
  <2> HIDE DEF now, current
  <2> QED BY <1>1, <1>2, Zenon DEF ProfileIs, MomentKeys
<1>4. IF earlier = {} THEN npoc = {}
      ELSE npoc = {[session |-> last, bin |-> poc, touched |-> poc \in BinsOf(log, current)]}
  <2>1. CarriedIs(log, s)
    BY <1>1 DEF ProfileIs
  <2>2. CASE earlier = {}
    <3> HIDE DEF current
    <3> QED BY <1>2, <2>1, <2>2 DEF CarriedIs
  <2>3. CASE earlier # {}
    <3>1. Marked(npoc, last, poc, BinsOf(log, current))
      <4> HIDE DEF current
      <4> QED BY <1>2, <2>1, <2>3, Zenon DEF CarriedIs
    <3> HIDE DEF last, poc, current
    <3>2. npoc = {[session |-> last, bin |-> poc, touched |-> poc \in BinsOf(log, current)]}
      <4>1. CASE poc \in BinsOf(log, current)
        <5>1. (poc \in BinsOf(log, current)) = TRUE
          BY <4>1
        <5> QED BY <3>1, <4>1, <5>1, Zenon DEF Marked
      <4>2. CASE poc \notin BinsOf(log, current)
        <5>1. (poc \in BinsOf(log, current)) = FALSE
          BY <4>2
        <5> QED BY <3>1, <4>2, <5>1, Zenon DEF Marked
      <4> QED BY <4>1, <4>2
    <3> QED BY <2>3, <3>2
  <2> QED BY <2>2, <2>3
<1>5. ASSUME InOrder(log)
      PROVE  /\ current = {p \in Trades(log) : SessionOf(log[p]) = now}
             /\ \A b \in DOMAIN tpoCounts :
                  tpoCounts[b] = Cardinality(IntervalsOf(log, current, b))
  <2>1. log \in Seq(MarketEvent) /\ current \in SUBSET Trades(log)
    BY DEF LogInv, Stretch
  <2>2. Current(log, now) = {p \in Trades(log) : SessionOf(log[p]) = now}
    BY <1>5, <2>1, CurrentInOrder
  <2>3. current = Current(log, now)
    BY DEF Current
  <2> HIDE DEF now, current
  <2>4. \A b : Cardinality(Openings(log, current, b)) = Cardinality(IntervalsOf(log, current, b))
    BY <1>5, <2>1, OpeningsInOrder
  <2>5. \A b \in DOMAIN tpoCounts : tpoCounts[b] = Cardinality(Openings(log, current, b))
    BY <1>3 DEF CountsOf
  <2> QED BY <2>2, <2>3, <2>4, <2>5
<1> HIDE DEF now, current, earlier, last, poc
<1>6. /\ session = now
      /\ sessionTrades = Cardinality(current)
      /\ tpoCounts = CountsOf(log, current)
      /\ volume = VolumeOf(log, current)
      /\ \A k \in DOMAIN NoSums : sums[k] = SumOf(log, current, k)
      /\ IF earlier = {} THEN npoc = {}
         ELSE npoc = {[session |-> last, bin |-> poc, touched |-> poc \in BinsOf(log, current)]}
      /\ InOrder(log) =>
           /\ current = {p \in Trades(log) : SessionOf(log[p]) = now}
           /\ \A b \in DOMAIN tpoCounts :
                tpoCounts[b] = Cardinality(IntervalsOf(log, current, b))
  BY <1>3, <1>4, <1>5, Zenon
<1> QED BY <1>6, Zenon DEF now, current, earlier, last, poc

\* The state of the profile engine follows the log in every behaviour.
LEMMA ProfileAlways == Spec => [](LogInv /\ ProfileInv)
<1>1. Init => LogInv /\ ProfileInv
  BY LogStart, ProfileStart
<1>2. LogInv /\ ProfileInv /\ [Next]_vars => (LogInv /\ ProfileInv)'
  <2> SUFFICES ASSUME LogInv, ProfileInv, [Next]_vars PROVE (LogInv /\ ProfileInv)'
    OBVIOUS
  <2>1. CASE UNCHANGED vars
    <3>1. feed' = feed /\ log' = log /\ UNCHANGED profileVars
      BY <2>1 DEF vars
    <3>2. LogInv'
      BY <3>1 DEF LogInv
    <3>3. /\ session' = session /\ tpoBucket' = tpoBucket /\ tpoBins' = tpoBins
          /\ tpoCounts' = tpoCounts /\ volume' = volume /\ sessionTrades' = sessionTrades
          /\ sums' = sums /\ npoc' = npoc
      BY <3>1 DEF profileVars
    <3>4. ProfileShape' /\ (ProfileInit => ProfileInit')
      BY <3>3 DEF ProfileInv, ProfileShape, ProfileTypeOK, ProfileInit
    <3>5. \A s : ProfileIs(log, s) => ProfileIs(log, s)'
      BY <3>1, <3>3, Zenon DEF ProfileIs, CarriedIs
    <3>6. ProfileInv'
      BY <3>1, <3>3, <3>4, <3>5, Zenon DEF ProfileInv
    <3> QED BY <3>2, <3>6
  <2>2. CASE Next
    <3>1. PICK e \in feed.events : Receive(e)
      BY <2>2 DEF Next
    <3>2. LogInv' /\ \E n : Takes(e, n)
      BY <3>1, LogStep DEF Receive
    <3> QED BY <3>1, <3>2, ProfileKeeps DEF Receive
  <2> QED BY <2>1, <2>2
<1> QED BY <1>1, <1>2, PTL DEF Spec

(***************************************************************************)
(* The profile is that of the trades since the session last changed, all   *)
(* three sums included, and the carried point of control that of the       *)
(* stretch before, also when late trades roll the session back and forth   *)
(* and however many sessions and intervals pass without a trade.  While    *)
(* events come in order, that is the whole session, and a bin counts once  *)
(* for each interval in which it traded.                                   *)
(* (profile.rs: observe_trade, roll_session, observe_tpo, mark_npoc_touch) *)
(***************************************************************************)
THEOREM TheProfileIsTheSessions == Spec => []ProfileIsTheSession
  BY ProfileAlways, ProfileFollows, PTL

-----------------------------------------------------------------------------
(***************************************************************************)
(* The value area                                                          *)
(***************************************************************************)
\* Finitely many bins, each with a count
Counts(counts) ==
  /\ IsFiniteSet(DOMAIN counts) /\ DOMAIN counts \subseteq Nat /\ DOMAIN counts # {}
  /\ \A b \in DOMAIN counts : counts[b] \in Nat \ {0}

\* The sum of a map is that of its values.
LEMMA TotalOf ==
  ASSUME NEW m, IsFiniteSet(DOMAIN m)
  PROVE  Total([k \in DOMAIN m |-> m[k]]) = Total(m)
<1>1. PICK k : k = [x \in DOMAIN m |-> m[x]]
  OBVIOUS
<1>2. DOMAIN k = DOMAIN m /\ \A x \in DOMAIN m : k[x] = m[x]
  BY <1>1
<1>3. PICK F : Sums(F, m, DOMAIN m) /\ Total(m) = F[DOMAIN m]
  BY TotalIs
<1>4. PICK G : Sums(G, k, DOMAIN k) /\ Total(k) = G[DOMAIN k]
  BY <1>2, TotalIs
<1>5. F[DOMAIN m] = G[DOMAIN m]
  BY <1>2, <1>3, <1>4, SumsAgree
<1> QED BY <1>1, <1>2, <1>3, <1>4, <1>5

\* f[k] is the range after k steps.
GrowsTo(f, counts, n) ==
  f = [k \in 0 .. n |-> IF k = 0 THEN [low |-> ArgMax(counts), high |-> ArgMax(counts)]
                        ELSE Grow(counts, f[k - 1])]

\* f starts at the point of control and grows from one range to the next.
GrowthSteps(f, counts, n) ==
  /\ f[0] = [low |-> ArgMax(counts), high |-> ArgMax(counts)]
  /\ \A k \in 1 .. n : f[k] = Grow(counts, f[k - 1])

\* The recursive function of the growth, by its values.
LEMMA GrowthAt ==
  ASSUME NEW n \in Nat, NEW counts, NEW f
  PROVE  GrowsTo(f, counts, n) <=> f = [k \in 0 .. n |-> f[k]] /\ GrowthSteps(f, counts, n)
<1> DEFINE a == [low |-> ArgMax(counts), high |-> ArgMax(counts)]
           g == [k \in 0 .. n |-> IF k = 0 THEN a ELSE Grow(counts, f[k - 1])]
<1>1. /\ g = [k \in 0 .. n |-> g[k]] /\ g[0] = a
      /\ \A k \in 1 .. n : g[k] = Grow(counts, f[k - 1])
  <2> HIDE DEF a
  <2> QED OBVIOUS
<1>2. ASSUME f = [k \in 0 .. n |-> f[k]], f[0] = a,
             \A k \in 1 .. n : f[k] = Grow(counts, f[k - 1])
      PROVE  f = g
  <2>1. ASSUME NEW k \in 0 .. n PROVE f[k] = g[k]
    <3>1. k = 0 \/ k \in 1 .. n
      OBVIOUS
    <3> HIDE DEF g, a
    <3> QED BY <1>1, <1>2, <3>1
  <2>2. [k \in 0 .. n |-> f[k]] = [k \in 0 .. n |-> g[k]]
    BY <2>1
  <2> HIDE DEF g, a
  <2> QED BY <1>1, <1>2, <2>2, Zenon
<1>3. GrowsTo(f, counts, n) <=> f = g
  BY DEF GrowsTo
<1>4. GrowthSteps(f, counts, n) <=> f[0] = a /\ \A k \in 1 .. n : f[k] = Grow(counts, f[k - 1])
  BY DEF GrowthSteps
<1> HIDE DEF g, a
<1> QED BY <1>1, <1>2, <1>3, <1>4

\* The range can take one step more.
LEMMA GrowthGrows ==
  ASSUME NEW n \in Nat, NEW counts, NEW f, GrowsTo(f, counts, n)
  PROVE  \E g : GrowsTo(g, counts, n + 1)
<1> DEFINE g == [k \in 0 .. n + 1 |-> IF k = n + 1 THEN Grow(counts, f[n]) ELSE f[k]]
<1>1. g[n + 1] = Grow(counts, f[n]) /\ \A k \in 0 .. n : g[k] = f[k]
  OBVIOUS
<1>2. GrowthSteps(f, counts, n)
  BY GrowthAt
<1>3. g = [k \in 0 .. n + 1 |-> g[k]]
  OBVIOUS
<1> HIDE DEF g
<1>4. ASSUME NEW k \in 1 .. n + 1 PROVE g[k] = Grow(counts, g[k - 1])
  <2>1. CASE k = n + 1
    <3>1. k - 1 = n /\ n \in 0 .. n
      BY <2>1
    <3> QED BY <1>1, <2>1, <3>1, Zenon
  <2>2. CASE k # n + 1
    <3>1. k \in 1 .. n /\ k \in 0 .. n /\ k - 1 \in 0 .. n
      BY <2>2
    <3> QED BY <1>1, <1>2, <3>1, Zenon DEF GrowthSteps
  <2> QED BY <2>1, <2>2
<1>5. g[0] = f[0] /\ n + 1 \in Nat
  BY <1>1
<1>6. GrowthSteps(g, counts, n + 1)
  BY <1>2, <1>4, <1>5, Zenon DEF GrowthSteps
<1> QED BY <1>3, <1>5, <1>6, GrowthAt

\* The growth can go on for any number of steps.
LEMMA GrowthExists ==
  ASSUME NEW n \in Nat, NEW counts
  PROVE  \E f : GrowsTo(f, counts, n)
<1> DEFINE T == {k \in Nat : ~ \E f : GrowsTo(f, counts, k)}
<1>1. SUFFICES ASSUME T # {} PROVE FALSE
  OBVIOUS
<1>2. T \subseteq Nat
  OBVIOUS
<1>3. PICK k \in T : \A j \in T : k <= j
  <2> HIDE DEF T
  <2> QED BY <1>1, <1>2, LeastElement
<1>4. k # 0
  <2> DEFINE e == [j \in 0 .. 0 |-> [low |-> ArgMax(counts), high |-> ArgMax(counts)]]
  <2>1. GrowsTo(e, counts, 0)
    BY DEF GrowsTo
  <2> QED BY <1>3, <2>1
<1>5. k - 1 \in Nat /\ k - 1 \notin T
  BY <1>3, <1>4
<1>6. PICK f : GrowsTo(f, counts, k - 1)
  BY <1>5
<1>7. \E g : GrowsTo(g, counts, (k - 1) + 1)
  BY <1>5, <1>6, GrowthGrows
<1> QED BY <1>3, <1>7

\* The value area is the last of the ranges.
LEMMA ValueAreaIs ==
  ASSUME NEW counts, NEW n \in Nat, n = Cardinality(DOMAIN counts)
  PROVE  \E f : GrowthSteps(f, counts, n) /\ ValueArea(counts) = f[n]
<1> DEFINE F == CHOOSE f : GrowsTo(f, counts, Cardinality(DOMAIN counts))
<1>1. GrowsTo(F, counts, n)
  BY GrowthExists
<1>2. GrowthSteps(F, counts, n)
  <2> HIDE DEF F
  <2> QED BY <1>1, GrowthAt
<1>3. ValueArea(counts) = F[n]
  BY DEF ValueArea, GrowsTo
<1> QED BY <1>2, <1>3

\* What the property says of a range
Short(counts, l, h) == Held(counts, [low |-> l, high |-> h]) < TargetTpos(counts)
BinsAbove(counts, h) == {b \in DOMAIN counts : b > h}
BinsBelow(counts, l) == {b \in DOMAIN counts : b < l}

LowIsFair(counts, a) ==
  \E h \in Within(counts, ArgMax(counts), a.high) :
    /\ Short(counts, a.low + 1, h)
    /\ \A b \in BinsAbove(counts, h) : b = Min(BinsAbove(counts, h)) => counts[b] < counts[a.low]
HighIsFair(counts, a) ==
  \E l \in Within(counts, a.low, ArgMax(counts)) :
    /\ Short(counts, l, a.high - 1)
    /\ \A b \in BinsBelow(counts, l) : b = Max(BinsBelow(counts, l)) => counts[b] <= counts[a.high]

Tight(counts, a) ==
  /\ a \in [low : DOMAIN counts, high : DOMAIN counts]
  /\ a.low <= ArgMax(counts) /\ ArgMax(counts) <= a.high
  /\ a.low < ArgMax(counts) => LowIsFair(counts, a)
  /\ a.high > ArgMax(counts) => HighIsFair(counts, a)

\* A range has a sum, which is that of its bins.
LEMMA HeldIs ==
  ASSUME NEW counts, Counts(counts), NEW l, NEW h
  PROVE  /\ Held(counts, [low |-> l, high |-> h])
              = Total([b \in Within(counts, l, h) |-> counts[b]])
         /\ Held(counts, [low |-> l, high |-> h]) \in Int
         /\ IsFiniteSet(Within(counts, l, h))
<1>1. Held(counts, [low |-> l, high |-> h]) = Total([b \in Within(counts, l, h) |-> counts[b]])
  BY DEF Held
<1>2. PICK S : S = Within(counts, l, h)
  OBVIOUS
<1>3. S \subseteq DOMAIN counts /\ IsFiniteSet(S)
  BY <1>2, FS_Subset DEF Within, Counts
<1>4. \A b \in S : counts[b] \in Int
  BY <1>3 DEF Counts
<1>5. Total([b \in S |-> counts[b]]) \in Int
  BY <1>3, <1>4, TotalType
<1> QED BY <1>1, <1>2, <1>3, <1>5

\* Ranges of the same bins hold the same.
LEMMA HeldSame ==
  ASSUME NEW counts, NEW l, NEW h, NEW k, NEW i, Within(counts, l, h) = Within(counts, k, i)
  PROVE  Short(counts, l, h) <=> Short(counts, k, i)
<1>1. Held(counts, [low |-> l, high |-> h]) = Total([b \in Within(counts, l, h) |-> counts[b]])
  BY DEF Held
<1>2. Held(counts, [low |-> k, high |-> i]) = Total([b \in Within(counts, k, i) |-> counts[b]])
  BY DEF Held
<1> QED BY <1>1, <1>2, Zenon DEF Short

\* The target is a share of at most 100 percent of the sum.
LEMMA TargetType ==
  ASSUME NEW counts, Counts(counts)
  PROVE  Total(counts) \in Nat /\ TargetTpos(counts) \in Int /\ TargetTpos(counts) <= Total(counts)
<1>1. PICK t, v : t = Total(counts) /\ v = t * ValueAreaPct
  OBVIOUS
<1>2. t \in Nat
  <2>1. Total([k \in DOMAIN counts |-> counts[k]]) \in Nat
    <3>1. IsFiniteSet(DOMAIN counts) /\ \A k \in DOMAIN counts : counts[k] \in Nat
      BY DEF Counts
    <3> QED BY <3>1, TotalNotNegative
  <2> QED BY <1>1, <2>1, TotalOf DEF Counts
<1>3. v \in Nat /\ v <= t * 100
  <2>1. ValueAreaPct \in Nat /\ ValueAreaPct <= 100
    BY ProfileAssumption
  <2> QED BY <1>1, <1>2, <2>1
<1>4. (v + 99) \div 100 <= t /\ (v + 99) \div 100 \in Int
  BY <1>2, <1>3
<1> QED BY <1>1, <1>2, <1>4 DEF TargetTpos

\* All bins together hold the target.
LEMMA WholeIsEnough ==
  ASSUME NEW counts, Counts(counts), NEW l, NEW h, Within(counts, l, h) = DOMAIN counts
  PROVE  ~Short(counts, l, h)
<1>1. Held(counts, [low |-> l, high |-> h]) = Total([b \in DOMAIN counts |-> counts[b]])
  BY HeldIs, Zenon
<1>2. Held(counts, [low |-> l, high |-> h]) = Total(counts)
  BY <1>1, TotalOf DEF Counts
<1> QED BY <1>2, TargetType DEF Short

\* A step of the growth keeps a range tight, and takes in a bin while the range
\* is short of the target.
LEMMA GrowStep ==
  ASSUME NEW counts, Counts(counts), NEW a, Tight(counts, a)
  PROVE  /\ Tight(counts, Grow(counts, a))
         /\ ~Short(counts, a.low, a.high) => Grow(counts, a) = a
         /\ Short(counts, a.low, a.high) =>
              /\ Within(counts, a.low, a.high) \subseteq
                   Within(counts, Grow(counts, a).low, Grow(counts, a).high)
              /\ \E b \in Within(counts, Grow(counts, a).low, Grow(counts, a).high) :
                   b \notin Within(counts, a.low, a.high)
<1>1. PICK poc, lo, hi : poc = ArgMax(counts) /\ lo = a.low /\ hi = a.high
  OBVIOUS
<1>2. /\ a = [low |-> lo, high |-> hi] /\ lo \in DOMAIN counts /\ hi \in DOMAIN counts
      /\ lo <= poc /\ poc <= hi
  BY <1>1 DEF Tight
<1>3. poc \in DOMAIN counts /\ \A b \in DOMAIN counts : b \in Nat /\ counts[b] \in Nat
  BY <1>1, ArgMaxIs DEF Counts
<1>4. PICK below, above : below = BinsBelow(counts, lo) /\ above = BinsAbove(counts, hi)
  OBVIOUS
<1>5. /\ below \subseteq DOMAIN counts /\ above \subseteq DOMAIN counts
      /\ below # {} => Max(below) \in below /\ \A b \in below : b <= Max(below)
      /\ above # {} => Min(above) \in above /\ \A b \in above : Min(above) <= b
  <2>1. below \subseteq DOMAIN counts /\ above \subseteq DOMAIN counts
    BY <1>4 DEF BinsBelow, BinsAbove
  <2>2. IsFiniteSet(below) /\ IsFiniteSet(above) /\ below \subseteq Int /\ above \subseteq Int
    BY <1>3, <2>1, FS_Subset DEF Counts
  <2> QED BY <2>1, <2>2, GreatestElement, LeastOfAll
<1>6. PICK left, right : /\ left = (IF below = {} THEN 0 ELSE counts[Max(below)])
                         /\ right = (IF above = {} THEN 0 ELSE counts[Min(above)])
  OBVIOUS
<1>7. Grow(counts, a) =
        IF ~Short(counts, lo, hi) \/ below \cup above = {} THEN a
        ELSE IF above # {} /\ right >= left THEN [a EXCEPT !.high = Min(above)]
             ELSE [a EXCEPT !.low = Max(below)]
  <2>1. Held(counts, a) \in Int /\ TargetTpos(counts) \in Int
    BY <1>2, HeldIs, TargetType
  <2>2. ~Short(counts, lo, hi) <=> Held(counts, a) >= TargetTpos(counts)
    BY <1>2, <2>1 DEF Short
  <2> QED BY <1>1, <1>4, <1>6, <2>2, Zenon DEF Grow, BinsBelow, BinsAbove
<1>8. CASE ~Short(counts, lo, hi)
  BY <1>1, <1>7, <1>8
<1>9. CASE Short(counts, lo, hi)
  <2>1. below \cup above # {}
    <3>1. SUFFICES ASSUME below = {}, above = {} PROVE FALSE
      OBVIOUS
    <3>2. Within(counts, lo, hi) = DOMAIN counts
      BY <1>2, <1>3, <1>4, <3>1 DEF Within, BinsBelow, BinsAbove
    <3> QED BY <1>9, <3>2, WholeIsEnough
  <2>2. CASE above # {} /\ right >= left
    <3>1. PICK m : m = Min(above)
      OBVIOUS
    <3>2. m \in above /\ m > hi /\ m \in DOMAIN counts /\ right = counts[m]
      BY <1>4, <1>5, <1>6, <2>2, <3>1 DEF BinsAbove
    <3>3. PICK g : g = Grow(counts, a)
      OBVIOUS
    <3>4. g = [low |-> lo, high |-> m]
      BY <1>2, <1>7, <1>9, <2>1, <2>2, <3>1, <3>3
    <3>5. g \in [low : DOMAIN counts, high : DOMAIN counts] /\ g.low = lo /\ g.high = m
      BY <1>2, <3>2, <3>4
    <3>6. poc <= m /\ hi <= m /\ m \in Nat /\ lo \in Nat /\ hi \in Nat /\ poc \in Nat
      BY <1>2, <1>3, <3>2
    <3>7. lo < poc => LowIsFair(counts, g)
      <4> SUFFICES ASSUME lo < poc PROVE LowIsFair(counts, g)
        OBVIOUS
      <4>1. PICK h \in Within(counts, poc, hi) :
              /\ Short(counts, lo + 1, h)
              /\ \A b \in BinsAbove(counts, h) : b = Min(BinsAbove(counts, h)) => counts[b] < counts[lo]
        BY <1>1 DEF Tight, LowIsFair
      <4>2. h \in Within(counts, poc, m)
        BY <1>3, <3>6, <4>1 DEF Within
      <4> QED BY <1>1, <3>5, <4>1, <4>2 DEF LowIsFair
    <3>8. HighIsFair(counts, g)
      <4>1. lo \in Within(counts, lo, poc)
        BY <1>2, <1>3 DEF Within
      <4>2. Within(counts, lo, m - 1) = Within(counts, lo, hi)
        <5>1. \A b \in DOMAIN counts : b <= m - 1 <=> b <= hi
          <6> TAKE b \in DOMAIN counts
          <6>1. b \in Nat /\ (b > hi => m <= b)
            BY <1>3, <1>4, <1>5, <3>1, <3>2 DEF BinsAbove
          <6> QED BY <3>2, <3>6, <6>1
        <5> QED BY <5>1 DEF Within
      <4>3. Short(counts, lo, m - 1)
        BY <1>9, <4>2, HeldSame
      <4>4. \A b \in BinsBelow(counts, lo) : b = Max(BinsBelow(counts, lo)) => counts[b] <= counts[m]
        <5> SUFFICES ASSUME below # {} PROVE counts[Max(below)] <= counts[m]
          BY <1>4
        <5>1. left = counts[Max(below)] /\ left \in Nat /\ right \in Nat
          BY <1>3, <1>5, <1>6, <3>2
        <5> QED BY <2>2, <3>2, <5>1
      <4> QED BY <1>1, <3>5, <4>1, <4>3, <4>4 DEF HighIsFair
    <3>9. Tight(counts, g)
      BY <1>1, <1>2, <3>5, <3>6, <3>7, <3>8 DEF Tight
    <3>10. /\ Within(counts, lo, hi) \subseteq Within(counts, lo, m)
           /\ m \in Within(counts, lo, m) /\ m \notin Within(counts, lo, hi)
      BY <1>2, <1>3, <3>2, <3>6 DEF Within
    <3> QED BY <1>1, <1>9, <3>3, <3>5, <3>9, <3>10
  <2>3. CASE ~(above # {} /\ right >= left)
    <3>1. PICK m : m = Max(below)
      OBVIOUS
    <3>0. below # {}
      <4>1. above = {} => below # {}
        BY <2>1
      <4>2. ASSUME above # {}, below = {} PROVE FALSE
        <5>1. left = 0 /\ right \in Nat
          BY <1>3, <1>5, <1>6, <4>2
        <5> QED BY <2>3, <4>2, <5>1
      <4> QED BY <4>1, <4>2
    <3>2. m \in below /\ m < lo /\ m \in DOMAIN counts /\ left = counts[m]
      BY <1>4, <1>5, <1>6, <3>0, <3>1 DEF BinsBelow
    <3>3. PICK g : g = Grow(counts, a)
      OBVIOUS
    <3>4. g = [low |-> m, high |-> hi]
      BY <1>2, <1>7, <1>9, <2>1, <2>3, <3>1, <3>3
    <3>5. g \in [low : DOMAIN counts, high : DOMAIN counts] /\ g.low = m /\ g.high = hi
      BY <1>2, <3>2, <3>4
    <3>6. m <= poc /\ m <= lo /\ m \in Nat /\ lo \in Nat /\ hi \in Nat /\ poc \in Nat
      BY <1>2, <1>3, <3>2
    <3>7. hi > poc => HighIsFair(counts, g)
      <4> SUFFICES ASSUME hi > poc PROVE HighIsFair(counts, g)
        OBVIOUS
      <4>1. PICK l \in Within(counts, lo, poc) :
              /\ Short(counts, l, hi - 1)
              /\ \A b \in BinsBelow(counts, l) : b = Max(BinsBelow(counts, l)) => counts[b] <= counts[hi]
        BY <1>1 DEF Tight, HighIsFair
      <4>2. l \in Within(counts, m, poc)
        BY <1>3, <3>6, <4>1 DEF Within
      <4> QED BY <1>1, <3>5, <4>1, <4>2 DEF HighIsFair
    <3>8. LowIsFair(counts, g)
      <4>1. hi \in Within(counts, poc, hi)
        BY <1>2, <1>3 DEF Within
      <4>2. Within(counts, m + 1, hi) = Within(counts, lo, hi)
        <5>1. \A b \in DOMAIN counts : m + 1 <= b <=> lo <= b
          <6> TAKE b \in DOMAIN counts
          <6>1. b \in Nat /\ (b < lo => b <= m)
            BY <1>3, <1>4, <1>5, <3>1, <3>2 DEF BinsBelow
          <6> QED BY <3>2, <3>6, <6>1
        <5> QED BY <5>1 DEF Within
      <4>3. Short(counts, m + 1, hi)
        BY <1>9, <4>2, HeldSame
      <4>4. \A b \in BinsAbove(counts, hi) : b = Min(BinsAbove(counts, hi)) => counts[b] < counts[m]
        <5> SUFFICES ASSUME above # {} PROVE counts[Min(above)] < counts[m]
          BY <1>4
        <5>1. right = counts[Min(above)] /\ left \in Nat /\ right \in Nat
          BY <1>3, <1>5, <1>6, <3>2
        <5> QED BY <2>3, <3>2, <5>1
      <4> QED BY <1>1, <3>5, <4>1, <4>3, <4>4 DEF LowIsFair
    <3>9. Tight(counts, g)
      BY <1>1, <1>2, <3>5, <3>6, <3>7, <3>8 DEF Tight
    <3>10. /\ Within(counts, lo, hi) \subseteq Within(counts, m, hi)
           /\ m \in Within(counts, m, hi) /\ m \notin Within(counts, lo, hi)
      BY <1>2, <1>3, <3>2, <3>6 DEF Within
    <3> QED BY <1>1, <1>9, <3>3, <3>5, <3>9, <3>10
  <2> QED BY <2>2, <2>3
<1> QED BY <1>8, <1>9

\* Growing as many times as there are bins is enough.
LEMMA ValueAreaTight ==
  ASSUME NEW counts, Counts(counts)
  PROVE  /\ Tight(counts, ValueArea(counts))
         /\ ~Short(counts, ValueArea(counts).low, ValueArea(counts).high)
<1>1. PICK n \in Nat : n = Cardinality(DOMAIN counts)
  BY FS_CardinalityType DEF Counts
<1>2. PICK f : GrowthSteps(f, counts, n) /\ ValueArea(counts) = f[n]
  BY <1>1, ValueAreaIs
<1> DEFINE Size(k) == Cardinality(Within(counts, f[k].low, f[k].high))
           Good(k) == /\ Tight(counts, f[k])
                      /\ ~Short(counts, f[k].low, f[k].high) \/ Size(k) >= k + 1
           T == {k \in 0 .. n : ~Good(k)}
<1>3. \A k : IsFiniteSet(Within(counts, f[k].low, f[k].high)) /\ Size(k) \in Nat /\ Size(k) <= n
  <2> TAKE k
  <2>1. Within(counts, f[k].low, f[k].high) \subseteq DOMAIN counts
    BY DEF Within
  <2> QED BY <1>1, <2>1, FS_Subset, FS_CardinalityType DEF Counts
<1>4. Good(0)
  <2>1. PICK poc : poc = ArgMax(counts)
    OBVIOUS
  <2>2. poc \in DOMAIN counts /\ poc \in Nat
    BY <2>1, ArgMaxIs DEF Counts
  <2>3. f[0] = [low |-> poc, high |-> poc]
    BY <1>2, <2>1 DEF GrowthSteps
  <2>4. Tight(counts, f[0])
    BY <2>1, <2>2, <2>3 DEF Tight
  <2>5. Within(counts, f[0].low, f[0].high) = {poc}
    BY <2>2, <2>3 DEF Within, Counts
  <2>6. Size(0) = 1
    BY <2>5, FS_Singleton
  <2> QED BY <2>4, <2>6
<1>5. T = {}
  <2>1. SUFFICES ASSUME T # {} PROVE FALSE
    OBVIOUS
  <2>2. T \subseteq Nat
    OBVIOUS
  <2>3. PICK k \in T : \A j \in T : k <= j
    <3> HIDE DEF T
    <3> QED BY <2>1, <2>2, LeastElement
  <2>4. k \in 0 .. n /\ ~Good(k)
    BY <2>3
  <2>5. k \in 1 .. n /\ k - 1 \in 0 .. n /\ k - 1 < k
    <3>1. k # 0
      BY <1>4, <2>4
    <3> QED BY <2>4, <3>1
  <2>6. k - 1 \notin T
    <3> HIDE DEF T
    <3> QED BY <2>3, <2>5
  <2>7. Good(k - 1)
    BY <2>5, <2>6
  <2>8. f[k] = Grow(counts, f[k - 1])
    BY <1>2, <2>5 DEF GrowthSteps
  <2>9. PICK a, g : a = f[k - 1] /\ g = f[k]
    OBVIOUS
  <2>10. /\ Tight(counts, a) /\ g = Grow(counts, a)
         /\ ~Short(counts, a.low, a.high) \/ Size(k - 1) >= (k - 1) + 1
    BY <2>7, <2>8, <2>9
  <2>11. Tight(counts, g)
    BY <2>10, GrowStep
  <2>12. CASE ~Short(counts, a.low, a.high)
    <3>1. g = a
      BY <2>10, <2>12, GrowStep
    <3> QED BY <2>4, <2>9, <2>11, <2>12, <3>1
  <2>13. CASE Short(counts, a.low, a.high)
    <3>1. PICK A, G : A = Within(counts, a.low, a.high) /\ G = Within(counts, g.low, g.high)
      OBVIOUS
    <3>2. A \subseteq G /\ \E b \in G : b \notin A
      BY <2>10, <2>13, <3>1, GrowStep
    <3>3. PICK b \in G : b \notin A
      BY <3>2
    <3>4. IsFiniteSet(A) /\ IsFiniteSet(G) /\ Cardinality(A) = Size(k - 1) /\ Cardinality(G) = Size(k)
      BY <1>3, <2>9, <3>1
    <3>5. Cardinality(A \cup {b}) = Cardinality(A) + 1
      BY <3>3, <3>4, FS_AddElement
    <3>6. Cardinality(A \cup {b}) <= Cardinality(G)
      BY <3>2, <3>3, <3>4, FS_Subset
    <3>7. Size(k) \in Nat /\ Size(k - 1) \in Nat
      BY <1>3
    <3> HIDE DEF Size
    <3>8. Size(k) >= k + 1
      BY <2>5, <2>10, <2>13, <3>4, <3>5, <3>6, <3>7
    <3> QED BY <2>4, <2>9, <2>11, <3>8
  <2> QED BY <2>12, <2>13
<1>6. Good(n)
  BY <1>5
<1>7. ~Short(counts, f[n].low, f[n].high)
  <2>1. Size(n) \in Nat /\ Size(n) <= n
    BY <1>3
  <2> HIDE DEF Size
  <2> QED BY <1>6, <2>1
<1> QED BY <1>2, <1>6, <1>7

\* What the property says of the profile's counts
LEMMA ValueAreaFollows == ProfileInv => ValueAreaIsTight
<1> SUFFICES ASSUME ProfileInv, sessionTrades > 0 PROVE ValueAreaIsTight
  BY DEF ValueAreaIsTight
<1>1. Counts(tpoCounts)
  BY DEF Counts, ProfileInv, ProfileShape, ProfileTypeOK
<1>2. PICK counts : counts = tpoCounts
  OBVIOUS
<1>3. /\ Tight(counts, ValueArea(counts))
      /\ ~Short(counts, ValueArea(counts).low, ValueArea(counts).high)
  BY <1>1, <1>2, ValueAreaTight
<1>4. PICK area : area = ValueArea(counts)
  OBVIOUS
<1>5. /\ area.low <= ArgMax(counts) /\ ArgMax(counts) <= area.high
      /\ {area.low, area.high} \subseteq DOMAIN counts
      /\ ~Short(counts, area.low, area.high)
      /\ area.low < ArgMax(counts) => LowIsFair(counts, area)
      /\ area.high > ArgMax(counts) => HighIsFair(counts, area)
  BY <1>3, <1>4 DEF Tight
<1> QED BY <1>2, <1>4, <1>5, Zenon
      DEF ValueAreaIsTight, LowIsFair, HighIsFair, Short, BinsAbove, BinsBelow

(***************************************************************************)
(* The value area of every profile holds its share of the opportunities,   *)
(* and neither of its ends was taken without need, however many bins the   *)
(* range has to take in.  (profile.rs: value_area)                         *)
(***************************************************************************)
THEOREM TheValueAreaIsTight == Spec => []ValueAreaIsTight
  BY ProfileAlways, ValueAreaFollows, PTL
-----------------------------------------------------------------------------
(***************************************************************************)
(* The heatmap                                                             *)
(***************************************************************************)
LevelRecord == [added : Nat, removed : Nat, touches : Nat, survived : Nat,
                vanished : Nat, firstSeen : Nat, qty : Nat]
HeatEvent == [kind : {"stack", "pull"}, side : Sides, price : Nat, before : Nat, after : Nat]

\* The prices of a side of the book with their quantities
BookSide(b) == \A p \in DOMAIN b : p \in Nat /\ b[p] \in Nat \ {0}

\* The history of a level of quantity q balances.
Balances(s, q) ==
  /\ s \in LevelRecord
  /\ s.qty = q /\ s.added - s.removed = q /\ s.survived <= s.touches

\* Every level of the book has its history.
SideAgrees(b, states) ==
  /\ BookSide(b)
  /\ DOMAIN b \subseteq DOMAIN states
  /\ \A p \in DOMAIN states : Balances(states[p], At(b, p))

\* The whole state, as the record apply_level works on
HeatShape(h) ==
  /\ DOMAIN h.book = Sides /\ DOMAIN h.states = Sides
  /\ \A side \in Sides : SideAgrees(h.book[side], h.states[side])
  /\ h.counts \in [{"stack", "pull"} -> [Sides -> Nat]]
  /\ h.events \in Seq(HeatEvent) /\ Len(h.events) <= EventHistory

\* The last elements of a sequence
LEMMA RecentType ==
  ASSUME NEW A, NEW s \in Seq(A), NEW n \in Nat
  PROVE  Recent(s, n) \in Seq(A) /\ Len(Recent(s, n)) <= n
<1>1. Len(s) \in Nat
  OBVIOUS
<1>2. CASE Len(s) > n
  <2>1. Recent(s, n) = SubSeq(s, Len(s) - n + 1, Len(s))
    BY <1>2 DEF Recent
  <2>2. SubSeq(s, Len(s) - n + 1, Len(s)) \in Seq(A)
    BY <1>1, <1>2
  <2>3. Len(SubSeq(s, Len(s) - n + 1, Len(s))) = n
    BY <1>1, <1>2
  <2> QED BY <2>1, <2>2, <2>3
<1>3. CASE ~(Len(s) > n)
  BY <1>1, <1>3 DEF Recent
<1> QED BY <1>2, <1>3

\* set_level: what is left at a price
LEMMA SetLevelSets ==
  ASSUME NEW b, NEW side \in DOMAIN b, BookSide(b[side]), NEW level \in DepthLevel,
         NEW c, c = SetLevel(b, side, level)
  PROVE  /\ DOMAIN c = DOMAIN b /\ BookSide(c[side])
         /\ \A s \in DOMAIN b \ {side} : c[s] = b[s]
         /\ \A p : At(c[side], p) = IF p = level.price THEN level.qty ELSE At(b[side], p)
         /\ DOMAIN c[side] \subseteq DOMAIN b[side] \cup {level.price}
<1>1. level.price \in Nat /\ level.qty \in Nat
  BY DEF DepthLevel
<1>2. PICK old : old = b[side]
  OBVIOUS
<1>3. PICK new : new = IF level.qty = 0 THEN [p \in DOMAIN old \ {level.price} |-> old[p]]
                       ELSE Put(old, level.price, level.qty)
  OBVIOUS
<1>4. c = [b EXCEPT ![side] = new]
  BY <1>2, <1>3 DEF SetLevel
<1>5. DOMAIN c = DOMAIN b /\ c[side] = new /\ \A s \in DOMAIN b \ {side} : c[s] = b[s]
  BY <1>4
<1>6. CASE level.qty = 0
  <2>1. new = [p \in DOMAIN old \ {level.price} |-> old[p]]
    BY <1>3, <1>6
  <2>2. DOMAIN new = DOMAIN old \ {level.price} /\ \A p \in DOMAIN new : new[p] = old[p]
    BY <2>1
  <2> QED BY <1>1, <1>2, <1>5, <1>6, <2>2 DEF BookSide, At
<1>7. CASE level.qty # 0
  <2>1. new = [p \in DOMAIN old \cup {level.price} |->
                 IF p = level.price THEN level.qty ELSE old[p]]
    BY <1>3, <1>7 DEF Put
  <2>2. /\ DOMAIN new = DOMAIN old \cup {level.price}
        /\ \A p \in DOMAIN new : new[p] = IF p = level.price THEN level.qty ELSE old[p]
    BY <2>1
  <2> QED BY <1>1, <1>2, <1>5, <1>7, <2>2 DEF BookSide, At
<1> QED BY <1>6, <1>7

\* update_state keeps the balance of the level it is about.
LEMMA UpdateBalances ==
  ASSUME NEW states, NEW price, NEW before \in Nat, NEW after \in Nat, NEW ts \in Nat,
         NEW touched \in BOOLEAN,
         price \in DOMAIN states => Balances(states[price], before),
         price \notin DOMAIN states => before = 0,
         NEW new, new = UpdateState(states, price, before, after, ts, touched)
  PROVE  /\ DOMAIN states \subseteq DOMAIN new /\ DOMAIN new \subseteq DOMAIN states \cup {price}
         /\ after > 0 => price \in DOMAIN new
         /\ price \in DOMAIN new => Balances(new[price], after)
         /\ \A p \in DOMAIN states \ {price} : new[p] = states[p]
<1>1. PICK s : s = IF price \in DOMAIN states THEN states[price] ELSE NewLevel(ts)
  OBVIOUS
<1>2. Balances(s, before)
  BY <1>1 DEF Balances, NewLevel, LevelRecord
<1>3. CASE before = 0 /\ after = 0
  <2>1. new = states
    BY <1>3 DEF UpdateState
  <2> QED BY <1>3, <2>1
<1>4. CASE ~(before = 0 /\ after = 0)
  <2> DEFINE r == [s EXCEPT !.added = @ + (IF after > before THEN after - before ELSE 0),
                      !.removed = @ + (IF before > after THEN before - after ELSE 0),
                      !.touches = @ + (IF touched THEN 1 ELSE 0),
                      !.survived = @ + (IF touched /\ after > 0 THEN 1 ELSE 0),
                      !.vanished = @ + (IF ~touched /\ before > 0 /\ after = 0
                                           /\ s.touches = 0 THEN 1 ELSE 0),
                      !.qty = after]
  <2>1. new = Put(states, price, r)
    BY <1>1, <1>4 DEF UpdateState
  <2>2. Balances(r, after)
    <3>1. PICK a, d, t, u, v :
            /\ a = IF after > before THEN after - before ELSE 0
            /\ d = IF before > after THEN before - after ELSE 0
            /\ t = IF touched THEN 1 ELSE 0
            /\ u = IF touched /\ after > 0 THEN 1 ELSE 0
            /\ v = IF ~touched /\ before > 0 /\ after = 0 /\ s.touches = 0 THEN 1 ELSE 0
      OBVIOUS
    <3>2. r = [s EXCEPT !.added = @ + a, !.removed = @ + d, !.touches = @ + t,
                        !.survived = @ + u, !.vanished = @ + v, !.qty = after]
      BY <3>1
    <3>3. /\ a \in Nat /\ d \in Nat /\ t \in Nat /\ u \in Nat /\ v \in Nat
          /\ a - d = after - before /\ u <= t
      BY <3>1
    <3>4. s \in LevelRecord
      BY <1>2 DEF Balances
    <3>5. /\ r \in LevelRecord /\ r.added = s.added + a /\ r.removed = s.removed + d
          /\ r.touches = s.touches + t /\ r.survived = s.survived + u /\ r.qty = after
      <4>1. r = [added |-> s.added + a, removed |-> s.removed + d, touches |-> s.touches + t,
                 survived |-> s.survived + u, vanished |-> s.vanished + v,
                 firstSeen |-> s.firstSeen, qty |-> after]
        <5> HIDE DEF r
        <5> QED BY <3>2, <3>4 DEF LevelRecord
      <4> HIDE DEF r
      <4>2. /\ r.added = s.added + a /\ r.removed = s.removed + d
            /\ r.touches = s.touches + t /\ r.survived = s.survived + u /\ r.qty = after
        BY <4>1
      <4>3. /\ s.added + a \in Nat /\ s.removed + d \in Nat /\ s.touches + t \in Nat
            /\ s.survived + u \in Nat /\ s.vanished + v \in Nat /\ s.firstSeen \in Nat
        BY <3>3, <3>4 DEF LevelRecord
      <4> QED BY <4>1, <4>2, <4>3 DEF LevelRecord
    <3>6. /\ s.added \in Nat /\ s.removed \in Nat /\ s.touches \in Nat /\ s.survived \in Nat
          /\ s.added - s.removed = before /\ s.survived <= s.touches
      BY <1>2 DEF Balances, LevelRecord
    <3> HIDE DEF r
    <3> QED BY <3>3, <3>5, <3>6 DEF Balances
  <2> HIDE DEF r
  <2>3. /\ DOMAIN new = DOMAIN states \cup {price}
        /\ new[price] = r /\ \A p \in DOMAIN states \ {price} : new[p] = states[p]
    BY <2>1 DEF Put
  <2> QED BY <2>2, <2>3
<1> QED BY <1>3, <1>4

\* record_stack_pull: one event or none
LEMMA OneKind ==
  ASSUME NEW before \in Nat, NEW after \in Nat, NEW near
  PROVE  StackOrPull(before, after, near) \in {{}, {"stack"}, {"pull"}}
<1>1. CASE ~near \/ before = 0
  <2>1. StackOrPull(before, after, near) = {}
    BY <1>1 DEF StackOrPull
  <2> QED BY <2>1
<1>2. CASE near /\ before # 0 /\ after > before
  <2>1. ~(2 * after < before)
    BY <1>2
  <2>2. StackOrPull(before, after, near) = {"stack"}
    BY <1>2, <2>1 DEF StackOrPull
  <2> QED BY <2>2
<1>3. CASE near /\ before # 0 /\ ~(after > before)
  <2>1. StackOrPull(before, after, near) \in {{}, {"pull"}}
    BY <1>3 DEF StackOrPull
  <2> QED BY <2>1
<1> QED BY <1>1, <1>2, <1>3

\* What a level does to the book
Sets(h, g, side, level) ==
  /\ \A s \in Sides \ {side} : g.book[s] = h.book[s]
  /\ \A p : At(g.book[side], p) = IF p = level.price THEN level.qty ELSE At(h.book[side], p)

\* apply_level keeps the shape and sets the level.
LEMMA ApplyLevelSets ==
  ASSUME NEW h, HeatShape(h), NEW side \in Sides, NEW level \in DepthLevel, NEW ts \in Nat,
         NEW g, g = ApplyLevel(h, side, level, ts)
  PROVE  HeatShape(g) /\ Sets(h, g, side, level)
<1>1. level.price \in Nat /\ level.qty \in Nat
  BY DEF DepthLevel
<1>2. SideAgrees(h.book[side], h.states[side])
  BY DEF HeatShape
<1>3. PICK before, touched, near, kinds, c, states :
         /\ before = At(h.book[side], level.price)
         /\ touched = (level.price \in Best(h.book, side, 1))
         /\ c = SetLevel(h.book, side, level)
         /\ near = (level.price \in Best(h.book, side, NearTopLevels)
                                      \cup Best(c, side, NearTopLevels))
         /\ kinds = StackOrPull(before, level.qty, near)
         /\ states = UpdateState(h.states[side], level.price, before, level.qty, ts, touched)
  OBVIOUS
<1>4. /\ g.book = c
      /\ g.states = [h.states EXCEPT ![side] = states]
      /\ g.counts = [k \in DOMAIN h.counts |-> [s \in Sides |->
                       h.counts[k][s] + (IF k \in kinds /\ s = side THEN 1 ELSE 0)]]
      /\ g.events = IF kinds = {} THEN h.events
                    ELSE Recent(Append(h.events,
                        [kind |-> CHOOSE k \in kinds : TRUE, side |-> side,
                         price |-> level.price, before |-> before, after |-> level.qty]),
                        EventHistory)
  BY <1>3 DEF ApplyLevel
<1>5. before \in Nat /\ touched \in BOOLEAN
  BY <1>1, <1>2, <1>3 DEF SideAgrees, BookSide, At
<1>6. kinds \in {{}, {"stack"}, {"pull"}}
  BY <1>1, <1>3, <1>5, OneKind
<1>7. /\ DOMAIN c = DOMAIN h.book /\ BookSide(c[side])
      /\ \A s \in DOMAIN h.book \ {side} : c[s] = h.book[s]
      /\ \A p : At(c[side], p) = IF p = level.price THEN level.qty ELSE At(h.book[side], p)
      /\ DOMAIN c[side] \subseteq DOMAIN h.book[side] \cup {level.price}
  <2>1. side \in DOMAIN h.book /\ BookSide(h.book[side])
    BY <1>2 DEF HeatShape, SideAgrees
  <2> QED BY <1>3, <2>1, SetLevelSets
<1>8. PICK old : old = h.states[side]
  OBVIOUS
<1>9. /\ DOMAIN old \subseteq DOMAIN states /\ DOMAIN states \subseteq DOMAIN old \cup {level.price}
      /\ level.qty > 0 => level.price \in DOMAIN states
      /\ level.price \in DOMAIN states => Balances(states[level.price], level.qty)
      /\ \A p \in DOMAIN old \ {level.price} : states[p] = old[p]
  <2>1. level.price \in DOMAIN old => Balances(old[level.price], before)
    BY <1>2, <1>3, <1>8 DEF SideAgrees
  <2>2. level.price \notin DOMAIN old => before = 0
    BY <1>2, <1>3, <1>8 DEF SideAgrees, At
  <2>3. states = UpdateState(old, level.price, before, level.qty, ts, touched)
    BY <1>3, <1>8
  <2> QED BY <1>1, <1>5, <2>1, <2>2, <2>3, UpdateBalances
<1>10. Sets(h, g, side, level)
  BY <1>4, <1>7 DEF Sets, HeatShape
<1>11. DOMAIN g.book = Sides /\ DOMAIN g.states = Sides
  BY <1>4, <1>7 DEF HeatShape
<1>12. ASSUME NEW s \in Sides PROVE SideAgrees(g.book[s], g.states[s])
  <2>1. CASE s # side
    <3>1. g.book[s] = h.book[s] /\ g.states[s] = h.states[s]
      BY <1>4, <1>7, <2>1 DEF HeatShape
    <3> QED BY <3>1 DEF HeatShape
  <2>2. CASE s = side
    <3>1. g.book[s] = c[side] /\ g.states[s] = states
      BY <1>4, <2>2 DEF HeatShape
    <3>2. ASSUME NEW p \in DOMAIN c[side] PROVE p \in DOMAIN states
      <4>1. CASE p = level.price
        <5>1. c[side][p] = level.qty /\ c[side][p] \in Nat \ {0}
          BY <1>7, <3>2, <4>1 DEF At, BookSide
        <5> QED BY <1>9, <4>1, <5>1
      <4>2. CASE p # level.price
        BY <1>2, <1>7, <1>8, <1>9, <3>2, <4>2 DEF SideAgrees
      <4> QED BY <4>1, <4>2
    <3>3. ASSUME NEW p \in DOMAIN states PROVE Balances(states[p], At(c[side], p))
      <4>1. CASE p = level.price
        BY <1>7, <1>9, <3>3, <4>1
      <4>2. CASE p # level.price
        <5>1. p \in DOMAIN old /\ states[p] = old[p] /\ At(c[side], p) = At(h.book[side], p)
          BY <1>7, <1>9, <3>3, <4>2
        <5> QED BY <1>2, <1>8, <5>1 DEF SideAgrees
      <4> QED BY <4>1, <4>2
    <3> QED BY <1>7, <3>1, <3>2, <3>3 DEF SideAgrees
  <2> QED BY <2>1, <2>2
<1>13. g.counts \in [{"stack", "pull"} -> [Sides -> Nat]]
  <2>1. h.counts \in [{"stack", "pull"} -> [Sides -> Nat]]
    BY DEF HeatShape
  <2> QED BY <1>4, <2>1
<1>14. g.events \in Seq(HeatEvent) /\ Len(g.events) <= EventHistory
  <2>1. h.events \in Seq(HeatEvent) /\ Len(h.events) <= EventHistory
    BY DEF HeatShape
  <2>2. CASE kinds = {}
    BY <1>4, <2>1, <2>2
  <2>3. CASE kinds # {}
    <3>1. PICK k : k = CHOOSE j \in kinds : TRUE
      OBVIOUS
    <3>2. k \in {"stack", "pull"}
      BY <1>6, <2>3, <3>1
    <3>3. PICK e : e = [kind |-> k, side |-> side, price |-> level.price,
                        before |-> before, after |-> level.qty]
      OBVIOUS
    <3>4. e \in HeatEvent
      BY <1>1, <1>5, <3>2, <3>3 DEF HeatEvent
    <3>5. g.events = Recent(Append(h.events, e), EventHistory)
      BY <1>4, <2>3, <3>1, <3>3
    <3>6. Append(h.events, e) \in Seq(HeatEvent)
      BY <2>1, <3>4
    <3>7. EventHistory \in Nat
      BY HeatmapAssumption
    <3> QED BY <3>5, <3>6, <3>7, RecentType
  <2> QED BY <2>2, <2>3
<1> QED BY <1>10, <1>11, <1>12, <1>13, <1>14 DEF HeatShape

\* The states that apply_delta passes through, level by level
Run(f, h, side, levels, ts, n) ==
  /\ f[0] = h
  /\ \A k \in 1 .. n : f[k] = ApplyLevel(f[k - 1], side, levels[k], ts)

\* apply_delta can run over any number of levels.
LEMMA RunExists ==
  ASSUME NEW n \in Nat, NEW h, NEW side, NEW levels, NEW ts
  PROVE  \E f : f = [k \in 0 .. n |-> f[k]] /\ Run(f, h, side, levels, ts, n)
<1> DEFINE T == {m \in Nat : ~ \E f : /\ f = [k \in 0 .. m |-> f[k]]
                                      /\ Run(f, h, side, levels, ts, m)}
<1>1. SUFFICES ASSUME T # {} PROVE FALSE
  OBVIOUS
<1>2. T \subseteq Nat
  OBVIOUS
<1>3. PICK m \in T : \A j \in T : m <= j
  <2> HIDE DEF T
  <2> QED BY <1>1, <1>2, LeastElement
<1>4. m # 0
  <2> DEFINE e == [j \in 0 .. 0 |-> h]
  <2>1. e = [j \in 0 .. 0 |-> e[j]] /\ Run(e, h, side, levels, ts, 0)
    BY DEF Run
  <2> HIDE DEF e
  <2> QED BY <1>3, <2>1
<1>5. m - 1 \in Nat /\ m - 1 \notin T /\ m \in Nat
  BY <1>3, <1>4
<1>6. PICK f : Run(f, h, side, levels, ts, m - 1)
  BY <1>5
<1> DEFINE g == [k \in 0 .. m |-> IF k = m THEN ApplyLevel(f[m - 1], side, levels[m], ts)
                                  ELSE f[k]]
<1>7. /\ g[m] = ApplyLevel(f[m - 1], side, levels[m], ts) /\ g = [k \in 0 .. m |-> g[k]]
      /\ \A k \in 0 .. m - 1 : g[k] = f[k]
  BY <1>5
<1> HIDE DEF g
<1>8. ASSUME NEW k \in 1 .. m PROVE g[k] = ApplyLevel(g[k - 1], side, levels[k], ts)
  <2>1. CASE k = m
    <3>1. m - 1 \in 0 .. m - 1
      BY <1>5
    <3>2. g[m - 1] = f[m - 1]
      BY <1>7, <3>1
    <3> QED BY <1>7, <2>1, <3>2, Zenon
  <2>2. CASE k # m
    <3>1. k \in 1 .. m - 1 /\ k \in 0 .. m - 1 /\ k - 1 \in 0 .. m - 1
      BY <1>5, <2>2
    <3> QED BY <1>6, <1>7, <3>1, Zenon DEF Run
  <2> QED BY <2>1, <2>2
<1>9. g[0] = h
  <2>1. 0 \in 0 .. m - 1
    BY <1>5
  <2> QED BY <1>6, <1>7, <2>1 DEF Run
<1>10. Run(g, h, side, levels, ts, m)
  BY <1>8, <1>9, Zenon DEF Run
<1> QED BY <1>3, <1>7, <1>10

\* ApplyLevels is the last of them.
LEMMA ApplyLevelsIs ==
  ASSUME NEW n \in Nat, NEW h, NEW side, NEW levels, n = Len(levels), NEW ts
  PROVE  \E f : Run(f, h, side, levels, ts, n) /\ ApplyLevels(h, side, levels, ts) = f[n]
<1> DEFINE Rec(f) == f = [k \in 0 .. Len(levels) |->
                            IF k = 0 THEN h ELSE ApplyLevel(f[k - 1], side, levels[k], ts)]
           F == CHOOSE f : Rec(f)
<1>1. PICK f : f = [k \in 0 .. n |-> f[k]] /\ Run(f, h, side, levels, ts, n)
  BY RunExists
<1> DEFINE g == [k \in 0 .. n |-> IF k = 0 THEN h ELSE ApplyLevel(f[k - 1], side, levels[k], ts)]
<1>2. g = [k \in 0 .. n |-> g[k]] /\ g[0] = h
      /\ \A k \in 1 .. n : g[k] = ApplyLevel(f[k - 1], side, levels[k], ts)
  OBVIOUS
<1>3. ASSUME NEW k \in 0 .. n PROVE f[k] = g[k]
  <2>1. k = 0 \/ k \in 1 .. n
    OBVIOUS
  <2> HIDE DEF g
  <2> QED BY <1>1, <1>2, <2>1, Zenon DEF Run
<1>4. [k \in 0 .. n |-> f[k]] = [k \in 0 .. n |-> g[k]]
  <2> HIDE DEF g
  <2> QED BY <1>3
<1>5. f = g
  <2> HIDE DEF g
  <2> QED BY <1>1, <1>2, <1>4, Zenon
<1>6. Rec(f)
  BY <1>5, Zenon
<1>7. Rec(F)
  BY <1>6
<1>8. ApplyLevels(h, side, levels, ts) = F[n]
  BY DEF ApplyLevels
<1> HIDE DEF F
<1>9. PICK r : r = F
  OBVIOUS
<1> DEFINE q == [k \in 0 .. n |-> IF k = 0 THEN h ELSE ApplyLevel(r[k - 1], side, levels[k], ts)]
<1>10. r = q
  BY <1>7, <1>9, Zenon
<1>11. q[0] = h /\ \A k \in 1 .. n : q[k] = ApplyLevel(r[k - 1], side, levels[k], ts)
  OBVIOUS
<1> HIDE DEF q
<1>12. Run(r, h, side, levels, ts, n)
  BY <1>10, <1>11, Zenon DEF Run
<1> QED BY <1>8, <1>9, <1>12

\* What is left at a price after the first n of some levels, when it was old
Lands(levels, n, p, old, q) ==
  \/ (\A k \in 1 .. n : levels[k].price # p) /\ q = old
  \/ \E m \in 1 .. n : /\ levels[m].price = p /\ q = levels[m].qty
                       /\ \A k \in 1 .. n : levels[k].price = p => k <= m

\* One level more
LEMMA LandsStep ==
  ASSUME NEW levels, NEW k \in Nat \ {0}, NEW p, NEW o, NEW x, NEW y,
         Lands(levels, k - 1, p, o, x), y = IF p = levels[k].price THEN levels[k].qty ELSE x
  PROVE  Lands(levels, k, p, o, y)
<1>1. \A j \in 1 .. k : j \in 1 .. k - 1 \/ j = k
  OBVIOUS
<1>2. CASE p = levels[k].price
  <2>1. k \in 1 .. k /\ \A j \in 1 .. k : j <= k
    OBVIOUS
  <2> QED BY <1>2, <2>1 DEF Lands
<1>3. CASE p # levels[k].price
  <2>1. CASE (\A j \in 1 .. k - 1 : levels[j].price # p) /\ x = o
    BY <1>1, <1>3, <2>1 DEF Lands
  <2>2. CASE \E m \in 1 .. k - 1 : /\ levels[m].price = p /\ x = levels[m].qty
                 /\ \A j \in 1 .. k - 1 : levels[j].price = p => j <= m
    <3>1. PICK m \in 1 .. k - 1 : /\ levels[m].price = p /\ x = levels[m].qty
                 /\ \A j \in 1 .. k - 1 : levels[j].price = p => j <= m
      BY <2>2
    <3>2. m \in 1 .. k /\ \A j \in 1 .. k : levels[j].price = p => j <= m
      BY <1>1, <1>3, <3>1
    <3> QED BY <1>3, <3>1, <3>2 DEF Lands
  <2> QED BY <2>1, <2>2 DEF Lands
<1> QED BY <1>2, <1>3

\* h with the levels of one side taken in
BookLands(h, g, side, levels) ==
  /\ HeatShape(g)
  /\ \A s \in Sides \ {side} : g.book[s] = h.book[s]
  /\ \A p : Lands(levels, Len(levels), p, At(h.book[side], p), At(g.book[side], p))

\* The levels of one side, one after the other
LEMMA ApplyLevelsSet ==
  ASSUME NEW h, HeatShape(h), NEW side \in Sides, NEW levels \in Seq(DepthLevel), NEW ts \in Nat,
         NEW g, g = ApplyLevels(h, side, levels, ts)
  PROVE  BookLands(h, g, side, levels)
<1>1. PICK n \in Nat : n = Len(levels)
  OBVIOUS
<1>2. PICK f : Run(f, h, side, levels, ts, n) /\ g = f[n]
  BY <1>1, ApplyLevelsIs
<1>3. f[0] = h /\ \A k \in 1 .. n : f[k] = ApplyLevel(f[k - 1], side, levels[k], ts)
  BY <1>2 DEF Run
<1>4. \A k \in 1 .. n : levels[k] \in DepthLevel
  BY <1>1
<1> DEFINE Same(k) == \A s \in Sides \ {side} : f[k].book[s] = h.book[s]
           Landed(k) == \A p : Lands(levels, k, p, At(h.book[side], p), At(f[k].book[side], p))
           Good(k) == HeatShape(f[k]) /\ Same(k) /\ Landed(k)
           T == {k \in 0 .. n : ~Good(k)}
<1>5. Good(0)
  BY <1>3 DEF Lands
<1>6. ASSUME NEW k \in 1 .. n, Good(k - 1) PROVE Good(k)
  <2>1. PICK a, b, v : a = f[k - 1] /\ b = f[k] /\ v = levels[k]
    OBVIOUS
  <2>2. v \in DepthLevel /\ b = ApplyLevel(a, side, v, ts) /\ HeatShape(a)
    BY <1>3, <1>4, <1>6, <2>1
  <2>3. HeatShape(b) /\ Sets(a, b, side, v)
    BY <2>2, ApplyLevelSets
  <2>4. Same(k)
    BY <1>6, <2>1, <2>3 DEF Sets
  <2>5. ASSUME NEW p
        PROVE  Lands(levels, k, p, At(h.book[side], p), At(f[k].book[side], p))
    <3>1. PICK o, x, y : /\ o = At(h.book[side], p) /\ x = At(a.book[side], p)
                         /\ y = At(b.book[side], p)
      OBVIOUS
    <3>2. Lands(levels, k - 1, p, o, x)
      BY <1>6, <2>1, <3>1
    <3>3. y = IF p = levels[k].price THEN levels[k].qty ELSE x
      BY <2>1, <2>3, <3>1 DEF Sets
    <3>4. Lands(levels, k, p, o, y)
      BY <3>2, <3>3, LandsStep
    <3> QED BY <2>1, <3>1, <3>4
  <2> QED BY <2>1, <2>3, <2>4, <2>5
<1> HIDE DEF Good
<1>7. T = {}
  <2>1. SUFFICES ASSUME T # {} PROVE FALSE
    OBVIOUS
  <2>2. T \subseteq Nat
    OBVIOUS
  <2>3. PICK k \in T : \A j \in T : k <= j
    <3> HIDE DEF T
    <3> QED BY <2>1, <2>2, LeastElement
  <2>4. k \in 1 .. n /\ k - 1 \in 0 .. n /\ k - 1 \notin T
    BY <1>5, <2>3
  <2> QED BY <1>6, <2>3, <2>4
<1>8. n \in 0 .. n
  BY <1>1
<1>9. Good(n)
  BY <1>7, <1>8
<1> QED BY <1>1, <1>2, <1>9 DEF Good, BookLands

-----------------------------------------------------------------------------
\* The events that set a price, no earlier than the last snapshot
Since(l) == {p \in BookEvents(l) : \A s \in BookEvents(l) : l[s].kind = "snapshot" => s <= p}
Written(l, side, price) == {p \in Since(l) : Writes(l[p], side, price) # {}}
LastOf(e, side, price) == LevelsOf(e, side)[Max(Writes(e, side, price))].qty

\* m is l with an event e more, at position n.
Longer(l, m, e, n) ==
  /\ l \in Seq(MarketEvent) /\ m \in Seq(MarketEvent) /\ e \in MarketEvent
  /\ n \in Nat /\ DOMAIN m = DOMAIN l \cup {n} /\ m[n] = e
  /\ \A p \in DOMAIN l : p \in Nat /\ p < n /\ m[p] = l[p]

IsBookEvent(e) == e.kind \in {"delta", "snapshot"} /\ e.exchange \in HeatmapVenues

\* The quantity last sent is that of the last write.
LEMMA SentIs ==
  ASSUME NEW l, NEW side, NEW price
  PROVE  Sent(l, side, price) = IF Written(l, side, price) = {} THEN 0
                                ELSE LastOf(l[Max(Written(l, side, price))], side, price)
  BY DEF Sent, Written, Since, LastOf

\* The events of the book, with one more
LEMMA BookEventsGrow ==
  ASSUME NEW l, NEW m, NEW e, NEW n, Longer(l, m, e, n)
  PROVE  /\ BookEvents(m) = BookEvents(l) \cup (IF IsBookEvent(e) THEN {n} ELSE {})
         /\ BookEvents(l) \subseteq DOMAIN l
  BY DEF Longer, BookEvents, IsBookEvent

\* An event that writes nothing to a price leaves what was sent for it.
LEMMA SentStays ==
  ASSUME NEW l, NEW m, NEW e, NEW n, Longer(l, m, e, n), NEW side, NEW price,
         ~IsBookEvent(e) \/ (e.kind # "snapshot" /\ Writes(e, side, price) = {})
  PROVE  Sent(m, side, price) = Sent(l, side, price)
<1>1. /\ BookEvents(l) \subseteq BookEvents(m) /\ BookEvents(m) \subseteq BookEvents(l) \cup {n}
      /\ BookEvents(l) \subseteq DOMAIN l
      /\ \A p \in DOMAIN l : p \in Nat /\ p < n /\ m[p] = l[p]
      /\ m[n] = e /\ n \in Nat /\ (IsBookEvent(e) \/ n \notin BookEvents(m))
  BY BookEventsGrow DEF Longer
<1>2. n \in BookEvents(m) => m[n].kind # "snapshot" /\ Writes(m[n], side, price) = {}
  BY <1>1
<1>3. ASSUME NEW p PROVE p \in Written(m, side, price) <=> p \in Written(l, side, price)
  <2>1. CASE p = n
    BY <1>1, <1>2, <2>1 DEF Written, Since
  <2>2. CASE p # n
    <3>1. p \in BookEvents(m) <=> p \in BookEvents(l)
      BY <1>1, <2>2
    <3>2. ASSUME p \in BookEvents(l)
          PROVE  (\A s \in BookEvents(m) : m[s].kind = "snapshot" => s <= p)
                   <=> (\A s \in BookEvents(l) : l[s].kind = "snapshot" => s <= p)
      BY <1>1, <1>2, <3>2
    <3>3. p \in Since(m) <=> p \in Since(l)
      BY <3>1, <3>2 DEF Since
    <3>4. p \in Since(l) => m[p] = l[p]
      BY <1>1 DEF Since
    <3> QED BY <3>3, <3>4 DEF Written
  <2> QED BY <2>1, <2>2
<1>4. Written(m, side, price) = Written(l, side, price)
  BY <1>3
<1>5. PICK W : W = Written(l, side, price)
  OBVIOUS
<1>6. W \subseteq DOMAIN l
  BY <1>1, <1>5 DEF Written, Since
<1>7. W # {} => m[Max(W)] = l[Max(W)]
  <2>1. l \in Seq(MarketEvent)
    BY DEF Longer
  <2>2. W # {} => Max(W) \in DOMAIN l
    BY <1>6, <2>1, Positions
  <2> QED BY <1>1, <2>2
<1>8. Sent(m, side, price) = IF W = {} THEN 0 ELSE LastOf(m[Max(W)], side, price)
  BY <1>4, <1>5, SentIs
<1>9. Sent(l, side, price) = IF W = {} THEN 0 ELSE LastOf(l[Max(W)], side, price)
  BY <1>5, SentIs
<1>10. CASE W = {}
  BY <1>8, <1>9, <1>10
<1>11. CASE W # {}
  <2>1. PICK x, y : x = m[Max(W)] /\ y = l[Max(W)]
    OBVIOUS
  <2>2. x = y
    BY <1>7, <1>11, <2>1
  <2>3. Sent(m, side, price) = LastOf(x, side, price)
    BY <1>8, <1>11, <2>1
  <2>4. Sent(l, side, price) = LastOf(y, side, price)
    BY <1>9, <1>11, <2>1
  <2> QED BY <2>2, <2>3, <2>4, Zenon
<1> QED BY <1>10, <1>11

\* An event that writes to a price is the last one that does.
LEMMA SentChanges ==
  ASSUME NEW l, NEW m, NEW e, NEW n, Longer(l, m, e, n), NEW side, NEW price,
         IsBookEvent(e), Writes(e, side, price) # {}
  PROVE  Sent(m, side, price) = LastOf(e, side, price)
<1>1. /\ BookEvents(m) = BookEvents(l) \cup {n} /\ BookEvents(l) \subseteq DOMAIN l
      /\ \A p \in DOMAIN l : p \in Nat /\ p < n
      /\ m[n] = e /\ n \in Nat /\ m \in Seq(MarketEvent) /\ DOMAIN m = DOMAIN l \cup {n}
  BY BookEventsGrow DEF Longer
<1>2. PICK W : W = Written(m, side, price)
  OBVIOUS
<1>3. n \in W /\ W \subseteq DOMAIN m
  BY <1>1, <1>2 DEF Written, Since
<1>4. Max(W) \in W /\ \A p \in W : p <= Max(W)
  BY <1>1, <1>3, Positions
<1>5. Max(W) = n
  <2>1. \A p \in W : p \in Nat /\ p <= n
    BY <1>1, <1>3
  <2>2. PICK k : k = Max(W)
    OBVIOUS
  <2>3. k \in W /\ n <= k
    BY <1>3, <1>4, <2>2
  <2> QED BY <1>1, <2>1, <2>2, <2>3
<1>6. Sent(m, side, price) = LastOf(m[Max(W)], side, price)
  BY <1>2, <1>3, SentIs
<1> QED BY <1>1, <1>5, <1>6

\* A snapshot without a price empties it.
LEMMA SentNothing ==
  ASSUME NEW l, NEW m, NEW e, NEW n, Longer(l, m, e, n), NEW side, NEW price,
         IsBookEvent(e), e.kind = "snapshot", Writes(e, side, price) = {}
  PROVE  Sent(m, side, price) = 0
<1>1. /\ BookEvents(m) = BookEvents(l) \cup {n} /\ BookEvents(l) \subseteq DOMAIN l
      /\ \A p \in DOMAIN l : p \in Nat /\ p < n
      /\ m[n] = e /\ n \in Nat
  BY BookEventsGrow DEF Longer
<1>2. Since(m) \subseteq {n}
  BY <1>1 DEF Since
<1>3. Written(m, side, price) = {}
  BY <1>1, <1>2 DEF Written
<1> QED BY <1>3, SentIs

-----------------------------------------------------------------------------
\* The heatmap h of a log l
HeatIs(h, l) ==
  /\ HeatShape(h)
  /\ \A side \in Sides : \A price : At(h.book[side], price) = Sent(l, side, price)

HeatState == [book |-> book, states |-> levelState, counts |-> stackPull,
              events |-> heatEvents]
HeatInv == HeatIs(HeatState, log)

\* The levels of an event that write a price are some of its finitely many.
LEMMA WritesType ==
  ASSUME NEW e, NEW side, LevelsOf(e, side) \in Seq(DepthLevel), NEW price
  PROVE  /\ Writes(e, side, price) \subseteq DOMAIN LevelsOf(e, side)
         /\ Writes(e, side, price) # {} =>
              /\ Max(Writes(e, side, price)) \in Writes(e, side, price)
              /\ \A k \in Writes(e, side, price) : k <= Max(Writes(e, side, price))
<1>1. PICK levels : levels = LevelsOf(e, side)
  OBVIOUS
<1>2. DOMAIN levels = 1 .. Len(levels) /\ Len(levels) \in Nat
  BY <1>1
<1>3. PICK W : W = Writes(e, side, price)
  OBVIOUS
<1>4. W \subseteq DOMAIN levels
  BY <1>1, <1>3 DEF Writes
<1>5. IsFiniteSet(W) /\ W \subseteq Int
  <2>1. IsFiniteSet(DOMAIN levels) /\ DOMAIN levels \subseteq Int
    BY <1>2, FS_Interval
  <2> QED BY <1>4, <2>1, FS_Subset
<1>6. W # {} => Max(W) \in W /\ \A k \in W : k <= Max(W)
  BY <1>5, GreatestElement
<1> QED BY <1>1, <1>3, <1>4, <1>6, Zenon

\* The sides of an event of the book
LEMMA SidesType ==
  ASSUME NEW e \in MarketEvent, IsBookEvent(e), NEW side
  PROVE  LevelsOf(e, side) \in Seq(DepthLevel) /\ e.ts \in Nat
<1>1. e \in DepthDelta \/ e \in OrderBookSnapshot
  BY EventType DEF IsBookEvent
<1>2. e.bids \in Seq(DepthLevel) /\ e.asks \in Seq(DepthLevel) /\ e.ts \in Nat
  BY <1>1 DEF DepthDelta, OrderBookSnapshot
<1> QED BY <1>2 DEF LevelsOf

\* After a delta a price has what the last of its levels says.
LEMMA LandsLast ==
  ASSUME NEW e, e.kind = "delta", NEW side, LevelsOf(e, side) \in Seq(DepthLevel),
         NEW price, NEW old, NEW q,
         Lands(LevelsOf(e, side), Len(LevelsOf(e, side)), price, old, q)
  PROVE  \/ Writes(e, side, price) = {} /\ q = old
         \/ Writes(e, side, price) # {} /\ q = LastOf(e, side, price)
<1>1. PICK levels, n, W : /\ levels = LevelsOf(e, side) /\ n = Len(levels)
                          /\ W = Writes(e, side, price)
  OBVIOUS
<1>2. DOMAIN levels = 1 .. n /\ n \in Nat
  BY <1>1
<1>3. \A k : k \in W <=> k \in 1 .. n /\ levels[k].price = price
  BY <1>1, <1>2 DEF Writes
<1>4. CASE (\A k \in 1 .. n : levels[k].price # price) /\ q = old
  <2>1. W = {}
    BY <1>3, <1>4
  <2> QED BY <1>1, <1>4, <2>1
<1>5. CASE \E m \in 1 .. n : /\ levels[m].price = price /\ q = levels[m].qty
                             /\ \A k \in 1 .. n : levels[k].price = price => k <= m
  <2>1. PICK m \in 1 .. n : /\ levels[m].price = price /\ q = levels[m].qty
                            /\ \A k \in 1 .. n : levels[k].price = price => k <= m
    BY <1>5
  <2>2. m \in W
    BY <1>3, <2>1
  <2>3. Max(W) \in W /\ \A k \in W : k <= Max(W)
    BY <1>1, <2>2, WritesType
  <2>4. PICK x : x = Max(W)
    OBVIOUS
  <2>5. x \in 1 .. n /\ x <= m /\ m <= x
    BY <1>3, <2>1, <2>2, <2>3, <2>4
  <2>6. x = m
    BY <2>5
  <2>7. LastOf(e, side, price) = levels[x].qty
    BY <1>1, <2>4 DEF LastOf
  <2> QED BY <1>1, <2>1, <2>2, <2>6, <2>7
<1> QED BY <1>1, <1>4, <1>5, Zenon DEF Lands

\* apply_delta
LEMMA DeltaShows ==
  ASSUME NEW l, NEW m, NEW e, NEW n, Longer(l, m, e, n), IsBookEvent(e), e.kind = "delta",
         NEW h, HeatIs(h, l),
         NEW g, g = ApplyLevels(ApplyLevels(h, "bid", e.bids, e.ts), "ask", e.asks, e.ts)
  PROVE  HeatIs(g, m)
<1>1. PICK a : a = ApplyLevels(h, "bid", e.bids, e.ts)
  OBVIOUS
<1>2. g = ApplyLevels(a, "ask", e.asks, e.ts)
  BY <1>1
<1>3. e.bids = LevelsOf(e, "bid") /\ e.asks = LevelsOf(e, "ask")
  BY DEF LevelsOf
<1>4. e \in MarketEvent
  BY DEF Longer
<1>5. LevelsOf(e, "bid") \in Seq(DepthLevel) /\ LevelsOf(e, "ask") \in Seq(DepthLevel) /\ e.ts \in Nat
  BY <1>4, SidesType
<1>6. "bid" \in Sides /\ "ask" \in Sides /\ Sides \ {"bid"} = {"ask"} /\ Sides \ {"ask"} = {"bid"}
  BY DEF Sides
<1>7. HeatShape(h)
  BY DEF HeatIs
<1>8. PICK bids, asks, ts : bids = e.bids /\ asks = e.asks /\ ts = e.ts
  OBVIOUS
<1>9. /\ HeatShape(a)
      /\ a.book["ask"] = h.book["ask"]
      /\ \A p : Lands(bids, Len(bids), p, At(h.book["bid"], p), At(a.book["bid"], p))
  <2>1. a = ApplyLevels(h, "bid", bids, ts) /\ bids \in Seq(DepthLevel) /\ ts \in Nat
    BY <1>1, <1>3, <1>5, <1>8
  <2>2. BookLands(h, a, "bid", bids)
    BY <1>6, <1>7, <2>1, ApplyLevelsSet
  <2> QED BY <1>6, <2>2, Zenon DEF BookLands
<1>10. /\ HeatShape(g)
       /\ g.book["bid"] = a.book["bid"]
       /\ \A p : Lands(asks, Len(asks), p, At(a.book["ask"], p), At(g.book["ask"], p))
  <2>1. g = ApplyLevels(a, "ask", asks, ts) /\ asks \in Seq(DepthLevel) /\ ts \in Nat
    BY <1>2, <1>3, <1>5, <1>8
  <2>2. BookLands(a, g, "ask", asks)
    BY <1>6, <1>9, <2>1, ApplyLevelsSet
  <2> QED BY <1>6, <2>2, Zenon DEF BookLands
<1>11. ASSUME NEW side \in Sides, NEW price
       PROVE  At(g.book[side], price) = Sent(m, side, price)
  <2>1. PICK levels, old, q : /\ levels = LevelsOf(e, side) /\ old = At(h.book[side], price)
                              /\ q = At(g.book[side], price)
    OBVIOUS
  <2>2. Lands(levels, Len(levels), price, old, q)
    <3>1. CASE side = "bid"
      BY <1>3, <1>8, <1>9, <1>10, <2>1, <3>1, Zenon
    <3>2. CASE side = "ask"
      BY <1>3, <1>8, <1>9, <1>10, <2>1, <3>2, Zenon
    <3> QED BY <3>1, <3>2 DEF Sides
  <2>3. levels \in Seq(DepthLevel)
    BY <1>4, <2>1, SidesType
  <2>4. \/ Writes(e, side, price) = {} /\ q = old
        \/ Writes(e, side, price) # {} /\ q = LastOf(e, side, price)
    BY <2>1, <2>2, <2>3, LandsLast
  <2>5. old = Sent(l, side, price)
    BY <2>1 DEF HeatIs
  <2>6. CASE Writes(e, side, price) = {}
    BY <2>1, <2>4, <2>5, <2>6, SentStays
  <2>7. CASE Writes(e, side, price) # {}
    BY <2>1, <2>4, <2>7, SentChanges
  <2> QED BY <2>6, <2>7
<1> QED BY <1>10, <1>11 DEF HeatIs

\* apply_snapshot
Filled(e, side) == {k \in DOMAIN LevelsOf(e, side) : LevelsOf(e, side)[k].qty > 0}
FilledPrices(e, side) == {LevelsOf(e, side)[k].price : k \in Filled(e, side)}
FilledAt(e, side, p) == {k \in Filled(e, side) : LevelsOf(e, side)[k].price = p}
Filling(e, side) == [p \in FilledPrices(e, side) |-> LevelsOf(e, side)[Max(FilledAt(e, side, p))].qty]
SnapshotState(e) ==
  [book |-> [side \in Sides |-> Filling(e, side)],
   states |-> [side \in Sides |-> [p \in FilledPrices(e, side) |->
     [NewLevel(e.ts) EXCEPT !.added = Filling(e, side)[p], !.qty = Filling(e, side)[p]]]],
   counts |-> NoCounts, events |-> <<>>]

\* After a snapshot the heatmap shows that snapshot.
LEMMA SnapshotShows ==
  ASSUME NEW l, NEW m, NEW e, NEW n, Longer(l, m, e, n), IsBookEvent(e), e.kind = "snapshot",
         NEW g, g = SnapshotState(e)
  PROVE  HeatIs(g, m)
<1>1. e \in MarketEvent
  BY DEF Longer
<1>2. ASSUME NEW side
      PROVE  /\ DOMAIN Filling(e, side) = FilledPrices(e, side)
             /\ \A p : FilledAt(e, side, p) = Writes(e, side, p)
             /\ \A p : p \in FilledPrices(e, side) <=> Writes(e, side, p) # {}
             /\ \A p \in FilledPrices(e, side) :
                  /\ Filling(e, side)[p] = LastOf(e, side, p)
                  /\ p \in Nat /\ LastOf(e, side, p) \in Nat \ {0}
  <2>1. PICK levels : levels = LevelsOf(e, side)
    OBVIOUS
  <2>2. levels \in Seq(DepthLevel) /\ \A k \in DOMAIN levels : levels[k] \in DepthLevel
    BY <1>1, <2>1, SidesType
  <2>3. \A p : FilledAt(e, side, p) = Writes(e, side, p)
    BY DEF FilledAt, Filled, Writes
  <2>4. \A p : p \in FilledPrices(e, side) <=> Writes(e, side, p) # {}
    BY DEF FilledPrices, Filled, Writes
  <2>5. DOMAIN Filling(e, side) = FilledPrices(e, side)
    BY DEF Filling
  <2>6. ASSUME NEW p \in FilledPrices(e, side)
        PROVE  /\ Filling(e, side)[p] = LastOf(e, side, p)
               /\ p \in Nat /\ LastOf(e, side, p) \in Nat \ {0}
    <3>1. PICK x : x = Max(Writes(e, side, p))
      OBVIOUS
    <3>2. Filling(e, side)[p] = levels[Max(FilledAt(e, side, p))].qty
      BY <2>1 DEF Filling
    <3>3. Filling(e, side)[p] = levels[x].qty
      BY <2>3, <3>1, <3>2, Zenon
    <3>4. x \in Writes(e, side, p)
      BY <2>1, <2>2, <2>4, <3>1, WritesType
    <3>5. x \in DOMAIN levels /\ levels[x].price = p /\ levels[x].qty > 0
      BY <2>1, <3>4 DEF Writes
    <3>6. LastOf(e, side, p) = levels[x].qty
      BY <2>1, <3>1 DEF LastOf
    <3>7. levels[x].price \in Nat /\ levels[x].qty \in Nat
      BY <2>2, <3>5 DEF DepthLevel
    <3> QED BY <3>3, <3>5, <3>6, <3>7
  <2> QED BY <2>3, <2>4, <2>5, <2>6
<1>3. /\ DOMAIN g.book = Sides /\ DOMAIN g.states = Sides
      /\ g.counts = NoCounts /\ g.events = <<>>
      /\ \A side \in Sides : g.book[side] = Filling(e, side)
      /\ \A side \in Sides : g.states[side] = [p \in FilledPrices(e, side) |->
           [NewLevel(e.ts) EXCEPT !.added = Filling(e, side)[p], !.qty = Filling(e, side)[p]]]
  BY DEF SnapshotState
<1>4. ASSUME NEW side \in Sides PROVE SideAgrees(g.book[side], g.states[side])
  <2>1. PICK b, s : b = g.book[side] /\ s = g.states[side]
    OBVIOUS
  <2>2. b = Filling(e, side) /\ DOMAIN b = FilledPrices(e, side)
    BY <1>2, <1>3, <2>1
  <2>3. \A p \in DOMAIN b : p \in Nat /\ b[p] \in Nat \ {0}
    BY <1>2, <2>2
  <2>4. s = [p \in FilledPrices(e, side) |-> [NewLevel(e.ts) EXCEPT !.added = b[p], !.qty = b[p]]]
    <3>1. \A B, t : /\ B = Filling(e, side)
                   /\ t = [p \in FilledPrices(e, side) |->
                         [NewLevel(e.ts) EXCEPT !.added = Filling(e, side)[p],
                                                !.qty = Filling(e, side)[p]]]
             => t = [p \in FilledPrices(e, side) |->
                       [NewLevel(e.ts) EXCEPT !.added = B[p], !.qty = B[p]]]
      BY Zenon
    <3>2. s = [p \in FilledPrices(e, side) |->
                [NewLevel(e.ts) EXCEPT !.added = Filling(e, side)[p], !.qty = Filling(e, side)[p]]]
      BY <1>3, <2>1
    <3> QED BY <2>2, <3>1, <3>2
  <2>5. DOMAIN s = DOMAIN b
    BY <2>2, <2>4
  <2>6. ASSUME NEW p \in DOMAIN s PROVE Balances(s[p], At(b, p))
    <3>1. s[p] = [NewLevel(e.ts) EXCEPT !.added = b[p], !.qty = b[p]]
      BY <2>2, <2>4, <2>5
    <3>2. s[p] = [added |-> b[p], removed |-> 0, touches |-> 0, survived |-> 0,
                  vanished |-> 0, firstSeen |-> e.ts, qty |-> b[p]]
      BY <3>1 DEF NewLevel
    <3>3. At(b, p) = b[p] /\ b[p] \in Nat /\ e.ts \in Nat
      BY <1>1, <2>3, <2>5, SidesType DEF At
    <3> QED BY <3>2, <3>3 DEF Balances, LevelRecord
  <2> QED BY <2>1, <2>3, <2>5, <2>6 DEF SideAgrees, BookSide
<1>5. g.counts \in [{"stack", "pull"} -> [Sides -> Nat]]
  <2>1. NoCounts \in [{"stack", "pull"} -> [Sides -> Nat]]
    BY DEF NoCounts
  <2> QED BY <1>3, <2>1, Zenon
<1>6. g.events \in Seq(HeatEvent) /\ Len(g.events) <= EventHistory
  <2>1. <<>> \in Seq(HeatEvent) /\ Len(<<>>) = 0
    OBVIOUS
  <2>2. 0 <= EventHistory
    BY HeatmapAssumption
  <2> QED BY <1>3, <2>1, <2>2, Zenon
<1>7. ASSUME NEW side \in Sides, NEW price
      PROVE  At(g.book[side], price) = Sent(m, side, price)
  <2>1. g.book[side] = Filling(e, side)
    BY <1>3
  <2>2. CASE Writes(e, side, price) = {}
    <3>1. At(g.book[side], price) = 0
      BY <1>2, <2>1, <2>2 DEF At
    <3> QED BY <2>2, <3>1, SentNothing
  <2>3. CASE Writes(e, side, price) # {}
    <3>1. At(g.book[side], price) = LastOf(e, side, price)
      BY <1>2, <2>1, <2>3 DEF At
    <3> QED BY <2>3, <3>1, SentChanges
  <2> QED BY <2>2, <2>3
<1> QED BY <1>3, <1>4, <1>5, <1>6, <1>7 DEF HeatIs, HeatShape

\* The heatmap starts empty, like the log.
LEMMA HeatStart == Init => HeatInv
<1> SUFFICES ASSUME Init PROVE HeatInv
  OBVIOUS
<1>1. log = <<>> /\ HeatmapInit
  BY DEF Init
<1>2. PICK h : h = HeatState
  OBVIOUS
<1>3. /\ h.book = [side \in Sides |-> NoEntries] /\ h.states = [side \in Sides |-> NoEntries]
      /\ h.counts = NoCounts /\ h.events = <<>>
  BY <1>1, <1>2 DEF HeatmapInit, HeatState
<1>4. DOMAIN NoEntries = {}
  BY DEF NoEntries
<1>5. ASSUME NEW side \in Sides
      PROVE  SideAgrees(h.book[side], h.states[side]) /\ \A p : At(h.book[side], p) = 0
  BY <1>3, <1>4 DEF SideAgrees, BookSide, At
<1>6. h.counts \in [{"stack", "pull"} -> [Sides -> Nat]]
  <2>1. NoCounts \in [{"stack", "pull"} -> [Sides -> Nat]]
    BY DEF NoCounts
  <2> QED BY <1>3, <2>1, Zenon
<1>7. h.events \in Seq(HeatEvent) /\ Len(h.events) <= EventHistory
  <2>1. <<>> \in Seq(HeatEvent) /\ Len(<<>>) = 0
    OBVIOUS
  <2>2. 0 <= EventHistory
    BY HeatmapAssumption
  <2> QED BY <1>3, <2>1, <2>2, Zenon
<1>8. \A side, p : Sent(<<>>, side, p) = 0
  <2>1. \A side, p : Written(<<>>, side, p) = {}
    BY DEF Written, Since, BookEvents
  <2> QED BY <2>1, SentIs
<1>9. DOMAIN h.book = Sides /\ DOMAIN h.states = Sides
  BY <1>3
<1>10. HeatShape(h)
  BY <1>5, <1>6, <1>7, <1>9 DEF HeatShape
<1>11. HeatIs(h, <<>>)
  BY <1>5, <1>8, <1>10 DEF HeatIs
<1> QED BY <1>1, <1>2, <1>11 DEF HeatInv

\* Every event keeps the heatmap that of the log.
LEMMA HeatKeeps ==
  ASSUME LogInv, LogInv', HeatInv, NEW e, NEW n, Takes(e, n), HeatmapReceives(e)
  PROVE  HeatInv'
<1>1. PICK l, m, h : l = log /\ m = log' /\ h = HeatState
  OBVIOUS
<1>2. Longer(l, m, e, n)
  BY <1>1 DEF LogInv, Takes, Longer
<1>3. HeatIs(h, l)
  BY <1>1 DEF HeatInv
<1>4. SUFFICES ASSUME NEW g, g = HeatState' PROVE HeatIs(g, m)
  BY <1>1 DEF HeatInv
<1>5. CASE e.kind = "snapshot" /\ e.exchange \in HeatmapVenues
  <2>1. ApplySnapshot(e)
    BY <1>5 DEF HeatmapReceives
  <2>2. Becomes(SnapshotState(e))
    BY <2>1 DEF ApplySnapshot, SnapshotState, Filling, FilledPrices, FilledAt, Filled
  <2>3. PICK s : s = SnapshotState(e)
    OBVIOUS
  <2>4. g = [book |-> s.book, states |-> s.states, counts |-> s.counts, events |-> s.events]
    BY <1>4, <2>2, <2>3 DEF Becomes, HeatState
  <2>5. s = [book |-> s.book, states |-> s.states, counts |-> s.counts, events |-> s.events]
    BY <2>3 DEF SnapshotState
  <2>6. g = s
    BY <2>4, <2>5, Zenon
  <2>7. IsBookEvent(e)
    BY <1>5 DEF IsBookEvent
  <2> QED BY <1>2, <1>5, <2>3, <2>6, <2>7, SnapshotShows
<1>6. CASE e.kind = "delta" /\ e.exchange \in HeatmapVenues
  <2>1. ApplyDelta(e)
    BY <1>6 DEF HeatmapReceives
  <2>2. PICK s : s = ApplyLevels(ApplyLevels(h, "bid", e.bids, e.ts), "ask", e.asks, e.ts)
    OBVIOUS
  <2>3. Becomes(s)
    BY <1>1, <2>1, <2>2 DEF ApplyDelta, HeatState
  <2>4. g = [book |-> s.book, states |-> s.states, counts |-> s.counts, events |-> s.events]
    BY <1>4, <2>3 DEF Becomes, HeatState
  <2>5. IsBookEvent(e)
    BY <1>6 DEF IsBookEvent
  <2>6. HeatIs(s, m)
    BY <1>2, <1>3, <1>6, <2>2, <2>5, DeltaShows
  <2>7. g.book = s.book /\ g.states = s.states /\ g.counts = s.counts /\ g.events = s.events
    BY <2>4
  <2> QED BY <2>6, <2>7, Zenon DEF HeatIs, HeatShape
<1>7. CASE ~IsBookEvent(e)
  <2>1. UNCHANGED heatmapVars
    BY <1>7 DEF HeatmapReceives, IsBookEvent
  <2>2. g = h
    BY <1>1, <1>4, <2>1 DEF heatmapVars, HeatState
  <2>3. \A side, price : Sent(m, side, price) = Sent(l, side, price)
    BY <1>2, <1>7, SentStays
  <2> QED BY <1>3, <2>2, <2>3, Zenon DEF HeatIs
<1> QED BY <1>5, <1>6, <1>7 DEF IsBookEvent

\* The state of the heatmap follows the log in every behaviour.
LEMMA HeatAlways == Spec => [](LogInv /\ HeatInv)
<1>1. Init => LogInv /\ HeatInv
  BY LogStart, HeatStart
<1>2. LogInv /\ HeatInv /\ [Next]_vars => (LogInv /\ HeatInv)'
  <2> SUFFICES ASSUME LogInv, HeatInv, [Next]_vars PROVE (LogInv /\ HeatInv)'
    OBVIOUS
  <2>1. CASE UNCHANGED vars
    <3>1. feed' = feed /\ log' = log /\ UNCHANGED heatmapVars
      BY <2>1 DEF vars
    <3>2. LogInv'
      BY <3>1 DEF LogInv
    <3>3. HeatState' = HeatState
      BY <3>1 DEF heatmapVars, HeatState
    <3> QED BY <3>1, <3>2, <3>3 DEF HeatInv
  <2>2. CASE Next
    <3>1. PICK e \in feed.events : Receive(e)
      BY <2>2 DEF Next
    <3>2. LogInv' /\ \E n : Takes(e, n)
      BY <3>1, LogStep DEF Receive
    <3> QED BY <3>1, <3>2, HeatKeeps DEF Receive
  <2> QED BY <2>1, <2>2
<1> QED BY <1>1, <1>2, PTL DEF Spec

\* What follows for the state
LEMMA HeatmapFollows == HeatInv => HeatmapIsTheLastWrite /\ HeatmapTypeOK
<1> SUFFICES ASSUME HeatInv PROVE HeatmapIsTheLastWrite /\ HeatmapTypeOK
  OBVIOUS
<1>1. /\ \A side \in Sides : SideAgrees(book[side], levelState[side])
      /\ \A side \in Sides : \A price : At(book[side], price) = Sent(log, side, price)
      /\ stackPull \in [{"stack", "pull"} -> [Sides -> Nat]]
      /\ Len(heatEvents) <= EventHistory
  BY DEF HeatInv, HeatIs, HeatShape, HeatState
<1>2. ASSUME NEW side \in Sides
      PROVE  /\ \A p \in DOMAIN book[side] : book[side][p] \in Nat \ {0}
             /\ \A p \in DOMAIN levelState[side] : Balances(levelState[side][p], At(book[side], p))
  BY <1>1 DEF SideAgrees, BookSide
<1>3. ASSUME NEW side \in Sides, NEW price
      PROVE  price \in DOMAIN book[side] <=> Sent(log, side, price) > 0
  <2>1. price \in DOMAIN book[side] => At(book[side], price) \in Nat \ {0}
    BY <1>2 DEF At
  <2>2. price \notin DOMAIN book[side] => At(book[side], price) = 0
    BY DEF At
  <2>3. PICK q : q = Sent(log, side, price)
    OBVIOUS
  <2>4. At(book[side], price) = q
    BY <1>1, <2>3
  <2> QED BY <2>1, <2>2, <2>3, <2>4
<1>4. HeatmapIsTheLastWrite
  BY <1>1, <1>2, <1>3, Zenon DEF HeatmapIsTheLastWrite, Balances
<1>5. HeatmapTypeOK
  <2>1. \A s, q : Balances(s, q) => s.touches \in Nat
    BY DEF Balances, LevelRecord
  <2> QED BY <1>1, <1>2, <2>1, Zenon DEF HeatmapTypeOK
<1> QED BY <1>4, <1>5

(***************************************************************************)
(* For every feed the heatmap is, price by price, the last quantity that   *)
(* was sent since the last snapshot, and the history of every level        *)
(* balances, however deltas and snapshots of the venues alternate.         *)
(* (heatmap.rs: apply_delta, apply_snapshot, set_level, update_state)      *)
(***************************************************************************)
THEOREM TheHeatmapIsTheLastWrite == Spec => []HeatmapIsTheLastWrite
  BY HeatAlways, HeatmapFollows, PTL

-----------------------------------------------------------------------------
(***************************************************************************)
(* The hidden liquidity engine                                             *)
(***************************************************************************)
HiddenRecord == [kind : {"Iceberg", "Replenishment", "SpoofPull", "LiquidationImpulse"},
                 price : Nat, ts : Nat]
Pool == [touches : Nat, last : Nat]

Shown(d) == \A p \in DOMAIN d : d[p] \in Nat
Pools(pools) ==
  /\ IsFiniteSet(DOMAIN pools) /\ DOMAIN pools \subseteq Int
  /\ \A p \in DOMAIN pools : pools[p] \in Pool
RecentOnes(events) == events \in Seq(HiddenRecord) /\ Len(events) <= RecentEvents

HiddenShape ==
  /\ Shown(displayed)
  /\ Pools(stopPools) /\ Cardinality(DOMAIN stopPools) <= StopPoolHistory
  /\ \A x \in DOMAIN exchangeTs : exchangeTs[x] \in Nat
  /\ funding \in Option(Int)
  /\ icebergs \in Nat /\ spoofPulls \in Nat /\ crowding \in Int
  /\ RecentOnes(hiddenEvents)

\* push_event, for one event or none
LEMMA PushType ==
  ASSUME NEW events, RecentOnes(events), NEW new, new \in Seq(HiddenRecord)
  PROVE  RecentOnes(Push(events, new))
<1>1. PICK s : s = events \o new
  OBVIOUS
<1>2. s \in Seq(HiddenRecord)
  BY <1>1, ConcatProperties DEF RecentOnes
<1>3. RecentEvents \in Nat
  BY HiddenAssumption
<1>4. Push(events, new) = Recent(s, RecentEvents)
  BY <1>1 DEF Push
<1> QED BY <1>2, <1>3, <1>4, RecentType DEF RecentOnes

\* What an engine adds is a sequence of hidden liquidity records.
LEMMA EventSequences ==
  /\ <<>> \in Seq(HiddenRecord)
  /\ \A k \in {"Iceberg", "Replenishment", "SpoofPull", "LiquidationImpulse"} :
       \A p, t \in Nat : <<HiddenEvent(k, p, t)>> \in Seq(HiddenRecord)
  BY DEF HiddenEvent, HiddenRecord

\* The pools touched longest ago go first.
LEMMA DropOldestDrops ==
  ASSUME NEW pools, Pools(pools), NEW new, new = DropOldest(pools)
  PROVE  /\ Pools(new)
         /\ Cardinality(DOMAIN pools) <= StopPoolHistory => new = pools
         /\ Cardinality(DOMAIN pools) > StopPoolHistory =>
              Cardinality(DOMAIN new) = Cardinality(DOMAIN pools) - 1
<1>1. PICK D : D = DOMAIN pools
  OBVIOUS
<1>2. IsFiniteSet(D) /\ D \subseteq Int /\ Cardinality(D) \in Nat
  BY <1>1, FS_CardinalityType DEF Pools
<1>3. StopPoolHistory \in Nat \ {0}
  BY HiddenAssumption
<1>4. CASE Cardinality(D) <= StopPoolHistory
  <2>1. new = pools
    BY <1>1, <1>4 DEF DropOldest
  <2> QED BY <1>1, <1>2, <1>3, <1>4, <2>1
<1>5. CASE Cardinality(D) > StopPoolHistory
  <2> DEFINE First(p) == \A q \in D : \/ pools[p].last < pools[q].last
                                      \/ pools[p].last = pools[q].last /\ p <= q
  <2>1. \A p \in D : pools[p].last \in Nat
    BY <1>1 DEF Pools, Pool
  <2>2. \E p \in D : First(p)
    <3> DEFINE L == {pools[p].last : p \in D}
    <3>1. L \subseteq Nat
      BY <2>1
    <3>2. D # {}
      <4>1. Cardinality(D) # 0
        BY <1>2, <1>3, <1>5
      <4> QED BY <1>2, <4>1, FS_EmptySet
    <3>3. PICK t \in L : \A u \in L : t <= u
      <4>1. L # {}
        BY <3>2
      <4> HIDE DEF L
      <4> QED BY <3>1, <4>1, LeastElement
    <3> DEFINE E == {p \in D : pools[p].last = t}
    <3>4. E # {} /\ E \subseteq Int /\ IsFiniteSet(E)
      BY <1>2, <3>3, FS_Subset
    <3>5. Min(E) \in E /\ \A q \in E : Min(E) <= q
      <4> HIDE DEF E
      <4> QED BY <3>4, LeastOfAll
    <3>6. PICK p : p = Min(E)
      OBVIOUS
    <3>7. p \in D /\ pools[p].last = t /\ \A q \in D : pools[q].last = t => p <= q
      BY <3>5, <3>6
    <3>8. \A q \in D : t <= pools[q].last
      BY <3>3
    <3>9. First(p)
      BY <2>1, <3>7, <3>8
    <3> QED BY <3>7, <3>9
  <2>3. PICK o : o = CHOOSE p \in D : First(p)
    OBVIOUS
  <2>4. o \in D
    BY <2>2, <2>3
  <2>5. new = [p \in D \ {o} |-> pools[p]]
    <3>1. ~(Cardinality(D) <= StopPoolHistory)
      BY <1>2, <1>3, <1>5
    <3> QED BY <1>1, <2>3, <3>1, Zenon DEF DropOldest
  <2>6. DOMAIN new = D \ {o} /\ \A p \in DOMAIN new : new[p] = pools[p]
    BY <2>5
  <2>7. IsFiniteSet(D \ {o}) /\ Cardinality(D \ {o}) = Cardinality(D) - 1
    BY <1>2, <2>4, FS_RemoveElement
  <2>8. Pools(new)
    BY <1>1, <1>2, <2>6, <2>7 DEF Pools
  <2>9. ~(Cardinality(D) <= StopPoolHistory)
    BY <1>2, <1>3, <1>5
  <2> QED BY <1>1, <2>6, <2>7, <2>8, <2>9
<1> QED BY <1>2, <1>3, <1>4, <1>5

\* A set with an element more
LEMMA OneMore ==
  ASSUME NEW S, IsFiniteSet(S), NEW x
  PROVE  /\ IsFiniteSet(S \cup {x}) /\ Cardinality(S \cup {x}) \in Nat
         /\ Cardinality(S \cup {x}) <= Cardinality(S) + 1
<1>1. IsFiniteSet(S \cup {x}) /\ Cardinality(S) \in Nat
  BY FS_AddElement, FS_CardinalityType
<1>2. Cardinality(S \cup {x}) \in {Cardinality(S), Cardinality(S) + 1}
  BY FS_AddElement
<1> QED BY <1>1, <1>2

\* At most three prices are added.
LEMMA TouchType ==
  ASSUME NEW pools, Pools(pools), NEW price \in Nat, NEW ts \in Nat,
         NEW new, new = Touch(pools, price, ts)
  PROVE  Pools(new) /\ Cardinality(DOMAIN new) <= Cardinality(DOMAIN pools) + 3
<1>1. PICK D : D = DOMAIN pools
  OBVIOUS
<1>2. IsFiniteSet(D) /\ D \subseteq Int /\ Cardinality(D) \in Nat
  BY <1>1, FS_CardinalityType DEF Pools
<1>3. PICK a, b, c : /\ a = PoolPrices(price)[1] /\ b = PoolPrices(price)[2]
                     /\ c = PoolPrices(price)[3]
  OBVIOUS
<1>4. a \in Int /\ b \in Int /\ c \in Int
  <2>1. /\ RoundNumber \in Nat \ {0} /\ PriceUnit \in Nat \ {0}
        /\ RoundNumber \div 2 \in Nat
    BY HiddenAssumption
  <2>2. /\ price + RoundNumber \div 2 \in Nat /\ price + PriceUnit - 1 \in Nat
    BY <2>1
  <2>3. /\ FloorTo(price + RoundNumber \div 2, RoundNumber) \in Nat
        /\ FloorTo(price, PriceUnit) \in Nat
        /\ FloorTo(price + PriceUnit - 1, PriceUnit) \in Nat
    BY <2>1, <2>2, FloorBounds
  <2>4. /\ a = FloorTo(price + RoundNumber \div 2, RoundNumber)
        /\ b = FloorTo(price, PriceUnit)
        /\ c = FloorTo(price + PriceUnit - 1, PriceUnit)
    BY <1>3 DEF PoolPrices
  <2> QED BY <2>3, <2>4
<1>5. {PoolPrices(price)[k] : k \in 1 .. 3} = {a, b, c}
  <2>1. 1 .. 3 = {1, 2, 3}
    OBVIOUS
  <2> QED BY <1>3, <2>1
<1> DEFINE Hits(p) == Cardinality({k \in 1 .. 3 : PoolPrices(price)[k] = p})
           Old(p) == IF p \in D THEN pools[p] ELSE [touches |-> 0, last |-> ts]
           Entry(p) == IF Hits(p) = 0 THEN Old(p)
                       ELSE [touches |-> Old(p).touches + Hits(p), last |-> ts]
<1>6. new = [p \in D \cup {a, b, c} |-> Entry(p)]
  BY <1>1, <1>5, Zenon DEF Touch
<1>7. ASSUME NEW p PROVE Entry(p) \in Pool
  <2>1. Hits(p) \in Nat
    <3>1. IsFiniteSet({k \in 1 .. 3 : PoolPrices(price)[k] = p})
      <4>1. IsFiniteSet(1 .. 3)
        <5>1. PICK i, j \in Int : i = 1 /\ j = 3
          OBVIOUS
        <5>2. IsFiniteSet(i .. j)
          BY FS_Interval
        <5> QED BY <5>1, <5>2
      <4>2. {k \in 1 .. 3 : PoolPrices(price)[k] = p} \subseteq 1 .. 3
        OBVIOUS
      <4> QED BY <4>1, <4>2, FS_Subset
    <3> QED BY <3>1, FS_CardinalityType
  <2>2. Old(p) \in Pool
    BY <1>1 DEF Pools, Pool
  <2> HIDE DEF Hits, Old
  <2> QED BY <2>1, <2>2 DEF Pool
<1> HIDE DEF Entry
<1>8. DOMAIN new = D \cup {a, b, c} /\ \A p \in DOMAIN new : new[p] \in Pool
  BY <1>6, <1>7
<1>9. /\ IsFiniteSet(D \cup {a}) /\ Cardinality(D \cup {a}) <= Cardinality(D) + 1
      /\ Cardinality(D \cup {a}) \in Nat
  BY <1>2, OneMore
<1>10. PICK A : A = D \cup {a}
  OBVIOUS
<1>11. /\ IsFiniteSet(A \cup {b}) /\ Cardinality(A \cup {b}) <= Cardinality(A) + 1
       /\ Cardinality(A \cup {b}) \in Nat
  BY <1>9, <1>10, OneMore
<1>12. PICK B : B = A \cup {b}
  OBVIOUS
<1>13. /\ IsFiniteSet(B \cup {c}) /\ Cardinality(B \cup {c}) <= Cardinality(B) + 1
       /\ Cardinality(B \cup {c}) \in Nat
  BY <1>11, <1>12, OneMore
<1>14. D \cup {a, b, c} = B \cup {c}
  BY <1>10, <1>12
<1>15. Cardinality(B \cup {c}) <= Cardinality(D) + 3
  BY <1>2, <1>9, <1>10, <1>11, <1>12, <1>13
<1>16. D \cup {a, b, c} \subseteq Int
  BY <1>2, <1>4
<1> QED BY <1>1, <1>8, <1>13, <1>14, <1>15, <1>16 DEF Pools

\* update_stop_pools
LEMMA PoolsStayFew ==
  ASSUME NEW pools, Pools(pools), Cardinality(DOMAIN pools) <= StopPoolHistory,
         NEW price \in Nat, NEW ts \in Nat,
         NEW new, new = DropOldest(DropOldest(DropOldest(Touch(pools, price, ts))))
  PROVE  Pools(new) /\ Cardinality(DOMAIN new) <= StopPoolHistory
<1>1. PICK a, b, c : /\ a = Touch(pools, price, ts) /\ b = DropOldest(a) /\ c = DropOldest(b)
  OBVIOUS
<1>2. new = DropOldest(c)
  BY <1>1
<1>3. Pools(a) /\ Cardinality(DOMAIN a) <= Cardinality(DOMAIN pools) + 3
  BY <1>1, TouchType
<1>4. Pools(b) /\ Pools(c) /\ Pools(new)
  BY <1>1, <1>2, <1>3, DropOldestDrops
<1>5. \A q : Pools(q) => Cardinality(DOMAIN q) \in Nat
  BY FS_CardinalityType DEF Pools
<1>6. PICK h, k, x, y, z, w :
         /\ h = StopPoolHistory /\ k = Cardinality(DOMAIN pools) /\ x = Cardinality(DOMAIN a)
         /\ y = Cardinality(DOMAIN b) /\ z = Cardinality(DOMAIN c) /\ w = Cardinality(DOMAIN new)
  OBVIOUS
<1>7. /\ h \in Nat /\ k \in Nat /\ x \in Nat /\ y \in Nat /\ z \in Nat /\ w \in Nat
      /\ k <= h /\ x <= k + 3
  BY <1>3, <1>4, <1>5, <1>6, HiddenAssumption
<1>8. (x <= h => y = x) /\ (x > h => y = x - 1)
  BY <1>1, <1>3, <1>6, DropOldestDrops
<1>9. (y <= h => z = y) /\ (y > h => z = y - 1)
  BY <1>1, <1>4, <1>6, DropOldestDrops
<1>10. (z <= h => w = z) /\ (z > h => w = z - 1)
  BY <1>2, <1>4, <1>6, DropOldestDrops
<1> QED BY <1>4, <1>6, <1>7, <1>8, <1>9, <1>10

\* refresh_impulse_and_crowding: an event or none
LEMMA ImpulseType ==
  ASSUME NEW l, l \in Seq(MarketEvent), NEW deque, deque \in SUBSET Trades(l)
  PROVE  Impulse(l, deque) \in Seq(HiddenRecord)
<1>1. CASE deque = {}
  <2>1. Impulse(l, deque) = <<>>
    BY <1>1 DEF Impulse
  <2> QED BY <2>1, EventSequences
<1>2. CASE deque # {}
  <2>1. PICK b, ps : b = Max(deque) /\ ps = HiddenWindowOf(l, deque)
    OBVIOUS
  <2>2. b \in deque
    BY <1>2, <2>1, TradesType
  <2>3. \A p \in Trades(l) : l[p].ts \in Nat /\ l[p].price \in Nat
    BY TradesType DEF Trade
  <2>4. b \in ps
    <3>1. l[b].ts >= l[b].ts - HiddenWindow
      BY <2>2, <2>3, HiddenAssumption
    <3> QED BY <2>1, <2>2, <3>1 DEF HiddenWindowOf
  <2>5. ps \in SUBSET Trades(l)
    BY <2>1 DEF HiddenWindowOf
  <2>6. PICK c : c = Max(ps)
    OBVIOUS
  <2>7. c \in ps
    BY <2>4, <2>5, <2>6, TradesType
  <2>8. PICK v : v = <<HiddenEvent("LiquidationImpulse", l[c].price, l[b].ts)>>
    OBVIOUS
  <2>9. v \in Seq(HiddenRecord)
    BY <2>2, <2>3, <2>5, <2>7, <2>8, EventSequences
  <2>10. Impulse(l, deque) = v \/ Impulse(l, deque) = <<>>
    BY <1>2, <2>1, <2>6, <2>8 DEF Impulse
  <2> QED BY <2>9, <2>10, EventSequences
<1> QED BY <1>1, <1>2

\* The crowding stays an integer.
LEMMA CrowdingType ==
  ASSUME crowding \in Int, NEW l, NEW deque, NEW rate \in Option(Int)
  PROVE  Crowding(l, deque, rate) \in Int
<1>1. PICK d : d = Direction(SignedSum(l, HiddenWindowOf(l, deque)))
  OBVIOUS
<1>2. d \in Int
  BY <1>1 DEF Direction
<1>3. rate # {} => (CHOOSE r \in rate : TRUE) \in Int
  BY DEF Option
<1>4. PICK r : r = CHOOSE x \in rate : TRUE
  OBVIOUS
<1>5. rate # {} => r * d \in Int
  BY <1>2, <1>3, <1>4
<1>6. Crowding(l, deque, rate) = IF deque = {} THEN crowding ELSE IF rate = {} THEN 0 ELSE r * d
  BY <1>1, <1>4 DEF Crowding
<1> QED BY <1>5, <1>6

-----------------------------------------------------------------------------
\* The removal of a large quantity that no trade excuses
Spoof(d, level, ts) ==
  At(d, level.price) - level.qty >= LargePull /\ ~TradedNear(level.price, ts)

HiddenPart(h) == Shown(h.displayed) /\ RecentOnes(h.events) /\ h.spoofPulls \in Nat

\* h with one level taken in
LevelDoes(h, level, ts, o) ==
  /\ HiddenPart(o)
  /\ \A p : At(o.displayed, p) = IF p = level.price THEN level.qty ELSE At(h.displayed, p)
  /\ Spoof(h.displayed, level, ts) => o.spoofPulls = h.spoofPulls + 1
  /\ ~Spoof(h.displayed, level, ts) => o.spoofPulls = h.spoofPulls

\* observe_level
LEMMA ObserveLevelDoes ==
  ASSUME NEW h, HiddenPart(h), NEW level \in DepthLevel, NEW ts \in Nat,
         NEW o, o = ObserveLevel(h, level, ts)
  PROVE  LevelDoes(h, level, ts, o)
<1>0. Shown(h.displayed) /\ RecentOnes(h.events) /\ h.spoofPulls \in Nat
  BY DEF HiddenPart
<1>1. level.price \in Nat /\ level.qty \in Nat
  BY DEF DepthLevel
<1>2. PICK price, qty, previous :
        price = level.price /\ qty = level.qty /\ previous = At(h.displayed, level.price)
  OBVIOUS
<1>3. previous \in Nat
  BY <1>0, <1>2 DEF At, Shown
<1>4. PICK spoof \in BOOLEAN : spoof = Spoof(h.displayed, level, ts)
  BY DEF Spoof
<1>5. /\ o.displayed = Put(h.displayed, price, qty)
      /\ o.spoofPulls = h.spoofPulls + (IF spoof THEN 1 ELSE 0)
      /\ o.events = CASE spoof -> Push(h.events, <<HiddenEvent("SpoofPull", price, ts)>>)
                      [] qty > previous /\ previous > 0 ->
                           Push(h.events, <<HiddenEvent("Replenishment", price, ts)>>)
                      [] OTHER -> h.events
  BY <1>2, <1>4 DEF ObserveLevel, Spoof
<1>6. /\ DOMAIN o.displayed = DOMAIN h.displayed \cup {price} /\ o.displayed[price] = qty
      /\ \A p \in DOMAIN h.displayed : p # price => o.displayed[p] = h.displayed[p]
  BY <1>5 DEF Put
<1>7. Shown(o.displayed)
  BY <1>0, <1>1, <1>2, <1>6 DEF Shown
<1>8. \A p : At(o.displayed, p) = IF p = price THEN qty ELSE At(h.displayed, p)
  BY <1>6 DEF At
<1>9. RecentOnes(o.events)
  <2>1. PICK u, v : /\ u = <<HiddenEvent("SpoofPull", price, ts)>>
                    /\ v = <<HiddenEvent("Replenishment", price, ts)>>
    OBVIOUS
  <2>2. u \in Seq(HiddenRecord) /\ v \in Seq(HiddenRecord)
    BY <1>1, <1>2, <2>1, EventSequences
  <2>3. RecentOnes(Push(h.events, u)) /\ RecentOnes(Push(h.events, v))
    BY <1>0, <2>2, PushType
  <2>4. o.events \in {Push(h.events, u), Push(h.events, v), h.events}
    <3>1. CASE spoof
      <4>1. ~(qty > previous /\ previous > 0)
        <5>1. previous - qty >= LargePull
          BY <1>2, <1>4, <3>1, Zenon DEF Spoof
        <5>2. LargePull \in Nat \ {0} /\ qty \in Nat
          BY <1>1, <1>2, HiddenAssumption
        <5> QED BY <1>3, <5>1, <5>2
      <4> QED BY <1>5, <2>1, <3>1, <4>1
    <3>2. CASE ~spoof
      BY <1>5, <2>1, <3>2
    <3> QED BY <3>1, <3>2
  <2> QED BY <1>0, <2>3, <2>4
<1>10. o.spoofPulls \in Nat
  BY <1>0, <1>5
<1>11. HiddenPart(o)
  BY <1>7, <1>9, <1>10 DEF HiddenPart
<1>12. /\ spoof => o.spoofPulls = h.spoofPulls + 1
       /\ ~spoof => o.spoofPulls = h.spoofPulls
  BY <1>0, <1>5
<1> QED BY <1>2, <1>4, <1>8, <1>11, <1>12, Zenon DEF LevelDoes

\* The states that observe_depth_delta passes through, level by level
Observes(f, h, levels, ts, n) ==
  /\ f[0] = h
  /\ \A k \in 1 .. n : f[k] = ObserveLevel(f[k - 1], levels[k], ts)

\* observe_depth_delta can run over any number of levels.
LEMMA ObservesExists ==
  ASSUME NEW n \in Nat, NEW h, NEW levels, NEW ts
  PROVE  \E f : f = [k \in 0 .. n |-> f[k]] /\ Observes(f, h, levels, ts, n)
<1> DEFINE T == {m \in Nat : ~ \E f : /\ f = [k \in 0 .. m |-> f[k]]
                                      /\ Observes(f, h, levels, ts, m)}
<1>1. SUFFICES ASSUME T # {} PROVE FALSE
  OBVIOUS
<1>2. T \subseteq Nat
  OBVIOUS
<1>3. PICK m \in T : \A j \in T : m <= j
  <2> HIDE DEF T
  <2> QED BY <1>1, <1>2, LeastElement
<1>4. m # 0
  <2> DEFINE e == [j \in 0 .. 0 |-> h]
  <2>1. e = [j \in 0 .. 0 |-> e[j]] /\ Observes(e, h, levels, ts, 0)
    BY DEF Observes
  <2> HIDE DEF e
  <2> QED BY <1>3, <2>1
<1>5. m - 1 \in Nat /\ m - 1 \notin T /\ m \in Nat
  BY <1>3, <1>4
<1>6. PICK f : Observes(f, h, levels, ts, m - 1)
  BY <1>5
<1> DEFINE g == [k \in 0 .. m |-> IF k = m THEN ObserveLevel(f[m - 1], levels[m], ts)
                                  ELSE f[k]]
<1>7. /\ g[m] = ObserveLevel(f[m - 1], levels[m], ts) /\ g = [k \in 0 .. m |-> g[k]]
      /\ \A k \in 0 .. m - 1 : g[k] = f[k]
  BY <1>5
<1> HIDE DEF g
<1>8. ASSUME NEW k \in 1 .. m PROVE g[k] = ObserveLevel(g[k - 1], levels[k], ts)
  <2>1. CASE k = m
    <3>1. m - 1 \in 0 .. m - 1
      BY <1>5
    <3>2. g[m - 1] = f[m - 1]
      BY <1>7, <3>1
    <3> QED BY <1>7, <2>1, <3>2, Zenon
  <2>2. CASE k # m
    <3>1. k \in 1 .. m - 1 /\ k \in 0 .. m - 1 /\ k - 1 \in 0 .. m - 1
      BY <1>5, <2>2
    <3> QED BY <1>6, <1>7, <3>1, Zenon DEF Observes
  <2> QED BY <2>1, <2>2
<1>9. g[0] = h
  <2>1. 0 \in 0 .. m - 1
    BY <1>5
  <2> QED BY <1>6, <1>7, <2>1 DEF Observes
<1>10. Observes(g, h, levels, ts, m)
  BY <1>8, <1>9, Zenon DEF Observes
<1> QED BY <1>3, <1>7, <1>10

\* ObserveLevels is the last of them.
LEMMA ObserveLevelsIs ==
  ASSUME NEW n \in Nat, NEW h, NEW levels, n = Len(levels), NEW ts
  PROVE  \E f : Observes(f, h, levels, ts, n) /\ ObserveLevels(h, levels, ts) = f[n]
<1> DEFINE Rec(f) == f = [k \in 0 .. Len(levels) |->
                            IF k = 0 THEN h ELSE ObserveLevel(f[k - 1], levels[k], ts)]
           F == CHOOSE f : Rec(f)
<1>1. PICK f : f = [k \in 0 .. n |-> f[k]] /\ Observes(f, h, levels, ts, n)
  BY ObservesExists
<1> DEFINE g == [k \in 0 .. n |-> IF k = 0 THEN h ELSE ObserveLevel(f[k - 1], levels[k], ts)]
<1>2. g = [k \in 0 .. n |-> g[k]] /\ g[0] = h
      /\ \A k \in 1 .. n : g[k] = ObserveLevel(f[k - 1], levels[k], ts)
  OBVIOUS
<1>3. ASSUME NEW k \in 0 .. n PROVE f[k] = g[k]
  <2>1. k = 0 \/ k \in 1 .. n
    OBVIOUS
  <2> HIDE DEF g
  <2> QED BY <1>1, <1>2, <2>1, Zenon DEF Observes
<1>4. [k \in 0 .. n |-> f[k]] = [k \in 0 .. n |-> g[k]]
  <2> HIDE DEF g
  <2> QED BY <1>3
<1>5. f = g
  <2> HIDE DEF g
  <2> QED BY <1>1, <1>2, <1>4, Zenon
<1>6. Rec(f)
  BY <1>5, Zenon
<1>7. Rec(F)
  BY <1>6
<1>8. ObserveLevels(h, levels, ts) = F[n]
  BY DEF ObserveLevels
<1> HIDE DEF F
<1>9. PICK r : r = F
  OBVIOUS
<1> DEFINE q == [k \in 0 .. n |-> IF k = 0 THEN h ELSE ObserveLevel(r[k - 1], levels[k], ts)]
<1>10. r = q
  BY <1>7, <1>9, Zenon
<1>11. q[0] = h /\ \A k \in 1 .. n : q[k] = ObserveLevel(r[k - 1], levels[k], ts)
  OBVIOUS
<1> HIDE DEF q
<1>12. Observes(r, h, levels, ts, n)
  BY <1>10, <1>11, Zenon DEF Observes
<1> QED BY <1>8, <1>9, <1>12

\* No two levels of one price
Distinct(levels) == \A i, j \in DOMAIN levels : levels[i].price = levels[j].price => i = j

\* The spoofs among the first k levels of a delta at position n
Spoofs(d, levels, k, ts, n) == {<<n, levels[j].price>> : j \in {i \in 1 .. k : Spoof(d, levels[i], ts)}}

\* h with the levels of a delta at position n taken in
HasObserved(h, g, levels, ts, n) ==
  /\ HiddenPart(g)
  /\ \A p : Lands(levels, Len(levels), p, At(h.displayed, p), At(g.displayed, p))
  /\ Distinct(levels) =>
       /\ IsFiniteSet(Spoofs(h.displayed, levels, Len(levels), ts, n))
       /\ g.spoofPulls = h.spoofPulls
                           + Cardinality(Spoofs(h.displayed, levels, Len(levels), ts, n))

\* The levels of a delta, one after the other
LEMMA LevelsObserved ==
  ASSUME NEW h, HiddenPart(h), NEW levels \in Seq(DepthLevel), NEW ts \in Nat,
         NEW n, NEW g, g = ObserveLevels(h, levels, ts)
  PROVE  HasObserved(h, g, levels, ts, n)
<1>1. PICK last \in Nat : last = Len(levels)
  OBVIOUS
<1>2. PICK f : Observes(f, h, levels, ts, last) /\ g = f[last]
  BY <1>1, ObserveLevelsIs
<1>3. f[0] = h /\ \A k \in 1 .. last : f[k] = ObserveLevel(f[k - 1], levels[k], ts)
  BY <1>2 DEF Observes
<1>4. DOMAIN levels = 1 .. last /\ \A k \in 1 .. last : levels[k] \in DepthLevel
  BY <1>1
<1> DEFINE S(k) == Spoofs(h.displayed, levels, k, ts, n)
           Typed(k) == HiddenPart(f[k])
           Landed(k) == \A p : Lands(levels, k, p, At(h.displayed, p), At(f[k].displayed, p))
           Counted(k) == IsFiniteSet(S(k)) /\ f[k].spoofPulls = h.spoofPulls + Cardinality(S(k))
           Good(k) == Typed(k) /\ Landed(k) /\ (Distinct(levels) => Counted(k))
           T == {k \in 0 .. last : ~Good(k)}
<1>5. Good(0)
  <2>1. S(0) = {}
    BY DEF Spoofs
  <2>2. PICK x : x = h.spoofPulls
    OBVIOUS
  <2>3. IsFiniteSet({}) /\ Cardinality({}) = 0
    BY FS_EmptySet
  <2>4. Counted(0)
    <3> HIDE DEF S
    <3>1. IsFiniteSet(S(0)) /\ Cardinality(S(0)) = 0
      BY <2>1, <2>3, Zenon
    <3>2. x \in Nat /\ x = x + 0
      BY <2>2 DEF HiddenPart
    <3>3. f[0].spoofPulls = x
      BY <1>3, <2>2
    <3>4. f[0].spoofPulls = h.spoofPulls + Cardinality(S(0))
      BY <2>2, <3>1, <3>2, <3>3
    <3> QED BY <3>1, <3>4
  <2>5. \A k : k \notin 1 .. 0
    OBVIOUS
  <2>6. \A p, o : Lands(levels, 0, p, o, o)
    BY <2>5, Zenon DEF Lands
  <2>7. Typed(0) /\ Landed(0)
    BY <1>3, <2>6, Zenon
  <2> HIDE DEF Counted, Typed, Landed
  <2> QED BY <2>4, <2>7
<1>6. ASSUME NEW k \in 1 .. last, Good(k - 1) PROVE Good(k)
  <2>1. PICK a, b, v : a = f[k - 1] /\ b = f[k] /\ v = levels[k]
    OBVIOUS
  <2>2. /\ v \in DepthLevel /\ b = ObserveLevel(a, v, ts)
        /\ HiddenPart(a)
    <3> HIDE DEF Landed, Counted
    <3> QED BY <1>3, <1>4, <1>6, <2>1
  <2>3. LevelDoes(a, v, ts, b)
    BY <2>2, ObserveLevelDoes
  <2>4. ASSUME NEW p
        PROVE  Lands(levels, k, p, At(h.displayed, p), At(f[k].displayed, p))
    <3>1. PICK o, x, y : /\ o = At(h.displayed, p) /\ x = At(a.displayed, p)
                         /\ y = At(b.displayed, p)
      OBVIOUS
    <3>2. Lands(levels, k - 1, p, o, x)
      BY <1>6, <2>1, <3>1
    <3>3. y = IF p = levels[k].price THEN levels[k].qty ELSE x
      BY <2>1, <2>3, <3>1, Zenon DEF LevelDoes
    <3>4. Lands(levels, k, p, o, y)
      BY <3>2, <3>3, LandsStep
    <3> QED BY <2>1, <3>1, <3>4
  <2>5. ASSUME Distinct(levels) PROVE Counted(k)
    <3>1. Lands(levels, k - 1, v.price, At(h.displayed, v.price), At(a.displayed, v.price))
      BY <1>6, <2>1
    <3>2. \A j \in 1 .. k - 1 : levels[j].price # v.price
      BY <1>4, <2>1, <2>5 DEF Distinct
    <3>3. At(a.displayed, v.price) = At(h.displayed, v.price)
      BY <3>1, <3>2 DEF Lands
    <3>4. Spoof(a.displayed, v, ts) <=> Spoof(h.displayed, v, ts)
      BY <3>3, Zenon DEF Spoof
    <3>5. IsFiniteSet(S(k - 1)) /\ a.spoofPulls = h.spoofPulls + Cardinality(S(k - 1))
      BY <1>6, <2>1, <2>5
    <3>6. \A j : j \in 1 .. k <=> j \in 1 .. k - 1 \/ j = k
      OBVIOUS
    <3>7. CASE Spoof(h.displayed, v, ts)
      <4>1. S(k) = S(k - 1) \cup {<<n, v.price>>}
        BY <2>1, <3>6, <3>7 DEF Spoofs
      <4>2. <<n, v.price>> \notin S(k - 1)
        BY <3>2 DEF Spoofs
      <4> HIDE DEF S
      <4>3. PICK P, x : P = S(k - 1) /\ x = <<n, v.price>>
        OBVIOUS
      <4>4. IsFiniteSet(P) /\ x \notin P /\ S(k) = P \cup {x}
        BY <3>5, <4>1, <4>2, <4>3, Zenon
      <4>5. IsFiniteSet(S(k)) /\ Cardinality(S(k)) = Cardinality(P) + 1 /\ Cardinality(P) \in Nat
        <5>1. IsFiniteSet(P \cup {x}) /\ Cardinality(P \cup {x}) = Cardinality(P) + 1
          BY <4>4, FS_AddElement
        <5>2. Cardinality(P) \in Nat
          BY <4>4, FS_CardinalityType
        <5> QED BY <4>4, <5>1, <5>2, Zenon
      <4>6. b.spoofPulls = a.spoofPulls + 1
        BY <2>3, <3>4, <3>7, Zenon DEF LevelDoes
      <4>7. PICK i, j, c : i = h.spoofPulls /\ j = a.spoofPulls /\ c = Cardinality(P)
        OBVIOUS
      <4>8. i \in Nat /\ j = i + c /\ c \in Nat
        BY <3>5, <4>3, <4>5, <4>7, Zenon DEF HiddenPart
      <4>9. j + 1 = i + (c + 1)
        BY <4>8
      <4>10. f[k].spoofPulls = h.spoofPulls + Cardinality(S(k))
        BY <2>1, <4>5, <4>6, <4>7, <4>9, Zenon
      <4> QED BY <4>5, <4>10
    <3>8. CASE ~Spoof(h.displayed, v, ts)
      <4>1. S(k) = S(k - 1)
        BY <2>1, <3>6, <3>8 DEF Spoofs
      <4> HIDE DEF S
      <4>2. b.spoofPulls = a.spoofPulls
        BY <2>3, <3>4, <3>8, Zenon DEF LevelDoes
      <4> QED BY <2>1, <3>5, <4>1, <4>2, Zenon
    <3> QED BY <3>7, <3>8
  <2>6. Typed(k)
    BY <2>1, <2>3, Zenon DEF LevelDoes
  <2> HIDE DEF Counted, Typed
  <2> QED BY <2>4, <2>5, <2>6
<1> HIDE DEF Good
<1>7. T = {}
  <2>1. SUFFICES ASSUME T # {} PROVE FALSE
    OBVIOUS
  <2>2. T \subseteq Nat
    OBVIOUS
  <2>3. PICK k \in T : \A j \in T : k <= j
    <3> HIDE DEF T
    <3> QED BY <2>1, <2>2, LeastElement
  <2>4. k \in 1 .. last /\ k - 1 \in 0 .. last /\ k - 1 \notin T
    BY <1>5, <2>3
  <2> QED BY <1>6, <2>3, <2>4
<1>8. last \in 0 .. last
  BY <1>1
<1>9. Good(last)
  BY <1>7, <1>8
<1> QED BY <1>1, <1>2, <1>9 DEF Good, HasObserved

-----------------------------------------------------------------------------
\* The deltas that name a price, and the quantity the last of them gives it
NamedBy(l, price) == {q \in Deltas(l) : price \in Named(l[q])}
ShownAt(l, price) ==
  IF NamedBy(l, price) = {} THEN 0 ELSE QtyIn(l[Max(NamedBy(l, price))], price)

\* What displayed quantities and pulls have to do with a log of one book
BookFollows(l, d, spoofs) ==
  /\ \A price : At(d, price) = ShownAt(l, price)
  /\ IsFiniteSet(UntradedPulls(l, 0)) /\ IsFiniteSet(UntradedPulls(l, Jitter))
  /\ spoofs >= Cardinality(UntradedPulls(l, 0))
  /\ spoofs <= Cardinality(UntradedPulls(l, Jitter))

HiddenInv ==
  /\ HiddenShape
  /\ DequeInv(log, hiddenTrades, HiddenWindow)
  /\ OneBook(log) => BookFollows(log, displayed, spoofPulls)

\* An event adds its own position to those of its kind.
LEMMA DeltasGrow ==
  ASSUME NEW l, NEW m, NEW e, NEW n, Longer(l, m, e, n)
  PROVE  /\ Deltas(m) = Deltas(l) \cup (IF e.kind = "delta" THEN {n} ELSE {})
         /\ Deltas(l) \subseteq DOMAIN l /\ Deltas(m) \subseteq DOMAIN m
         /\ Trades(m) = Trades(l) \cup (IF e.kind = "trade" THEN {n} ELSE {})
         /\ Trades(l) \subseteq DOMAIN l
         /\ n \notin DOMAIN l
  BY DEF Longer, Deltas, Trades

\* The levels of a delta
LEMMA AllLevelsType ==
  ASSUME NEW e \in MarketEvent, e.kind = "delta"
  PROVE  AllLevels(e) \in Seq(DepthLevel) /\ e.ts \in Nat
<1>1. e \in DepthDelta
  BY EventType
<1>2. e.bids \in Seq(DepthLevel) /\ e.asks \in Seq(DepthLevel) /\ e.ts \in Nat
  BY <1>1 DEF DepthDelta
<1> QED BY <1>2, ConcatProperties DEF AllLevels

\* As many prices as levels: no price is named twice.
LEMMA NamedOnce ==
  ASSUME NEW e \in MarketEvent, e.kind = "delta",
         Cardinality(Named(e)) = Len(AllLevels(e))
  PROVE  Distinct(AllLevels(e))
<1>1. PICK levels, k : levels = AllLevels(e) /\ k = Len(levels)
  OBVIOUS
<1>2. k \in Nat /\ DOMAIN levels = 1 .. k
  BY <1>1, AllLevelsType
<1>3. Named(e) = {levels[i].price : i \in 1 .. k}
  BY <1>1, <1>2, Zenon DEF Named
<1>4. PICK f : f = [i \in 1 .. k |-> levels[i].price]
  OBVIOUS
<1>5. f \in Surjection(1 .. k, Named(e))
  BY <1>3, <1>4 DEF Surjection
<1>6. IsFiniteSet(1 .. k) /\ Cardinality(1 .. k) = k
  <2>1. 1 \in Int /\ k \in Int
    BY <1>2
  <2>2. IsFiniteSet(1 .. k) /\ Cardinality(1 .. k) = IF 1 > k THEN 0 ELSE k - 1 + 1
    BY <2>1, FS_Interval
  <2> QED BY <1>2, <2>2
<1>7. f \in Injection(1 .. k, Named(e))
  BY <1>1, <1>5, <1>6, FS_Surjection
<1>8. \A i, j \in 1 .. k : f[i] = f[j] => i = j
  BY <1>7, Zenon DEF Injection, IsInjective
<1> QED BY <1>1, <1>2, <1>4, <1>8 DEF Distinct

\* A history of one book has been one all along.
LEMMA OneBookBefore ==
  ASSUME NEW l, NEW m, NEW e, NEW n, Longer(l, m, e, n), OneBook(m)
  PROVE  OneBook(l)
<1>1. \A p \in Deltas(l) : p \in Deltas(m) /\ m[p] = l[p]
  BY DeltasGrow DEF Longer
<1> QED BY <1>1, Zenon DEF OneBook

\* The quantity a delta without a price named twice gives one
LEMMA LandsNamed ==
  ASSUME NEW e \in MarketEvent, e.kind = "delta", Distinct(AllLevels(e)),
         NEW price, NEW old, NEW q, Lands(AllLevels(e), Len(AllLevels(e)), price, old, q)
  PROVE  \/ price \notin Named(e) /\ q = old
         \/ price \in Named(e) /\ q = QtyIn(e, price)
<1>1. PICK levels, k : levels = AllLevels(e) /\ k = Len(levels)
  OBVIOUS
<1>2. k \in Nat /\ DOMAIN levels = 1 .. k
  BY <1>1, AllLevelsType
<1>3. CASE (\A i \in 1 .. k : levels[i].price # price) /\ q = old
  BY <1>1, <1>2, <1>3 DEF Named
<1>4. CASE \E j \in 1 .. k : levels[j].price = price /\ q = levels[j].qty
  <2>1. PICK j \in 1 .. k : levels[j].price = price /\ q = levels[j].qty
    BY <1>4
  <2>2. \A i \in DOMAIN levels : levels[i].price = price => i = j
    BY <1>1, <1>2, <2>1 DEF Distinct
  <2>3. j = CHOOSE i \in DOMAIN levels : levels[i].price = price
    BY <1>2, <2>1, <2>2
  <2>4. QtyIn(e, price) = levels[j].qty
    BY <1>1, <2>3, Zenon DEF QtyIn
  <2> QED BY <1>1, <1>2, <2>1, <2>4 DEF Named
<1> QED BY <1>1, <1>3, <1>4 DEF Lands

\* The same, level by level
LEMMA QtyOf ==
  ASSUME NEW e \in MarketEvent, e.kind = "delta", Distinct(AllLevels(e)),
         NEW levels, levels = AllLevels(e), NEW j \in DOMAIN levels
  PROVE  levels[j].price \in Named(e) /\ QtyIn(e, levels[j].price) = levels[j].qty
<1>1. \A i \in DOMAIN levels : levels[i].price = levels[j].price => i = j
  BY DEF Distinct
<1>2. j = CHOOSE i \in DOMAIN levels : levels[i].price = levels[j].price
  BY <1>1
<1>3. QtyIn(e, levels[j].price) = levels[j].qty
  BY <1>2, Zenon DEF QtyIn
<1> QED BY <1>3 DEF Named

\* A delta that names a price is the last one that does.
LEMMA ShownChanges ==
  ASSUME NEW l, NEW m, NEW e, NEW n, Longer(l, m, e, n), e.kind = "delta",
         NEW price, price \in Named(e)
  PROVE  ShownAt(m, price) = QtyIn(e, price)
<1>1. PICK W : W = NamedBy(m, price)
  OBVIOUS
<1>2. n \in W /\ W \subseteq DOMAIN m
  BY <1>1, DeltasGrow DEF NamedBy, Longer
<1>3. /\ m \in Seq(MarketEvent) /\ n \in Nat /\ m[n] = e
      /\ \A p \in DOMAIN m : p \in Nat /\ p <= n
  BY DEF Longer
<1>4. Max(W) \in W /\ \A p \in W : p <= Max(W)
  BY <1>2, <1>3, Positions
<1>5. PICK k : k = Max(W)
  OBVIOUS
<1>6. k = n
  <2>1. k \in W /\ n <= k
    BY <1>2, <1>4, <1>5, Zenon
  <2>2. k \in Nat /\ k <= n
    BY <1>2, <1>3, <2>1, Zenon
  <2> QED BY <1>3, <2>1, <2>2
<1>7. ShownAt(m, price) = QtyIn(m[k], price)
  BY <1>1, <1>2, <1>5 DEF ShownAt
<1> QED BY <1>3, <1>6, <1>7

\* Any other event leaves what is shown at a price.
LEMMA ShownStays ==
  ASSUME NEW l, NEW m, NEW e, NEW n, Longer(l, m, e, n), NEW price,
         e.kind # "delta" \/ price \notin Named(e)
  PROVE  ShownAt(m, price) = ShownAt(l, price)
<1>1. /\ Deltas(m) = Deltas(l) \cup (IF e.kind = "delta" THEN {n} ELSE {})
      /\ Deltas(l) \subseteq DOMAIN l /\ m[n] = e /\ l \in Seq(MarketEvent)
      /\ \A p \in DOMAIN l : m[p] = l[p]
  BY DeltasGrow DEF Longer
<1>2. NamedBy(m, price) = NamedBy(l, price)
  <2>1. ASSUME NEW q PROVE q \in NamedBy(m, price) <=> q \in NamedBy(l, price)
    <3>1. CASE q \in Deltas(l)
      BY <1>1, <3>1 DEF NamedBy
    <3>2. CASE q \notin Deltas(l)
      BY <1>1, <3>2 DEF NamedBy
    <3> QED BY <3>1, <3>2
  <2> QED BY <2>1
<1>3. PICK W, k : W = NamedBy(l, price) /\ k = Max(W)
  OBVIOUS
<1>4. W \subseteq DOMAIN l
  BY <1>1, <1>3 DEF NamedBy
<1>5. W # {} => m[k] = l[k]
  BY <1>1, <1>3, <1>4, Positions
<1>6. ShownAt(m, price) = IF W = {} THEN 0 ELSE QtyIn(m[k], price)
  BY <1>2, <1>3 DEF ShownAt
<1>7. ShownAt(l, price) = IF W = {} THEN 0 ELSE QtyIn(l[k], price)
  BY <1>3 DEF ShownAt
<1>8. CASE W = {}
  BY <1>6, <1>7, <1>8
<1>9. CASE W # {}
  BY <1>5, <1>6, <1>7, <1>9
<1> QED BY <1>8, <1>9

-----------------------------------------------------------------------------
(***************************************************************************)
(* Removals of large quantities, one by one                                *)
(***************************************************************************)
Earlier(l, p, x) == {q \in Deltas(l) : q < p /\ x \in Named(l[q])}
IsPull(l, p, x) ==
  /\ p \in Deltas(l) /\ x \in Named(l[p]) /\ Earlier(l, p, x) # {}
  /\ QtyIn(l[Max(Earlier(l, p, x))], x) - QtyIn(l[p], x) >= LargePull
Untraded(l, p, x, slack) ==
  \A q \in Trades(l) : q < p /\ l[q].price = x => l[q].ts < l[p].ts - HiddenWindow + slack

\* The pulls without a trade, one by one.
LEMMA PullsAre ==
  ASSUME NEW l, NEW slack, NEW y
  PROVE  y \in UntradedPulls(l, slack) <=>
           \E p, x : y = <<p, x>> /\ IsPull(l, p, x) /\ Untraded(l, p, x, slack)
<1>1. PICK X : X = UNION {Named(l[q]) : q \in Deltas(l)}
  OBVIOUS
<1>2. ASSUME NEW p, NEW x
      PROVE  <<p, x>> \in Pulls(l) <=> IsPull(l, p, x)
  <2>1. p \in Deltas(l) /\ x \in Named(l[p]) => x \in X
    BY <1>1
  <2>2. <<p, x>> \in Deltas(l) \X X <=> p \in Deltas(l) /\ x \in X
    OBVIOUS
  <2>3. <<p, x>> \in Pulls(l) <=>
          /\ <<p, x>> \in Deltas(l) \X X
          /\ x \in Named(l[p]) /\ Earlier(l, p, x) # {}
          /\ QtyIn(l[Max(Earlier(l, p, x))], x) - QtyIn(l[p], x) >= LargePull
    BY <1>1 DEF Pulls, Earlier
  <2> QED BY <2>1, <2>2, <2>3 DEF IsPull
<1>3. ASSUME NEW p, NEW x
      PROVE  <<p, x>> \in UntradedPulls(l, slack)
               <=> <<p, x>> \in Pulls(l) /\ Untraded(l, p, x, slack)
  BY DEF UntradedPulls, Untraded
<1>4. y \in UntradedPulls(l, slack) => \E p, x : y = <<p, x>>
  <2>1. UntradedPulls(l, slack) \subseteq Deltas(l) \X X
    BY <1>1 DEF UntradedPulls, Pulls
  <2> QED BY <2>1
<1> QED BY <1>2, <1>3, <1>4

\* What is known of an earlier delta does not change.
LEMMA PullsStay ==
  ASSUME NEW l, NEW m, NEW e, NEW n, Longer(l, m, e, n), NEW p \in DOMAIN l, NEW x, NEW slack
  PROVE  /\ IsPull(m, p, x) <=> IsPull(l, p, x)
         /\ Untraded(m, p, x, slack) <=> Untraded(l, p, x, slack)
<1>1. /\ Deltas(m) = Deltas(l) \cup (IF e.kind = "delta" THEN {n} ELSE {})
      /\ Trades(m) = Trades(l) \cup (IF e.kind = "trade" THEN {n} ELSE {})
      /\ Deltas(l) \subseteq DOMAIN l /\ Trades(l) \subseteq DOMAIN l /\ n \notin DOMAIN l
      /\ l \in Seq(MarketEvent) /\ n \in Nat /\ \A q \in DOMAIN l : q \in Nat /\ q < n /\ m[q] = l[q]
  BY DeltasGrow DEF Longer
<1>2. p \in Nat /\ ~(n < p) /\ m[p] = l[p] /\ p # n
  BY <1>1
<1>3. Earlier(m, p, x) = Earlier(l, p, x)
  <2>1. ASSUME NEW q PROVE q \in Earlier(m, p, x) <=> q \in Earlier(l, p, x)
    <3>1. CASE q \in Deltas(l)
      BY <1>1, <3>1 DEF Earlier
    <3>2. CASE q \notin Deltas(l)
      BY <1>1, <1>2, <3>2 DEF Earlier
    <3> QED BY <3>1, <3>2
  <2> QED BY <2>1
<1>4. PICK W, k : W = Earlier(l, p, x) /\ k = Max(W)
  OBVIOUS
<1>5. W # {} => m[k] = l[k]
  <2>1. W \subseteq DOMAIN l
    BY <1>1, <1>4 DEF Earlier
  <2> QED BY <1>1, <1>4, <2>1, Positions
<1>6. IsPull(m, p, x) <=> /\ p \in Deltas(m) /\ x \in Named(l[p]) /\ W # {}
                          /\ QtyIn(m[k], x) - QtyIn(l[p], x) >= LargePull
  BY <1>2, <1>3, <1>4, Zenon DEF IsPull
<1>7. IsPull(l, p, x) <=> /\ p \in Deltas(l) /\ x \in Named(l[p]) /\ W # {}
                          /\ QtyIn(l[k], x) - QtyIn(l[p], x) >= LargePull
  BY <1>4, Zenon DEF IsPull
<1>8. p \in Deltas(m) <=> p \in Deltas(l)
  BY <1>1, <1>2
<1>9. IsPull(m, p, x) <=> IsPull(l, p, x)
  BY <1>5, <1>6, <1>7, <1>8, Zenon
<1>10. Untraded(m, p, x, slack) <=> Untraded(l, p, x, slack)
  <2>1. \A q \in Trades(m) : q < p => q \in Trades(l)
    BY <1>1, <1>2
  <2>2. \A q \in Trades(l) : q \in Trades(m) /\ m[q] = l[q]
    BY <1>1
  <2> QED BY <1>2, <2>1, <2>2 DEF Untraded
<1> QED BY <1>9, <1>10

\* The removals that a delta at position n makes, without a trade nearby
Fresh(l, e, n, slack) ==
  {<<n, x>> : x \in {z \in Named(e) :
     /\ ShownAt(l, z) - QtyIn(e, z) >= LargePull
     /\ \A q \in Trades(l) : l[q].price = z => l[q].ts < e.ts - HiddenWindow + slack}}

\* Without a new delta the removals are those there were.
LEMMA PullsSame ==
  ASSUME NEW l, NEW m, NEW e, NEW n, Longer(l, m, e, n), e.kind # "delta", NEW slack
  PROVE  UntradedPulls(m, slack) = UntradedPulls(l, slack)
<1>1. Deltas(m) = Deltas(l) /\ Deltas(l) \subseteq DOMAIN l
  BY DeltasGrow
<1>2. ASSUME NEW p, NEW x
      PROVE  IsPull(m, p, x) /\ Untraded(m, p, x, slack)
               <=> IsPull(l, p, x) /\ Untraded(l, p, x, slack)
  <2>1. CASE p \in DOMAIN l
    BY <2>1, PullsStay
  <2>2. CASE p \notin DOMAIN l
    BY <1>1, <2>2 DEF IsPull
  <2> QED BY <2>1, <2>2
<1>3. \A y : y \in UntradedPulls(m, slack) <=> y \in UntradedPulls(l, slack)
  BY <1>2, PullsAre
<1> QED BY <1>3

\* A delta adds its own.
LEMMA PullsGrow ==
  ASSUME NEW l, NEW m, NEW e, NEW n, Longer(l, m, e, n), e.kind = "delta",
         Distinct(AllLevels(e)), NEW slack
  PROVE  /\ UntradedPulls(m, slack) = UntradedPulls(l, slack) \cup Fresh(l, e, n, slack)
         /\ UntradedPulls(l, slack) \cap Fresh(l, e, n, slack) = {}
<1>0. e.kind # "trade"
  OBVIOUS
<1>1. /\ Deltas(m) = Deltas(l) \cup {n} /\ Deltas(l) \subseteq DOMAIN l /\ n \notin DOMAIN l
      /\ Trades(m) = Trades(l) /\ Trades(l) \subseteq DOMAIN l
      /\ m[n] = e /\ e \in MarketEvent /\ n \in Nat
      /\ \A q \in DOMAIN l : q \in Nat /\ q < n /\ m[q] = l[q]
      /\ l \in Seq(MarketEvent)
  <2>1. Deltas(m) = Deltas(l) \cup {n} /\ Trades(m) = Trades(l)
    <3>1. /\ Deltas(m) = Deltas(l) \cup (IF e.kind = "delta" THEN {n} ELSE {})
          /\ Trades(m) = Trades(l) \cup (IF e.kind = "trade" THEN {n} ELSE {})
      BY DeltasGrow
    <3> QED BY <1>0, <3>1
  <2> QED BY <2>1, DeltasGrow DEF Longer
<1>2. ASSUME NEW x
      PROVE  IsPull(m, n, x) <=> x \in Named(e) /\ ShownAt(l, x) - QtyIn(e, x) >= LargePull
  <2>1. Earlier(m, n, x) = NamedBy(l, x)
    <3>1. ASSUME NEW q PROVE q \in Earlier(m, n, x) <=> q \in NamedBy(l, x)
      <4>1. CASE q \in Deltas(l)
        BY <1>1, <4>1 DEF Earlier, NamedBy
      <4>2. CASE q \notin Deltas(l)
        BY <1>1, <4>2 DEF Earlier, NamedBy
      <4> QED BY <4>1, <4>2
    <3> QED BY <3>1
  <2>2. PICK W, k : W = NamedBy(l, x) /\ k = Max(W)
    OBVIOUS
  <2>3. IsPull(m, n, x) <=> /\ x \in Named(e) /\ W # {}
                            /\ QtyIn(m[k], x) - QtyIn(e, x) >= LargePull
    <3>1. n \in Deltas(m)
      BY <1>1
    <3> QED BY <1>1, <2>1, <2>2, <3>1, Zenon DEF IsPull
  <2>4. CASE W # {}
    <3>1. W \subseteq DOMAIN l
      BY <1>1, <2>2 DEF NamedBy
    <3>2. m[k] = l[k]
      BY <1>1, <2>2, <2>4, <3>1, Positions
    <3>3. ShownAt(l, x) = QtyIn(m[k], x)
      BY <2>2, <2>4, <3>2, Zenon DEF ShownAt
    <3> QED BY <2>3, <2>4, <3>3, Zenon
  <2>5. CASE W = {}
    <3>1. ShownAt(l, x) = 0
      BY <2>2, <2>5, Zenon DEF ShownAt
    <3>2. x \in Named(e) => QtyIn(e, x) \in Nat
      <4>1. PICK levels : levels = AllLevels(e)
        OBVIOUS
      <4>2. ASSUME x \in Named(e) PROVE QtyIn(e, x) \in Nat
        <5>1. PICK j \in DOMAIN levels : levels[j].price = x
          BY <4>1, <4>2 DEF Named
        <5>2. QtyIn(e, x) = levels[j].qty
          BY <1>1, <4>1, <5>1, QtyOf
        <5>3. levels \in Seq(DepthLevel)
          BY <1>1, <4>1, AllLevelsType
        <5>4. levels[j] \in DepthLevel
          BY <5>3
        <5> QED BY <5>2, <5>4 DEF DepthLevel
      <4> QED BY <4>2
    <3>3. \A q \in Nat : ~(0 - q >= LargePull)
      BY HiddenAssumption
    <3> QED BY <2>3, <2>5, <3>1, <3>2, <3>3, Zenon
  <2> QED BY <2>4, <2>5
<1>3. ASSUME NEW x
      PROVE  Untraded(m, n, x, slack)
               <=> \A q \in Trades(l) : l[q].price = x => l[q].ts < e.ts - HiddenWindow + slack
  BY <1>1 DEF Untraded
<1>4. ASSUME NEW p, NEW x
      PROVE  IsPull(m, p, x) /\ Untraded(m, p, x, slack)
               <=> \/ IsPull(l, p, x) /\ Untraded(l, p, x, slack)
                   \/ <<p, x>> \in Fresh(l, e, n, slack)
  <2>1. CASE p \in DOMAIN l
    <3>1. <<p, x>> \notin Fresh(l, e, n, slack)
      BY <1>1, <2>1 DEF Fresh
    <3> QED BY <2>1, <3>1, PullsStay
  <2>2. CASE p = n
    <3>1. ~IsPull(l, p, x)
      BY <1>1, <2>2 DEF IsPull
    <3>2. <<n, x>> \in Fresh(l, e, n, slack) <=>
            /\ x \in Named(e) /\ ShownAt(l, x) - QtyIn(e, x) >= LargePull
            /\ \A q \in Trades(l) : l[q].price = x => l[q].ts < e.ts - HiddenWindow + slack
      BY DEF Fresh
    <3> QED BY <1>2, <1>3, <2>2, <3>1, <3>2, Zenon
  <2>3. CASE p \notin DOMAIN l /\ p # n
    <3>1. ~IsPull(l, p, x) /\ ~IsPull(m, p, x)
      BY <1>1, <2>3 DEF IsPull
    <3>2. <<p, x>> \notin Fresh(l, e, n, slack)
      BY <2>3 DEF Fresh
    <3> QED BY <3>1, <3>2
  <2> QED BY <2>1, <2>2, <2>3
<1>5. \A y \in Fresh(l, e, n, slack) : \E x : y = <<n, x>>
  BY DEF Fresh
<1>6. ASSUME NEW y
      PROVE  y \in UntradedPulls(m, slack)
               <=> y \in UntradedPulls(l, slack) \/ y \in Fresh(l, e, n, slack)
  BY <1>4, <1>5, PullsAre
<1>7. ASSUME NEW y \in UntradedPulls(l, slack) PROVE y \notin Fresh(l, e, n, slack)
  <2>1. PICK p, x : y = <<p, x>> /\ IsPull(l, p, x)
    BY PullsAre
  <2>2. p # n
    BY <1>1, <2>1 DEF IsPull
  <2> QED BY <1>5, <2>1, <2>2
<1> QED BY <1>6, <1>7

\* The prices that a delta names are finitely many.
LEMMA NamedFinite ==
  ASSUME NEW e \in MarketEvent, e.kind = "delta"
  PROVE  IsFiniteSet(Named(e))
<1>1. PICK levels : levels = AllLevels(e)
  OBVIOUS
<1>2. levels \in Seq(DepthLevel)
  BY <1>1, AllLevelsType
<1>3. PICK k \in Nat : k = Len(levels)
  BY <1>2
<1>4. DOMAIN levels = 1 .. k
  BY <1>2, <1>3
<1>5. IsFiniteSet(1 .. k)
  <2>1. 1 \in Int /\ k \in Int
    OBVIOUS
  <2> QED BY <2>1, FS_Interval
<1> DEFINE f == [i \in 1 .. k |-> levels[i].price]
<1>6. IsFiniteSet({f[i] : i \in 1 .. k})
  <2> HIDE DEF f
  <2> QED BY <1>5, FiniteImage
<1>7. {f[i] : i \in 1 .. k} = {levels[i].price : i \in 1 .. k}
  OBVIOUS
<1> HIDE DEF f
<1> QED BY <1>1, <1>4, <1>6, <1>7, Zenon DEF Named

\* S lies between the removals with and without the slack of the jitter.
IsBetween(S, l, e, n) ==
  /\ Fresh(l, e, n, 0) \subseteq S /\ S \subseteq Fresh(l, e, n, Jitter)
  /\ IsFiniteSet(Fresh(l, e, n, Jitter))

\* The spoofs of a delta are its removals without a trade nearby, up to the
\* jitter: the deque lost only trades older than that.
LEMMA SpoofsBetween ==
  ASSUME LogInv, DequeInv(log, hiddenTrades, HiddenWindow),
         NEW e \in MarketEvent, e.kind = "delta", Distinct(AllLevels(e)),
         \A q \in DOMAIN log : log[q].ts <= e.ts + Jitter,
         NEW d, \A x : At(d, x) = ShownAt(log, x), NEW n,
         NEW S, S = Spoofs(d, AllLevels(e), Len(AllLevels(e)), e.ts, n)
  PROVE  IsBetween(S, log, e, n)
<1>1. PICK levels, k : levels = AllLevels(e) /\ k = Len(levels)
  OBVIOUS
<1>2. k \in Nat /\ DOMAIN levels = 1 .. k /\ e.ts \in Nat
  BY <1>1, AllLevelsType
<1>3. \A j \in 1 .. k : levels[j].price \in Named(e) /\ QtyIn(e, levels[j].price) = levels[j].qty
  BY <1>1, <1>2, QtyOf
<1>4. /\ hiddenTrades \subseteq Trades(log) /\ Trades(log) \subseteq DOMAIN log
      /\ \A q \in Trades(log) : log[q].ts \in Nat
  BY TradesType DEF DequeInv, LogInv
<1>5. HiddenWindow \in Nat /\ Jitter \in Nat
  BY HiddenAssumption, JitterAssumption
<1>6. S = {<<n, levels[j].price>> : j \in {i \in 1 .. k : Spoof(d, levels[i], e.ts)}}
  BY <1>1, Zenon DEF Spoofs
<1>7. ASSUME NEW j \in 1 .. k
      PROVE  /\ Spoof(d, levels[j], e.ts) => <<n, levels[j].price>> \in Fresh(log, e, n, Jitter)
             /\ <<n, levels[j].price>> \in Fresh(log, e, n, 0) => Spoof(d, levels[j], e.ts)
  <2>1. PICK x : x = levels[j].price
    OBVIOUS
  <2>2. Spoof(d, levels[j], e.ts) <=> /\ ShownAt(log, x) - QtyIn(e, x) >= LargePull
                                      /\ ~TradedNear(x, e.ts)
    BY <1>3, <2>1, Zenon DEF Spoof
  <2>3. \A s : <<n, x>> \in Fresh(log, e, n, s) <=>
            /\ ShownAt(log, x) - QtyIn(e, x) >= LargePull
            /\ \A q \in Trades(log) : log[q].price = x => log[q].ts < e.ts - HiddenWindow + s
    BY <1>3, <2>1 DEF Fresh
  <2>4. ASSUME ~TradedNear(x, e.ts), NEW q \in Trades(log), log[q].price = x
        PROVE  log[q].ts < e.ts - HiddenWindow + Jitter
    <3>1. CASE q \in hiddenTrades
      <4>1. ~(log[q].ts >= e.ts - HiddenWindow)
        BY <2>4, <3>1 DEF TradedNear
      <4> QED BY <1>2, <1>4, <1>5, <4>1
    <3>2. CASE q \notin hiddenTrades
      <4>1. PICK t \in Trades(log) : log[q].ts < log[t].ts - HiddenWindow
        BY <3>2 DEF DequeInv
      <4>2. log[t].ts <= e.ts + Jitter
        BY <1>4
      <4> QED BY <1>2, <1>4, <1>5, <4>1, <4>2
    <3> QED BY <3>1, <3>2
  <2>5. ASSUME \A q \in Trades(log) : log[q].price = x => log[q].ts < e.ts - HiddenWindow + 0
        PROVE  ~TradedNear(x, e.ts)
    <3>1. ASSUME NEW q \in hiddenTrades, log[q].price = x
          PROVE  ~(log[q].ts >= e.ts - HiddenWindow)
      <4>1. log[q].ts < e.ts - HiddenWindow + 0 /\ log[q].ts \in Nat
        BY <1>4, <2>5, <3>1
      <4>2. PICK a, b : a = log[q].ts /\ b = e.ts
        OBVIOUS
      <4>3. a \in Nat /\ b \in Nat /\ a < b - HiddenWindow + 0
        BY <1>2, <4>1, <4>2
      <4>4. ~(a >= b - HiddenWindow)
        BY <1>5, <4>3
      <4> QED BY <4>2, <4>4
    <3> QED BY <3>1, Zenon DEF TradedNear
  <2> QED BY <2>1, <2>2, <2>3, <2>4, <2>5, Zenon
<1>8. S \subseteq Fresh(log, e, n, Jitter)
  BY <1>6, <1>7
<1>9. ASSUME NEW y \in Fresh(log, e, n, 0) PROVE y \in S
  <2>1. PICK x \in Named(e) : y = <<n, x>>
    BY DEF Fresh
  <2>2. PICK j \in 1 .. k : levels[j].price = x
    BY <1>1, <1>2 DEF Named
  <2> QED BY <1>6, <1>7, <2>1, <2>2
<1>10. IsFiniteSet(Fresh(log, e, n, Jitter))
  <2> DEFINE f == [x \in Named(e) |-> <<n, x>>]
  <2>1. IsFiniteSet({f[x] : x \in Named(e)})
    <3>1. IsFiniteSet(Named(e))
      BY NamedFinite
    <3> HIDE DEF f
    <3> QED BY <3>1, FiniteImage
  <2>2. Fresh(log, e, n, Jitter) \subseteq {f[x] : x \in Named(e)}
    BY DEF Fresh
  <2> HIDE DEF f
  <2> QED BY <2>1, <2>2, FS_Subset
<1> QED BY <1>8, <1>9, <1>10 DEF IsBetween

\* A larger set of finitely many elements has no fewer of them.
LEMMA UnionCounts ==
  ASSUME NEW A, IsFiniteSet(A), NEW B, IsFiniteSet(B), A \cap B = {}
  PROVE  /\ IsFiniteSet(A \cup B) /\ Cardinality(A) \in Nat /\ Cardinality(B) \in Nat
         /\ Cardinality(A \cup B) = Cardinality(A) + Cardinality(B)
<1>1. /\ IsFiniteSet(A \cup B)
      /\ Cardinality(A \cup B) = Cardinality(A) + Cardinality(B) - Cardinality(A \cap B)
  BY FS_Union
<1>2. Cardinality(A \cap B) = 0
  BY FS_EmptySet
<1>3. Cardinality(A) \in Nat /\ Cardinality(B) \in Nat
  BY FS_CardinalityType
<1> QED BY <1>1, <1>2, <1>3

\* The count of spoofs stays between the removals.
LEMMA CountsBetween ==
  ASSUME NEW P, NEW Q, IsFiniteSet(P), IsFiniteSet(Q), NEW A, NEW B, NEW S,
         A \subseteq S, S \subseteq B, IsFiniteSet(B), P \cap A = {}, Q \cap B = {},
         NEW i \in Nat, i >= Cardinality(P), i <= Cardinality(Q)
  PROVE  /\ IsFiniteSet(P \cup A) /\ IsFiniteSet(Q \cup B)
         /\ i + Cardinality(S) >= Cardinality(P \cup A)
         /\ i + Cardinality(S) <= Cardinality(Q \cup B)
<1>1. IsFiniteSet(S) /\ Cardinality(S) <= Cardinality(B)
  BY FS_Subset
<1>2. IsFiniteSet(A) /\ Cardinality(A) <= Cardinality(S)
  BY <1>1, FS_Subset
<1>3. Cardinality(S) \in Nat
  BY <1>1, FS_CardinalityType
<1>4. /\ IsFiniteSet(P \cup A) /\ Cardinality(P) \in Nat /\ Cardinality(A) \in Nat
      /\ Cardinality(P \cup A) = Cardinality(P) + Cardinality(A)
  BY <1>2, UnionCounts
<1>5. /\ IsFiniteSet(Q \cup B) /\ Cardinality(Q) \in Nat /\ Cardinality(B) \in Nat
      /\ Cardinality(Q \cup B) = Cardinality(Q) + Cardinality(B)
  BY UnionCounts
<1>6. PICK a, b, c, x, y : /\ a = Cardinality(A) /\ b = Cardinality(B) /\ c = Cardinality(S)
                           /\ x = Cardinality(P) /\ y = Cardinality(Q)
  OBVIOUS
<1>7. i + c >= x + a /\ i + c <= y + b
  BY <1>1, <1>2, <1>3, <1>4, <1>5, <1>6
<1> QED BY <1>4, <1>5, <1>6, <1>7, Zenon

-----------------------------------------------------------------------------
\* A deque stays one when no trade comes.
LEMMA DequeStays ==
  ASSUME NEW l, NEW m, NEW e, NEW n, Longer(l, m, e, n), e.kind # "trade",
         NEW window, NEW deque, DequeInv(l, deque, window)
  PROVE  DequeInv(m, deque, window)
<1>1. Trades(m) = Trades(l) /\ Trades(l) \subseteq DOMAIN l
  <2>1. /\ Trades(m) = Trades(l) \cup (IF e.kind = "trade" THEN {n} ELSE {})
        /\ Trades(l) \subseteq DOMAIN l
    BY DeltasGrow
  <2> QED BY <2>1
<1>2. \A p \in Trades(l) : m[p] = l[p]
  BY <1>1 DEF Longer
<1> QED BY <1>1, <1>2 DEF DequeInv

\* What an event that is not a delta leaves as it was
LEMMA FollowsSame ==
  ASSUME NEW l, NEW m, NEW e, NEW n, Longer(l, m, e, n), e.kind # "delta",
         NEW d, NEW spoofs, OneBook(l) => BookFollows(l, d, spoofs), OneBook(m)
  PROVE  BookFollows(m, d, spoofs)
<1>1. BookFollows(l, d, spoofs)
  BY OneBookBefore
<1>2. \A x : ShownAt(m, x) = ShownAt(l, x)
  BY ShownStays
<1>3. \A s : UntradedPulls(m, s) = UntradedPulls(l, s)
  BY PullsSame
<1> QED BY <1>1, <1>2, <1>3, Zenon DEF BookFollows

\* The time an exchange was last seen at
LEMMA SeenType ==
  ASSUME \A x \in DOMAIN exchangeTs : exchangeTs[x] \in Nat, NEW e, e.ts \in Nat,
         ObserveExchange(e)
  PROVE  \A x \in DOMAIN exchangeTs' : exchangeTs'[x] \in Nat
<1>1. PICK new, k, t : new = exchangeTs' /\ k = e.exchange /\ t = e.ts
  OBVIOUS
<1>2. new = Put(exchangeTs, k, t)
  BY <1>1 DEF ObserveExchange
<1>3. /\ DOMAIN new = DOMAIN exchangeTs \cup {k} /\ new[k] = t
      /\ \A x \in DOMAIN exchangeTs : x # k => new[x] = exchangeTs[x]
  BY <1>2 DEF Put
<1>4. \A x \in DOMAIN new : new[x] \in Nat
  BY <1>1, <1>3
<1> QED BY <1>1, <1>4

\* A delta, on one book
LEMMA DeltaFollows ==
  ASSUME LogInv, LogInv', DequeInv(log, hiddenTrades, HiddenWindow),
         NEW e, NEW n, Takes(e, n), e.kind = "delta",
         NEW h, NEW g, HasObserved(h, g, AllLevels(e), e.ts, n), h.spoofPulls \in Nat,
         OneBook(log) => BookFollows(log, h.displayed, h.spoofPulls),
         NEW l, NEW m, l = log, m = log', OneBook(m)
  PROVE  BookFollows(m, g.displayed, g.spoofPulls)
<1>1. Longer(l, m, e, n)
  BY DEF LogInv, Takes, Longer
<1>2. PICK d, i : d = h.displayed /\ i = h.spoofPulls
  OBVIOUS
<1>3. BookFollows(l, d, i)
  BY <1>1, <1>2, OneBookBefore
<1>4. e \in MarketEvent /\ Distinct(AllLevels(e))
  <2>1. e \in MarketEvent /\ n \in DOMAIN m /\ m[n] = e
    BY <1>1 DEF Longer
  <2>2. n \in Deltas(m)
    BY <2>1 DEF Deltas
  <2>3. Cardinality(Named(e)) = Len(AllLevels(e))
    BY <2>1, <2>2, Zenon DEF OneBook
  <2> QED BY <2>1, <2>3, NamedOnce
<1>5. PICK S : S = Spoofs(d, AllLevels(e), Len(AllLevels(e)), e.ts, n)
  OBVIOUS
<1>6. /\ \A p : Lands(AllLevels(e), Len(AllLevels(e)), p, At(d, p), At(g.displayed, p))
      /\ IsFiniteSet(S) /\ g.spoofPulls = i + Cardinality(S)
  BY <1>2, <1>4, <1>5, Zenon DEF HasObserved
<1>7. ASSUME NEW x PROVE At(g.displayed, x) = ShownAt(m, x)
  <2>1. PICK o, q : o = At(d, x) /\ q = At(g.displayed, x)
    OBVIOUS
  <2>2. Lands(AllLevels(e), Len(AllLevels(e)), x, o, q)
    BY <1>6, <2>1
  <2>3. \/ x \notin Named(e) /\ q = o
        \/ x \in Named(e) /\ q = QtyIn(e, x)
    BY <1>4, <2>2, LandsNamed
  <2>4. o = ShownAt(l, x)
    BY <1>3, <2>1 DEF BookFollows
  <2>5. x \notin Named(e) => ShownAt(m, x) = ShownAt(l, x)
    BY <1>1, ShownStays
  <2>6. x \in Named(e) => ShownAt(m, x) = QtyIn(e, x)
    BY <1>1, ShownChanges
  <2> QED BY <2>1, <2>3, <2>4, <2>5, <2>6
<1>8. /\ Fresh(l, e, n, 0) \subseteq S /\ S \subseteq Fresh(l, e, n, Jitter)
      /\ IsFiniteSet(Fresh(l, e, n, Jitter))
  <2>1. \A q \in DOMAIN log : log[q].ts <= e.ts + Jitter
    BY DEF LogInv, Takes
  <2>2. \A x : At(d, x) = ShownAt(log, x)
    BY <1>3 DEF BookFollows
  <2>3. DequeInv(log, hiddenTrades, HiddenWindow) /\ LogInv
    OBVIOUS
  <2>4. IsBetween(S, log, e, n)
    BY <1>4, <1>5, <2>1, <2>2, <2>3, SpoofsBetween
  <2> QED BY <2>4, Zenon DEF IsBetween
<1>9. PICK P, Q, A, B : /\ P = UntradedPulls(l, 0) /\ Q = UntradedPulls(l, Jitter)
                        /\ A = Fresh(l, e, n, 0) /\ B = Fresh(l, e, n, Jitter)
  OBVIOUS
<1>10. /\ UntradedPulls(m, 0) = P \cup A /\ UntradedPulls(m, Jitter) = Q \cup B
       /\ P \cap A = {} /\ Q \cap B = {}
  BY <1>1, <1>4, <1>9, PullsGrow
<1>11. /\ IsFiniteSet(P) /\ IsFiniteSet(Q) /\ i \in Nat
       /\ i >= Cardinality(P) /\ i <= Cardinality(Q)
  BY <1>2, <1>3, <1>9 DEF BookFollows
<1>12. /\ IsFiniteSet(P \cup A) /\ IsFiniteSet(Q \cup B)
       /\ i + Cardinality(S) >= Cardinality(P \cup A)
       /\ i + Cardinality(S) <= Cardinality(Q \cup B)
  BY <1>8, <1>9, <1>10, <1>11, CountsBetween, ZenonT(60)
<1> QED BY <1>6, <1>7, <1>10, <1>12, Zenon DEF BookFollows

-----------------------------------------------------------------------------
\* A delta keeps the invariant.
LEMMA HiddenDelta ==
  ASSUME LogInv, LogInv', HiddenInv, NEW e, NEW n, Takes(e, n), e.kind = "delta",
         ObserveDepthDelta(e)
  PROVE  HiddenInv'
<1>1. PICK l, m, h, g :
        /\ l = log /\ m = log'
        /\ h = [displayed |-> displayed, spoofPulls |-> spoofPulls, events |-> hiddenEvents]
        /\ g = ObserveLevels(h, AllLevels(e), e.ts)
  OBVIOUS
<1>2. Longer(l, m, e, n)
  BY <1>1 DEF LogInv, Takes, Longer
<1>3. /\ displayed' = g.displayed /\ spoofPulls' = g.spoofPulls /\ hiddenEvents' = g.events
      /\ hiddenTrades' = hiddenTrades /\ stopPools' = stopPools /\ funding' = funding
      /\ icebergs' = icebergs /\ crowding' = crowding /\ ObserveExchange(e)
  BY <1>1 DEF ObserveDepthDelta, AllLevels
<1>4. /\ HiddenShape /\ DequeInv(log, hiddenTrades, HiddenWindow)
      /\ OneBook(log) => BookFollows(log, displayed, spoofPulls)
  BY DEF HiddenInv
<1>5. h.displayed = displayed /\ h.spoofPulls = spoofPulls /\ h.events = hiddenEvents
  BY <1>1
<1>6. HiddenPart(h) /\ h.spoofPulls \in Nat
  BY <1>4, <1>5 DEF HiddenShape, HiddenPart
<1>7. e \in MarketEvent /\ AllLevels(e) \in Seq(DepthLevel) /\ e.ts \in Nat
  BY AllLevelsType DEF Takes
<1>8. HasObserved(h, g, AllLevels(e), e.ts, n)
  BY <1>1, <1>6, <1>7, LevelsObserved
<1>9. HiddenPart(g)
  BY <1>8 DEF HasObserved
<1>10. \A x \in DOMAIN exchangeTs' : exchangeTs'[x] \in Nat
  BY <1>3, <1>4, <1>7, SeenType DEF HiddenShape
<1>11. HiddenShape'
  BY <1>3, <1>4, <1>9, <1>10 DEF HiddenShape, HiddenPart
<1>12. DequeInv(m, hiddenTrades, HiddenWindow)
  BY <1>1, <1>2, <1>4, DequeStays
<1>13. ASSUME OneBook(m) PROVE BookFollows(m, g.displayed, g.spoofPulls)
  <2>1. OneBook(log) => BookFollows(log, h.displayed, h.spoofPulls)
    BY <1>4, <1>5, Zenon
  <2> QED BY <1>1, <1>4, <1>6, <1>8, <1>13, <2>1, DeltaFollows
<1> QED BY <1>1, <1>3, <1>11, <1>12, <1>13 DEF HiddenInv

\* So does a trade.
LEMMA HiddenTrade ==
  ASSUME LogInv, LogInv', HiddenInv, NEW e, NEW n, Takes(e, n), e.kind = "trade",
         ObserveHiddenTrade(e)
  PROVE  HiddenInv'
<1>1. PICK l, m : l = log /\ m = log'
  OBVIOUS
<1>2. Longer(l, m, e, n) /\ n = Len(m)
  BY <1>1 DEF LogInv, Takes, Longer
<1>3. /\ HiddenShape /\ DequeInv(log, hiddenTrades, HiddenWindow)
      /\ OneBook(log) => BookFollows(log, displayed, spoofPulls)
  BY DEF HiddenInv
<1>4. e \in MarketEvent /\ e \in Trade
  BY EventType DEF Takes
<1>5. e.ts \in Nat /\ e.price \in Nat
  BY <1>4 DEF Trade
<1>6. PICK deque, iceberg :
        /\ deque = PopFront(log', hiddenTrades \cup {n}, e.ts - HiddenWindow)
        /\ iceberg = IF IsIceberg(deque, e) THEN <<HiddenEvent("Iceberg", e.price, e.ts)>> ELSE <<>>
  OBVIOUS
<1>7. /\ hiddenTrades' = deque
      /\ stopPools' = DropOldest(DropOldest(DropOldest(Touch(stopPools, e.price, e.ts))))
      /\ icebergs' = icebergs + (IF IsIceberg(deque, e) THEN 1 ELSE 0)
      /\ crowding' = Crowding(m, deque, funding)
      /\ hiddenEvents' = Push(Push(hiddenEvents, iceberg), Impulse(m, deque))
      /\ displayed' = displayed /\ funding' = funding /\ spoofPulls' = spoofPulls
      /\ ObserveExchange(e)
  BY <1>1, <1>2, <1>6 DEF ObserveHiddenTrade
<1>8. DequeInv(log', deque, HiddenWindow)
  <2>1. log \in Seq(MarketEvent) /\ HiddenWindow \in Nat
    BY HiddenAssumption DEF LogInv
  <2> QED BY <1>3, <1>6, <2>1, DequeStep
<1>9. m \in Seq(MarketEvent) /\ deque \in SUBSET Trades(m)
  BY <1>1, <1>2, <1>8 DEF DequeInv, Longer
<1>10. \A x \in DOMAIN exchangeTs' : exchangeTs'[x] \in Nat
  BY <1>3, <1>5, <1>7, SeenType DEF HiddenShape
<1>11. Pools(stopPools') /\ Cardinality(DOMAIN stopPools') <= StopPoolHistory
  <2>1. PICK pools, new : pools = stopPools /\ new = stopPools'
    OBVIOUS
  <2>2. Pools(pools) /\ Cardinality(DOMAIN pools) <= StopPoolHistory
    BY <1>3, <2>1 DEF HiddenShape
  <2>3. new = DropOldest(DropOldest(DropOldest(Touch(pools, e.price, e.ts))))
    BY <1>7, <2>1
  <2>4. Pools(new) /\ Cardinality(DOMAIN new) <= StopPoolHistory
    BY <1>5, <2>2, <2>3, PoolsStayFew
  <2> QED BY <2>1, <2>4
<1>12. crowding' \in Int
  <2>1. crowding \in Int /\ funding \in Option(Int)
    BY <1>3 DEF HiddenShape
  <2> QED BY <1>7, <2>1, CrowdingType
<1>13. RecentOnes(hiddenEvents')
  <2>1. PICK events : events = hiddenEvents /\ RecentOnes(events)
    BY <1>3 DEF HiddenShape
  <2>2. iceberg \in Seq(HiddenRecord)
    <3>1. <<HiddenEvent("Iceberg", e.price, e.ts)>> \in Seq(HiddenRecord)
      BY <1>5, EventSequences
    <3>2. <<>> \in Seq(HiddenRecord)
      OBVIOUS
    <3> QED BY <1>6, <3>1, <3>2
  <2>3. PICK push : push = Push(events, iceberg)
    OBVIOUS
  <2>4. RecentOnes(push)
    BY <2>1, <2>2, <2>3, PushType
  <2>5. PICK impulse : impulse = Impulse(m, deque)
    OBVIOUS
  <2>6. impulse \in Seq(HiddenRecord)
    BY <1>9, <2>5, ImpulseType
  <2>7. RecentOnes(Push(push, impulse))
    BY <2>4, <2>6, PushType
  <2> QED BY <1>7, <2>1, <2>3, <2>5, <2>7
<1>14. icebergs' \in Nat
  BY <1>3, <1>7 DEF HiddenShape
<1>15. HiddenShape'
  BY <1>3, <1>7, <1>10, <1>11, <1>12, <1>13, <1>14 DEF HiddenShape
<1>16. ASSUME OneBook(m) PROVE BookFollows(m, displayed, spoofPulls)
  <2>1. OneBook(l) => BookFollows(l, displayed, spoofPulls)
    BY <1>1, <1>3
  <2>2. e.kind # "delta"
    OBVIOUS
  <2> QED BY <1>2, <1>16, <2>1, <2>2, FollowsSame
<1> QED BY <1>1, <1>7, <1>8, <1>15, <1>16 DEF HiddenInv

\* And a ticker.
LEMMA HiddenTicker ==
  ASSUME LogInv, LogInv', HiddenInv, NEW e, NEW n, Takes(e, n), e.kind = "ticker",
         ObserveHiddenTicker(e)
  PROVE  HiddenInv'
<1>1. PICK l, m : l = log /\ m = log'
  OBVIOUS
<1>2. Longer(l, m, e, n)
  BY <1>1 DEF LogInv, Takes, Longer
<1>3. /\ HiddenShape /\ DequeInv(log, hiddenTrades, HiddenWindow)
      /\ OneBook(log) => BookFollows(log, displayed, spoofPulls)
  BY DEF HiddenInv
<1>4. e \in Ticker
  BY EventType DEF Takes
<1>5. e.ts \in Nat /\ e.funding \in Option(Int)
  BY <1>4 DEF Ticker
<1>6. /\ funding' = e.funding /\ crowding' = Crowding(l, hiddenTrades, e.funding)
      /\ hiddenEvents' = Push(hiddenEvents, Impulse(l, hiddenTrades))
      /\ displayed' = displayed /\ hiddenTrades' = hiddenTrades /\ stopPools' = stopPools
      /\ icebergs' = icebergs /\ spoofPulls' = spoofPulls /\ ObserveExchange(e)
  BY <1>1 DEF ObserveHiddenTicker
<1>7. l \in Seq(MarketEvent) /\ hiddenTrades \in SUBSET Trades(l)
  BY <1>1, <1>2, <1>3 DEF DequeInv, Longer
<1>8. \A x \in DOMAIN exchangeTs' : exchangeTs'[x] \in Nat
  BY <1>3, <1>5, <1>6, SeenType DEF HiddenShape
<1>9. crowding' \in Int
  <2>1. crowding \in Int
    BY <1>3 DEF HiddenShape
  <2> QED BY <1>5, <1>6, <2>1, CrowdingType
<1>10. RecentOnes(hiddenEvents')
  <2>1. PICK events : events = hiddenEvents /\ RecentOnes(events)
    BY <1>3 DEF HiddenShape
  <2>2. PICK impulse : impulse = Impulse(l, hiddenTrades)
    OBVIOUS
  <2>3. impulse \in Seq(HiddenRecord)
    BY <1>7, <2>2, ImpulseType
  <2>4. RecentOnes(Push(events, impulse))
    BY <2>1, <2>3, PushType
  <2> QED BY <1>6, <2>1, <2>2, <2>4
<1>11. HiddenShape'
  BY <1>3, <1>5, <1>6, <1>8, <1>9, <1>10 DEF HiddenShape
<1>12. e.kind # "delta" /\ e.kind # "trade"
  OBVIOUS
<1>13. DequeInv(m, hiddenTrades, HiddenWindow)
  BY <1>1, <1>2, <1>3, <1>12, DequeStays
<1>14. ASSUME OneBook(m) PROVE BookFollows(m, displayed, spoofPulls)
  <2>1. OneBook(l) => BookFollows(l, displayed, spoofPulls)
    BY <1>1, <1>3
  <2> QED BY <1>2, <1>12, <1>14, <2>1, FollowsSame
<1> QED BY <1>1, <1>6, <1>11, <1>13, <1>14 DEF HiddenInv

\* Every event keeps what the hidden liquidity engine knows that of the log.
LEMMA HiddenKeeps ==
  ASSUME LogInv, LogInv', HiddenInv, NEW e, NEW n, Takes(e, n), HiddenReceives(e)
  PROVE  HiddenInv'
<1>1. CASE e.kind = "trade"
  BY <1>1, HiddenTrade DEF HiddenReceives
<1>2. CASE e.kind = "delta"
  BY <1>2, HiddenDelta DEF HiddenReceives
<1>3. CASE e.kind = "ticker"
  BY <1>3, HiddenTicker DEF HiddenReceives
<1>4. CASE e.kind \notin {"trade", "delta", "ticker"}
  <2>1. PICK l, m : l = log /\ m = log'
    OBVIOUS
  <2>2. Longer(l, m, e, n)
    BY <2>1 DEF LogInv, Takes, Longer
  <2>3. UNCHANGED hiddenVars
    BY <1>4 DEF HiddenReceives
  <2>4. HiddenShape'
    BY <2>3 DEF HiddenInv, HiddenShape, hiddenVars
  <2>5. e.kind # "trade" /\ e.kind # "delta"
    BY <1>4
  <2>6. DequeInv(m, hiddenTrades, HiddenWindow)
    BY <2>1, <2>2, <2>5, DequeStays DEF HiddenInv
  <2>7. ASSUME OneBook(m) PROVE BookFollows(m, displayed, spoofPulls)
    <3>1. OneBook(l) => BookFollows(l, displayed, spoofPulls)
      BY <2>1 DEF HiddenInv
    <3> QED BY <2>2, <2>5, <2>7, <3>1, FollowsSame
  <2>8. /\ hiddenTrades' = hiddenTrades /\ displayed' = displayed
        /\ spoofPulls' = spoofPulls
    BY <2>3 DEF hiddenVars
  <2> QED BY <2>1, <2>4, <2>6, <2>7, <2>8 DEF HiddenInv
<1> QED BY <1>1, <1>2, <1>3, <1>4

\* It starts empty.
LEMMA HiddenStart == Init => HiddenInv
<1> SUFFICES ASSUME Init PROVE HiddenInv
  OBVIOUS
<1>1. log = <<>> /\ HiddenInit
  BY DEF Init
<1>2. /\ displayed = NoEntries /\ hiddenTrades = {} /\ stopPools = NoEntries
      /\ exchangeTs = NoEntries /\ funding = {} /\ icebergs = 0 /\ spoofPulls = 0
      /\ crowding = 0 /\ hiddenEvents = <<>>
  BY <1>1 DEF HiddenInit
<1>3. DOMAIN NoEntries = {} /\ \A x : At(NoEntries, x) = 0
  BY DEF NoEntries, At
<1>4. HiddenShape
  <2>1. Shown(displayed) /\ \A x \in DOMAIN exchangeTs : exchangeTs[x] \in Nat
    BY <1>2, <1>3 DEF Shown
  <2>2. Pools(stopPools) /\ Cardinality(DOMAIN stopPools) <= StopPoolHistory
    <3>1. IsFiniteSet({}) /\ Cardinality({}) = 0
      BY FS_EmptySet
    <3>2. 0 <= StopPoolHistory
      BY HiddenAssumption
    <3>3. DOMAIN stopPools = {}
      BY <1>2, <1>3
    <3> QED BY <3>1, <3>2, <3>3 DEF Pools
  <2>3. RecentOnes(hiddenEvents)
    <3>1. <<>> \in Seq(HiddenRecord) /\ Len(<<>>) = 0
      OBVIOUS
    <3>2. 0 <= RecentEvents
      BY HiddenAssumption
    <3> QED BY <1>2, <3>1, <3>2, Zenon DEF RecentOnes
  <2>4. {} \in Option(Int)
    BY DEF Option
  <2> QED BY <1>2, <2>1, <2>2, <2>3, <2>4 DEF HiddenShape
<1>5. PICK l : l = <<>>
  OBVIOUS
<1>6. DOMAIN l = {} /\ Deltas(l) = {} /\ Trades(l) = {}
  BY <1>5 DEF Deltas, Trades
<1>7. DequeInv(l, {}, HiddenWindow)
  BY <1>6 DEF DequeInv
<1>8. BookFollows(l, NoEntries, 0)
  <2>1. \A x : ShownAt(l, x) = 0
    BY <1>6 DEF ShownAt, NamedBy
  <2>2. ASSUME NEW s PROVE UntradedPulls(l, s) = {}
    <3>1. \A p, x : ~IsPull(l, p, x)
      BY <1>6 DEF IsPull
    <3> QED BY <3>1, PullsAre
  <2>3. IsFiniteSet({}) /\ Cardinality({}) = 0
    BY FS_EmptySet
  <2>4. PICK A, B : A = UntradedPulls(l, 0) /\ B = UntradedPulls(l, Jitter)
    OBVIOUS
  <2>5. /\ IsFiniteSet(A) /\ IsFiniteSet(B)
        /\ 0 >= Cardinality(A) /\ 0 <= Cardinality(B)
    BY <2>2, <2>3, <2>4
  <2> QED BY <1>3, <2>1, <2>4, <2>5, Zenon DEF BookFollows
<1> QED BY <1>1, <1>2, <1>4, <1>5, <1>7, <1>8 DEF HiddenInv

\* The state of the hidden liquidity engine follows the log in every behaviour.
LEMMA HiddenAlways == Spec => [](LogInv /\ HiddenInv)
<1>1. Init => LogInv /\ HiddenInv
  BY LogStart, HiddenStart
<1>2. LogInv /\ HiddenInv /\ [Next]_vars => (LogInv /\ HiddenInv)'
  <2> SUFFICES ASSUME LogInv, HiddenInv, [Next]_vars PROVE (LogInv /\ HiddenInv)'
    OBVIOUS
  <2>1. CASE UNCHANGED vars
    <3>1. feed' = feed /\ log' = log /\ UNCHANGED hiddenVars
      BY <2>1 DEF vars
    <3>2. LogInv'
      BY <3>1 DEF LogInv
    <3>3. HiddenShape'
      BY <3>1 DEF HiddenInv, HiddenShape, hiddenVars
    <3>4. /\ hiddenTrades' = hiddenTrades /\ displayed' = displayed
          /\ spoofPulls' = spoofPulls
      BY <3>1 DEF hiddenVars
    <3> QED BY <3>1, <3>2, <3>3, <3>4 DEF HiddenInv
  <2>2. CASE Next
    <3>1. PICK e \in feed.events : Receive(e)
      BY <2>2 DEF Next
    <3>2. LogInv' /\ \E n : Takes(e, n)
      BY <3>1, LogStep DEF Receive
    <3> QED BY <3>1, <3>2, HiddenKeeps DEF Receive
  <2> QED BY <2>1, <2>2
<1> QED BY <1>1, <1>2, PTL DEF Spec

\* What follows for the state
LEMMA HiddenFollows == LogInv /\ HiddenInv => SpoofPullsAreReal /\ HiddenTypeOK
<1> SUFFICES ASSUME LogInv, HiddenInv PROVE SpoofPullsAreReal /\ HiddenTypeOK
  OBVIOUS
<1>1. SpoofPullsAreReal
  BY DEF HiddenInv, BookFollows, SpoofPullsAreReal
<1>2. HiddenShape /\ hiddenTrades \subseteq Trades(log)
  BY DEF HiddenInv, DequeInv
<1>3. hiddenTrades \subseteq DOMAIN log
  BY <1>2 DEF Trades
<1>4. funding \subseteq Int /\ (funding = {} \/ \E r : funding = {r})
  <2>1. funding \subseteq Int /\ \A x, y \in funding : x = y
    BY <1>2 DEF HiddenShape, Option
  <2>2. ASSUME NEW r \in funding PROVE funding = {r}
    BY <2>1
  <2> QED BY <2>1, <2>2
<1>5. Cardinality(funding) <= 1
  BY <1>4, AtMostOne
<1>6. HiddenTypeOK
  BY <1>2, <1>3, <1>4, <1>5 DEF HiddenTypeOK, HiddenShape, Shown, RecentOnes
<1> QED BY <1>1, <1>6

(***************************************************************************)
(* On one book the count of spoof pulls is that of the removals of large   *)
(* displayed quantities without a trade at their price in the window, up   *)
(* to the jitter at the edge of the window, for every feed however deltas  *)
(* and trades interleave.  (hidden.rs: observe_level, prune_trades)        *)
(***************************************************************************)
THEOREM SpoofsAreReal == Spec => []SpoofPullsAreReal
  BY HiddenAlways, HiddenFollows, PTL

-----------------------------------------------------------------------------
(***************************************************************************)
(* The state of every engine is well formed, and no history grows beyond   *)
(* its limit, whatever the feed.  (orderflow.rs, profile.rs, gex.rs,       *)
(* hidden.rs, heatmap.rs: the bounds on deques, samples, pools and events) *)
(***************************************************************************)
THEOREM EnginesAreWellFormed == Spec => []TypeOK
<1>1. LogInv /\ FlowInv /\ ProfileInv /\ GexInv /\ HiddenInv /\ HeatInv => TypeOK
  <2> SUFFICES ASSUME LogInv, FlowInv, ProfileInv, GexInv, HiddenInv, HeatInv PROVE TypeOK
    OBVIOUS
  <2>1. OrderflowTypeOK /\ ProfileTypeOK
    BY DEF FlowInv, ProfileInv, ProfileShape
  <2>2. GexTypeOK
    BY GexTypes
  <2>3. HiddenTypeOK
    BY HiddenFollows
  <2>4. HeatmapTypeOK
    BY HeatmapFollows
  <2> QED BY <2>1, <2>2, <2>3, <2>4, Zenon DEF TypeOK
<1> QED BY <1>1, FlowFollows, ProfileAlways, GexFollows, HiddenAlways, HeatAlways, PTL
=============================================================================
