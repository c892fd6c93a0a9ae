-------------------------------- MODULE Gex --------------------------------
(***************************************************************************)
(* The gamma exposure engine (gex.rs): the last greeks of every option and *)
(* the last spot price give the exposure per strike and expiry, its sign   *)
(* changes and the age of the data.                                        *)
(*                                                                         *)
(* gamma stands for gamma * open interest * contract unit, a whole number; *)
(* the exposure leaves out the factor 0.01.  An option is its strike,      *)
(* expiry and type (its symbol follows from them).                         *)
(***************************************************************************)
EXTENDS MarketEvents

CONSTANTS
  CallSign, PutSign,  \* default_call_sign, default_put_sign
  GexStaleAfter       \* stale_after

ASSUME GexAssumption ==
  CallSign \in {-1, 1} /\ PutSign \in {-1, 1} /\ GexStaleAfter \in Nat

VARIABLES
  spot,      \* spot_price
  lastSeen,  \* last_ts_local_ms
  options    \* the last event of each option

gexVars == <<spot, lastSeen, options>>

OptionKey(e) == [strike |-> e.strike, expiry |-> e.expiry, type |-> e.type]

GexInit ==
  /\ spot = {}
  /\ lastSeen = {}
  /\ options = NoEntries

-----------------------------------------------------------------------------
ObserveSpot(e, price) ==
  /\ spot' = {price}
  /\ lastSeen' = {e.ts}
  /\ UNCHANGED options

\* Mutant: the first event of an option is kept.
ObserveOptionOnce(e) ==
  /\ options' = IF OptionKey(e) \in DOMAIN options THEN options
                ELSE Put(options, OptionKey(e), e)
  /\ lastSeen' = {e.ts}
  /\ UNCHANGED spot

ObserveOption(e) ==
  /\ options' = Put(options, OptionKey(e), e)
  /\ lastSeen' = {e.ts}
  /\ UNCHANGED spot

\* The task: a ticker's mark price and a trade's price are the spot.
GexReceives(e) ==
  CASE e.kind = "greek" -> ObserveOption(e)
    [] e.kind = "ticker" -> ObserveSpot(e, e.mark)
    [] e.kind = "trade" -> ObserveSpot(e, e.price)
    [] OTHER -> UNCHANGED gexVars

-----------------------------------------------------------------------------
(***************************************************************************)
(* stats: what is published is a function of the state.                    *)
(***************************************************************************)
Exposure(option, price) ==
  option.gamma * price * price * (IF option.type = "Call" THEN CallSign ELSE PutSign)

\* strike_stats, in the order of the map: by strike, then by expiry.
Levels == IF spot = {} THEN {}
          ELSE {[strike |-> k.strike, expiry |-> k.expiry] : k \in DOMAIN options}
Before(l, m) == l.strike < m.strike \/ (l.strike = m.strike /\ l.expiry < m.expiry)

OfLevel(keys, level) ==
  {k \in keys : k.strike = level.strike /\ k.expiry = level.expiry}
LevelGex(level) ==
  LET price == CHOOSE p \in spot : TRUE
  IN Total([k \in OfLevel(DOMAIN options, level) |-> Exposure(options[k], price)])

\* The running sum of gamma_flip; a sum of zero is +0.0, whose signum is 1.
UpTo(level) == {l \in Levels : l = level \/ Before(l, level)}
Cumulative(level) == Total([l \in UpTo(level) |-> LevelGex(l)])
Signum(n) == IF n < 0 THEN -1 ELSE 1

\* gamma_flip: the first pair of neighbours whose running sums differ in sign.
Neighbours(l, m) == Before(l, m) /\ ~\E k \in Levels : Before(l, k) /\ Before(k, m)
Flips == {pair \in Levels \X Levels :
            /\ Neighbours(pair[1], pair[2])
            /\ Signum(Cumulative(pair[1])) # Signum(Cumulative(pair[2]))}
GammaFlip == {pair \in Flips : \A other \in Flips : ~Before(other[1], pair[1])}

\* Mutant: the age is that of the oldest option.
OldestAge ==
  IF lastSeen = {} \/ options = NoEntries THEN {}
  ELSE {(CHOOSE t \in lastSeen : TRUE) - Min({options[k].ts : k \in DOMAIN options})}

\* snapshot_age_ms and stale
SnapshotAge ==
  IF lastSeen = {} \/ options = NoEntries THEN {}
  ELSE {(CHOOSE t \in lastSeen : TRUE) - Max({options[k].ts : k \in DOMAIN options})}
GexStale == \A age \in SnapshotAge : age > GexStaleAfter

-----------------------------------------------------------------------------
GexTypeOK ==
  /\ spot \subseteq Nat /\ lastSeen \subseteq Nat
  /\ Cardinality(spot) <= 1 /\ Cardinality(lastSeen) <= 1
  /\ \A k \in DOMAIN options : options[k] \in OptionGreek /\ OptionKey(options[k]) = k

Greeks(l) == {p \in DOMAIN l : l[p].kind = "greek"}
Spots(l) == {p \in DOMAIN l : l[p].kind \in {"ticker", "trade"}}
SpotOf(e) == IF e.kind = "ticker" THEN e.mark ELSE e.price

(***************************************************************************)
(* The exposure of every strike and expiry is that of the last greeks of   *)
(* each of its options at the last spot price, however greeks and spot     *)
(* prices interleave; greeks that came before any spot price count as soon *)
(* as there is one.  (observe_option, observe_spot, strike_stats)          *)
(***************************************************************************)
ExposureIsOfTheLastGreeks ==
  LET last(k) == Max({p \in Greeks(log) : OptionKey(log[p]) = k})
      keys == {OptionKey(log[p]) : p \in Greeks(log)}
  IN IF Spots(log) = {} THEN Levels = {}
     ELSE /\ Levels = {[strike |-> k.strike, expiry |-> k.expiry] : k \in keys}
          /\ \A level \in Levels :
               LevelGex(level) =
                 Total([k \in OfLevel(keys, level) |->
                          Exposure(log[last(k)], SpotOf(log[Max(Spots(log))]))])

(***************************************************************************)
(* The data counts as fresh exactly when some option is recent, give or    *)
(* take the jitter: never when every greek of the history is older than    *)
(* the limit, and always when one is younger by more than the jitter.      *)
(* (stats, documented as "marks GEX stale after configured snapshot age")  *)
(***************************************************************************)
FreshMeansRecentGreeks ==
  lastSeen # {} =>
    LET now == CHOOSE t \in lastSeen : TRUE
    IN /\ ~GexStale => \E p \in Greeks(log) : now - log[p].ts <= GexStaleAfter
       /\ GexStale => \A p \in Greeks(log) : now - log[p].ts > GexStaleAfter - Jitter

(***************************************************************************)
(* A gamma flip separates strikes where dealers are long gamma from        *)
(* strikes where they are short, unless a strike without any exposure lies *)
(* below it: the sum of nothing has a positive sign, so zero exposure at   *)
(* the lowest strikes reads as a flip.  (gamma_flip)                       *)
(***************************************************************************)
FlipNeedsBothSigns ==
  \A pair \in GammaFlip :
    LET below == UpTo(pair[1])
    IN \/ \E l \in below : LevelGex(l) = 0
       \/ \E l \in below : LevelGex(l) > 0 /\ LevelGex(pair[2]) < 0
       \/ \E l \in below : LevelGex(l) < 0 /\ LevelGex(pair[2]) > 0
=============================================================================
