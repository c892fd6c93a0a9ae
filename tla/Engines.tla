------------------------------ MODULE Engines ------------------------------
(***************************************************************************)
(* The signal engines of a live process: every event of the log goes to    *)
(* the engines the fan-out sends its kind to (Pipeline.tla has the         *)
(* channels and their order).  Engines share nothing but the log, so they  *)
(* take an event in one step; whatever their relative speed, each of them  *)
(* passes through these states.                                            *)
(***************************************************************************)
EXTENDS Orderflow, Profile, Gex, Hidden, Heatmap

CONSTANT Feeds  \* [events, length]: a behaviour draws its events from one feed

ASSUME FeedAssumption ==
  \A f \in Feeds : f.length \in Nat /\ \A e \in f.events : e \in MarketEvent

VARIABLE feed   \* the feed of this behaviour

vars == <<feed, log, orderflowVars, profileVars, gexVars, hiddenVars, heatmapVars>>

Init ==
  /\ feed \in Feeds
  /\ log = <<>>
  /\ OrderflowInit
  /\ ProfileInit
  /\ GexInit
  /\ HiddenInit
  /\ HeatmapInit

\* The next event arrives, at most Jitter older than the newest one.
Arrives(e) ==
  /\ e \in feed.events
  /\ Len(log) < feed.length
  /\ e.ts + Jitter >= Newest(log)
  /\ log' = Append(log, e)
  /\ UNCHANGED feed

Receive(e) ==
  /\ Arrives(e)
  /\ OrderflowReceives(e)
  /\ ProfileReceives(e)
  /\ GexReceives(e)
  /\ HiddenReceives(e)
  /\ HeatmapReceives(e)

Next == \E e \in feed.events : Receive(e)

Spec == Init /\ [][Next]_vars

-----------------------------------------------------------------------------
\* The engines' state is well formed, and no history outgrows its limit.
TypeOK ==
  /\ OrderflowTypeOK
  /\ ProfileTypeOK
  /\ GexTypeOK
  /\ HiddenTypeOK
  /\ HeatmapTypeOK

\* The order flow engine's windows, samples and footprint are those of the
\* whole history of trades.  (orderflow.rs: observe_trade)
OrderflowIsTheTape == WindowsAreComplete /\ FootprintIsTheBucket

\* The staleness flag and the gamma flip mean what the roadmap says of them,
\* up to the jitter and to strikes without exposure.  (gex.rs: stats)
GexFlagsAreTrue == FreshMeansRecentGreeks /\ FlipNeedsBothSigns
=============================================================================
