------------------------------ MODULE Backtest ------------------------------
(***************************************************************************)
(* From history to a report: the import writes a run directory, and the    *)
(* research command reads it back.  A directory can also hold a recording  *)
(* of the live process (Storage.tla): events of every kind in the order    *)
(* they arrived.  Nothing keeps the user from starting the research after  *)
(* an import that failed or was killed.                                    *)
(***************************************************************************)
EXTENDS Historical, Research

CONSTANT Recordings  \* sequences of events

\* No file is closed without an event in it.
ASSUME BacktestAssumption ==
  Recordings \subseteq Seq(MarketEvent) \ {<<>>}

vars == <<historicalVars, log, orderflowVars, profileVars, heatmapVars, researchVars>>

\* A recording in the directory, as records of one file.
Recorded(r) ==
  <<[i \in DOMAIN r |-> [id |-> i, open |-> r[i].ts, close |-> r[i].ts, event |-> r[i]]]>>

RecordingInit ==
  /\ history = <<>>
  /\ cursor = 0 /\ attempt = 0 /\ fetched = <<>> /\ written = 0
  /\ created = TRUE /\ \E r \in Recordings : files = Recorded(r)
  /\ imports = 0 /\ importer = "done"

Init == (HistoricalInit \/ RecordingInit) /\ ResearchInit

\* run_research_command: read the directory, or fail on a file that is cut off.
StartResearch ==
  /\ phase = "idle" /\ importer \in {"done", "failed", "killed"}
  /\ phase' = IF Readable THEN "replay" ELSE "failed"
  /\ input' = IF Readable THEN EventsByTime(InFiles) ELSE <<>>
  /\ UNCHANGED <<historicalVars, log, orderflowVars, profileVars, heatmapVars, prices, obi,
                 lastSnapshot, snapshots, labels, splits, results, report>>

\* run_regime_scan_command: the prices of the directory, read once, in windows.
ScanRegimes ==
  /\ phase = "idle" /\ importer \in {"done", "failed", "killed"}
  /\ IF Readable
     THEN \E all \in {EventsByTime(InFiles)} :
            LET events == Only(all, {e \in Range(all) : HasPrice(e)})
            IN /\ prices' = [i \in DOMAIN events |->
                               [ts |-> events[i].ts, price |-> PriceOf(events[i])]]
               /\ report' = [report EXCEPT !.scan = Scan(prices')]
               /\ phase' = "done"
     ELSE phase' = "failed" /\ UNCHANGED <<prices, report>>
  /\ UNCHANGED <<historicalVars, log, orderflowVars, profileVars, heatmapVars, input, obi,
                 lastSnapshot, snapshots, labels, splits, results>>

\* One command at a time: nothing is imported while the research runs.
Import ==
  /\ phase = "idle"
  /\ ImportStep \/ HttpError \/ Killed \/ ImportAgain
  /\ UNCHANGED <<log, orderflowVars, profileVars, heatmapVars, researchVars>>

Analyse == ResearchStep /\ UNCHANGED historicalVars

\* Nothing is left to do: the only states without another step.
Over ==
  /\ \/ phase \in {"done", "failed"}
     \/ phase = "idle" /\ importer = "failed" /\ imports = MaxImports
  /\ UNCHANGED vars

Next == Import \/ StartResearch \/ ScanRegimes \/ Analyse \/ Over

Spec == Init /\ [][Next]_vars

Running == phase \notin {"idle", "done", "failed"}

(***************************************************************************)
(* A request is answered in the end and the processor is not taken away,   *)
(* so a command that was started goes on; nobody has to start one.  A step *)
(* of the research is possible exactly while it runs (the absence of       *)
(* deadlock shows it): the second conjunct is WF_vars(Analyse) without     *)
(* ENABLED, which would compute every step twice.                          *)
(***************************************************************************)
FairSpec ==
  /\ Spec
  /\ []<>~Running \/ []<><<Analyse>>_vars
  /\ WF_vars(phase = "idle" /\ ImportStep
               /\ UNCHANGED <<log, orderflowVars, profileVars, heatmapVars, researchVars>>)

-----------------------------------------------------------------------------
(***************************************************************************)
(* Every command that was started comes to an end: the pages move on, a    *)
(* page that is refused again and again ends the import, and the splits    *)
(* run out of labels.  (With test_size 0, which the command line accepts,  *)
(* walk_forward_splits would not; ResearchAssumption excludes it.)         *)
(***************************************************************************)
BacktestEnds ==
  /\ importer \in {"fetching", "writing"} ~> importer \in {"done", "failed", "killed"}
  /\ Running ~> phase \in {"done", "failed"}
=============================================================================
