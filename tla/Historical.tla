----------------------------- MODULE Historical -----------------------------
(***************************************************************************)
(* The import of history (historical.rs, the import commands of main.rs):  *)
(* pages of candles or aggregated trades are fetched one after the other,  *)
(* each page from the millisecond after the last one, and only when all of *)
(* them are there are they written to the directory of the run, batch by   *)
(* batch.  The process may be killed between two batches, or in one, and   *)
(* the command given again: it writes the same files from the first on.    *)
(*                                                                         *)
(* The server is external: it answers with the first PageLimit records     *)
(* whose opening time is in the range asked for, or refuses.               *)
(***************************************************************************)
EXTENDS MarketEvents, Selections, SequencesExt

CONSTANTS
  Histories,    \* what the server may have: sequences of records
  EndTime,      \* end_time_ms; the import starts at 0
  PageLimit,    \* 1500 candles, 1000 trades
  MaxAttempts,  \* attempts of one page of trades: 3
  FileBatch,    \* flush_batch_size
  MaxImports    \* bound: how often the command is given

\* A candle or an aggregated trade, with its number and its first and last
\* millisecond
Record == [id : Nat, open : Nat, close : Nat, event : MarketEvent]

\* The server has them in order.  They share an opening time or follow one
\* another.
ASSUME HistoricalAssumption ==
  /\ Histories \subseteq Seq(Record)
  /\ \A h \in Histories : \A i \in DOMAIN h :
       /\ h[i].open <= h[i].close
       /\ \A j \in 1..i - 1 : /\ h[j].id < h[i].id
                              /\ h[j].open = h[i].open \/ h[j].close < h[i].open
  /\ {EndTime, PageLimit, MaxAttempts, FileBatch, MaxImports} \subseteq Nat \ {0}

VARIABLES
  history,   \* the server's records
  cursor,    \* start
  attempt,   \* refusals of the page being fetched
  fetched,   \* events, with the times of their records
  created,   \* whether the run directory exists
  files,     \* the files of the run directory; <<>> is one that was cut off
  written,   \* batches_written
  imports,   \* commands given
  importer   \* "fetching", "writing", "done", "failed"; "killed"

historicalVars ==
  <<history, cursor, attempt, fetched, created, files, written, imports, importer>>

\* The command starts with nothing in memory.
Fresh == /\ cursor' = 0
         /\ attempt' = 0
         /\ fetched' = <<>>
         /\ written' = 0

HistoricalInit ==
  /\ history \in Histories
  /\ cursor = 0 /\ attempt = 0 /\ fetched = <<>> /\ written = 0
  /\ files = <<>> /\ created = FALSE
  /\ imports = 1
  /\ importer = "fetching"

-----------------------------------------------------------------------------
\* Only trades may share an opening time; candles follow one another.
IsTrades == history # <<>> /\ history[1].event.kind = "trade"

\* The server's answer to startTime = from, endTime, limit.
PageOf(h, from) ==
  LET inRange == Only(h, {r \in Range(h) : from <= r.open /\ r.open <= EndTime})
  IN SubSeq(inRange, 1, IF Len(inRange) < PageLimit THEN Len(inRange) ELSE PageLimit)

Page == PageOf(history, cursor)

FetchIsOver == cursor >= EndTime \/ Page = <<>>

\* Mutant: the next page starts with the last record's time.
NextStartRepeats(page) == Last(page).close

NextStart(page) == Last(page).close + 1

FetchPage ==
  /\ importer = "fetching"
  /\ ~FetchIsOver
  /\ fetched' = fetched \o Page
  /\ cursor' = NextStart(Page)
  /\ attempt' = 0
  /\ UNCHANGED <<history, created, files, written, imports, importer>>

\* Mutant: the count of refusals starts over instead of ending the import.
RetryForEver ==
  /\ attempt' = (attempt + 1) % MaxAttempts
  /\ UNCHANGED importer

\* fetch_agg_trades_batch: a refused page is asked for again, three times.
RetryOrBail ==
  /\ attempt' = attempt + 1
  /\ importer' = IF attempt + 1 = MaxAttempts THEN "failed" ELSE importer

TooManyRequests ==
  /\ importer = "fetching" /\ ~FetchIsOver /\ IsTrades
  /\ RetryOrBail
  /\ UNCHANGED <<history, cursor, fetched, created, files, written, imports>>

\* error_for_status, of a candle page also when it is 429
HttpError ==
  /\ importer = "fetching" /\ cursor < EndTime
  /\ importer' = "failed"
  /\ UNCHANGED <<history, cursor, attempt, fetched, created, files, written, imports>>

\* The writer creates the directory, unless it is there already.
FetchDone ==
  /\ importer = "fetching"
  /\ FetchIsOver
  /\ importer' = "writing"
  /\ created' = TRUE
  /\ UNCHANGED <<history, cursor, attempt, fetched, files, written, imports>>

-----------------------------------------------------------------------------
(***************************************************************************)
(* write_events_to_parquet_run: a file per batch, and the rest at the end. *)
(* File::create empties the file of that number left by another import.    *)
(***************************************************************************)
BatchOf(records, n) ==
  SubSeq(records, (n - 1) * FileBatch + 1,
         IF Len(records) < n * FileBatch THEN Len(records) ELSE n * FileBatch)

Batch(n) == BatchOf(fetched, n)

\* The file after the last one, or in place of one that is there.
PutFile(content) ==
  files' = [n \in DOMAIN files \cup {written + 1} |->
              IF n = written + 1 THEN content ELSE files[n]]

WriteFile ==
  /\ importer = "writing"
  /\ Batch(written + 1) # <<>>
  /\ PutFile(Batch(written + 1))
  /\ written' = written + 1
  /\ UNCHANGED <<history, cursor, attempt, fetched, created, imports, importer>>

WriteDone ==
  /\ importer = "writing"
  /\ Batch(written + 1) = <<>>
  /\ importer' = "done"
  /\ UNCHANGED <<history, cursor, attempt, fetched, created, files, written, imports>>

\* The process is killed, or its disk is full, maybe within a file.
Killed ==
  /\ importer \in {"fetching", "writing"}
  /\ \/ UNCHANGED files
     \/ /\ importer = "writing" /\ Batch(written + 1) # <<>>
        /\ PutFile(<<>>)
  /\ importer' = "killed"
  /\ Fresh
  /\ UNCHANGED <<history, created, imports>>

\* The same command is given again after a failure or a kill.
ImportAgain ==
  /\ importer \in {"failed", "killed"}
  /\ imports < MaxImports
  /\ Fresh
  /\ imports' = imports + 1
  /\ importer' = "fetching"
  /\ UNCHANGED <<history, created, files>>

ImportStep == FetchPage \/ TooManyRequests \/ FetchDone \/ WriteFile \/ WriteDone

-----------------------------------------------------------------------------
\* read_events_from_parquet fails without a directory, and on a file that was
\* cut off.
Readable == created /\ \A n \in DOMAIN files : files[n] # <<>>

InFiles == FlattenSeq([n \in DOMAIN files |-> files[n]])

\* The events, by file name and then, stably, by local time.
EventsByTime(records) ==
  LET before(i, j) == records[i].event.ts < records[j].event.ts
                        \/ (records[i].event.ts = records[j].event.ts /\ i <= j)
      rank(j) == Cardinality({i \in DOMAIN records : before(i, j)})
  IN [k \in DOMAIN records |->
        records[CHOOSE j \in DOMAIN records : rank(j) = k].event]

(***************************************************************************)
(* After an import that ran to its end, however many failed or were killed *)
(* before it, the directory reads back as the records of the range, in     *)
(* order and once each.  The only ones that can be missing before the end  *)
(* share the opening time of the last record of a full page: the next page *)
(* starts one millisecond later.  (fetch_binance_klines,                   *)
(* fetch_binance_agg_trades, write_events_to_parquet_run)                  *)
(***************************************************************************)
ImportIsComplete ==
  importer = "done" =>
    LET kept == {i \in DOMAIN history : \E k \in DOMAIN InFiles : InFiles[k] = history[i]}
        inRange == {i \in DOMAIN history : history[i].open < EndTime}
        fullPageEnds == {k \in DOMAIN InFiles : k % PageLimit = 0}
    IN /\ Readable
       /\ \A k, l \in DOMAIN InFiles : k < l => InFiles[k].id < InFiles[l].id
       /\ \A i \in inRange \ kept : \E k \in fullPageEnds : InFiles[k].open = history[i].open
=============================================================================
