------------------------------ MODULE Monitor ------------------------------
(***************************************************************************)
(* The monitor (supabase/functions/monitor-heartbeat/index.ts): a function *)
(* called every few minutes that reads the row it wrote last time and the  *)
(* server's latest heartbeat, decides on a state and a reason key, sends a *)
(* Telegram message when either differs from the row, and writes the row.  *)
(* Each of these is a remote call and can fail; a failure ends the call.   *)
(*                                                                         *)
(* Time passes in units in which STALE_SECONDS and NO_EVENTS_SECONDS are   *)
(* whole numbers.  The reasons are kept as a set of [name, value]; the     *)
(* reason key spells all of them out, values included.                     *)
(***************************************************************************)
EXTENDS Integers, FiniteSets

CONSTANTS
  Calls,          \* calls of the function that can overlap
  Faults,         \* the names of the faults that the scalper's /health reports
  Memory,         \* readings of the memory gauge, in per cent
  Critical,       \* RAM_CRITICAL_PERCENT
  StaleAfter,     \* STALE_SECONDS
  NoEventsAfter,  \* NO_EVENTS_SECONDS
  MaxRestarts,    \* bound: restarts of the scalper
  MaxTime,        \* bound: the clock
  MaxEvents       \* bound: market events

\* The reasons that evaluate finds itself, and what it gives in their place.
OwnNames == {"http", "ram", "no_events", "healthy", "heartbeat_missing", "heartbeat_stale"}

ASSUME MonitorAssumption ==
  /\ Faults \cap OwnNames = {}
  /\ Memory \subseteq Nat
  /\ Critical \in Nat /\ StaleAfter \in Nat /\ NoEventsAfter \in Nat
  /\ MaxRestarts \in Nat /\ MaxTime \in Nat /\ MaxEvents \in Nat

VARIABLES
  now,        \* the clock
  events,     \* market_events_seen of the scalper
  lastEvent,  \* history: when its last event arrived
  restarts,   \* history: how often the scalper has restarted
  heartbeat,  \* the row of server_heartbeat: a set of at most one record
  row,        \* the row of monitor_state: a set of at most one record
  call,       \* call[c]: where call c is, and what it has read
  message,    \* history: the last Telegram message, and how often in a row
  stray       \* history: the call that sent it failed before its row was written

envVars == <<now, events, lastEvent, restarts, heartbeat>>
vars == <<envVars, row, call, message, stray>>

Reasons(names) == {[name |-> n, value |-> 0] : n \in names}
Names(reasons) == {r.name : r \in reasons}

Idle == [pc |-> "idle"]
NoMessage == [state |-> "none", key |-> {}, copies |-> 0]

-----------------------------------------------------------------------------
(***************************************************************************)
(* The server (external).                                                  *)
(***************************************************************************)
\* The units are minutes and a call takes seconds: no call outlasts a unit.
Tick ==
  /\ now < MaxTime
  /\ \A c \in Calls : call[c].pc = "idle"
  /\ now' = now + 1
  /\ UNCHANGED <<events, lastEvent, restarts, heartbeat, row, call, message, stray>>

MarketEvent ==
  /\ events < MaxEvents
  /\ events' = events + 1
  /\ lastEvent' = now
  /\ UNCHANGED <<now, restarts, heartbeat, row, call, message, stray>>

\* The counter of /health starts again from 0.
ScalperRestart ==
  /\ restarts < MaxRestarts
  /\ restarts' = restarts + 1
  /\ events' = 0
  /\ UNCHANGED <<now, lastEvent, heartbeat, row, call, message, stray>>

\* submit_server_heartbeat: an upsert, stamped with the database's clock.
\* When /health does not answer, the payload has no health at all.
Heartbeat(http, faults, memory) ==
  /\ heartbeat' = {[at |-> now, http |-> http, memory |-> memory,
                    faults |-> IF http THEN faults ELSE {},
                    events |-> IF http THEN events ELSE 0,
                    lastEvent |-> lastEvent]}
  /\ UNCHANGED <<now, events, lastEvent, restarts, row, call, message, stray>>

-----------------------------------------------------------------------------
(***************************************************************************)
(* evaluate                                                                *)
(***************************************************************************)
\* What the row remembers of the event counter; a first call starts from 0
\* and from its own time.
SeenBefore(previous) == IF previous = {} THEN 0 ELSE (CHOOSE p \in previous : TRUE).seen
AdvancedBefore(previous, t) ==
  IF \E p \in previous : p.advancedAt # {}
    THEN CHOOSE x \in (CHOOSE p \in previous : TRUE).advancedAt : TRUE
    ELSE t

\* Mutant: a single new event does not count.
AdvancesByTwo(h, previous) == h.events > SeenBefore(previous) + 1

Advances(h, previous) == h.events > SeenBefore(previous)

\* The counter has not advanced for longer than the limit.
Quiet(h, previous, t) ==
  ~Advances(h, previous) /\ t - AdvancedBefore(previous, t) > NoEventsAfter

\* The reasons of a heartbeat that is not stale.
ReasonsOf(h, previous, t) ==
  Reasons(h.faults)
  \cup (IF h.http THEN {} ELSE Reasons({"http"}))
  \cup (IF h.memory >= Critical THEN {[name |-> "ram", value |-> h.memory]} ELSE {})
  \cup (IF Quiet(h, previous, t)
          THEN {[name |-> "no_events", value |-> t - AdvancedBefore(previous, t)]}
          ELSE {})

\* The verdict on a heartbeat h, at time t.  A missing or stale heartbeat says
\* nothing about events: the metadata of the row is kept.
Verdict(h, previous, t) ==
  LET kept == [seen |-> SeenBefore(previous),
               advancedAt |-> UNION {p.advancedAt : p \in previous}]
      down(name) == [state |-> "down", key |-> Reasons({name}),
                     seen |-> kept.seen, advancedAt |-> kept.advancedAt]
  IN  IF h = {} THEN down("heartbeat_missing")
      ELSE LET b == CHOOSE x \in h : TRUE
               reasons == ReasonsOf(b, previous, t)
           IN  IF t - b.at > StaleAfter THEN down("heartbeat_stale")
               ELSE [state |-> IF reasons = {} THEN "up" ELSE "degraded",
                     key |-> IF reasons = {} THEN Reasons({"healthy"}) ELSE reasons,
                     seen |-> b.events,
                     advancedAt |-> {IF Advances(b, previous) THEN t
                                     ELSE AdvancedBefore(previous, t)}]

\* Mutant: only the state decides.
DiffersInState(previous, verdict) == \A p \in previous : p.state # verdict.state

\* Mutant: whatever is not well is told every time.
DiffersOrUnwell(previous, verdict) ==
  \A p \in previous : p.state # verdict.state \/ verdict.state # "up"

\* The first verdict, another state or another reason key is worth a message.
Differs(previous, verdict) ==
  \A p \in previous : p.state # verdict.state \/ p.key # verdict.key

-----------------------------------------------------------------------------
(***************************************************************************)
(* One call.                                                               *)
(***************************************************************************)
Goto(c, next) == call' = [call EXCEPT ![c] = next]

\* new Date(), then readMonitorState is awaited.
Begin(c) ==
  /\ call[c].pc = "idle"
  /\ Goto(c, [pc |-> "readState", t |-> now])
  /\ UNCHANGED <<envVars, row, message, stray>>

ReadState(c) ==
  /\ call[c].pc = "readState"
  /\ Goto(c, [pc |-> "readHeartbeat", t |-> call[c].t, previous |-> row])
  /\ UNCHANGED <<envVars, row, message, stray>>

\* The heartbeat arrives; evaluate and shouldNotify follow without an await.
ReadHeartbeat(c) ==
  /\ call[c].pc = "readHeartbeat"
  /\ LET verdict == Verdict(heartbeat, call[c].previous, call[c].t)
     IN  Goto(c, [pc |-> IF Differs(call[c].previous, verdict)
                           THEN "notify" ELSE "write",
                  verdict |-> verdict, told |-> FALSE])
  /\ UNCHANGED <<envVars, row, message, stray>>

Deliver(verdict) ==
  message' = [state |-> verdict.state, key |-> verdict.key,
              copies |-> IF /\ message.state = verdict.state
                            /\ message.key = verdict.key
                            /\ ~stray
                           THEN 2 ELSE 1]

\* Mutant: the row is written without a word.
NotifySilently(c) ==
  /\ call[c].pc = "notify"
  /\ Goto(c, [call[c] EXCEPT !.pc = "write"])
  /\ UNCHANGED <<envVars, row, message, stray>>

\* sendTelegram succeeds.
Notify(c) ==
  /\ call[c].pc = "notify"
  /\ Deliver(call[c].verdict)
  /\ stray' = FALSE
  /\ Goto(c, [pc |-> "write", verdict |-> call[c].verdict, told |-> TRUE])
  /\ UNCHANGED <<envVars, row>>

\* The message is out, but its reply is lost: the call fails.
NotifyUnconfirmed(c) ==
  /\ call[c].pc = "notify"
  /\ Deliver(call[c].verdict)
  /\ stray' = TRUE
  /\ Goto(c, Idle)
  /\ UNCHANGED <<envVars, row>>

\* Mutant: the row is inserted beside the old one.
WriteInserts(c) ==
  /\ call[c].pc = "write"
  /\ row' = row \cup {call[c].verdict}
  /\ Goto(c, Idle)
  /\ UNCHANGED <<envVars, message, stray>>

\* writeMonitorState: an upsert.
Write(c) ==
  /\ call[c].pc = "write"
  /\ row' = {call[c].verdict}
  /\ Goto(c, Idle)
  /\ UNCHANGED <<envVars, message, stray>>

\* A remote call fails, or the function is stopped.
Fail(c) ==
  /\ call[c].pc # "idle"
  /\ stray' = (stray \/ (call[c].pc = "write" /\ call[c].told))
  /\ Goto(c, Idle)
  /\ UNCHANGED <<envVars, row, message>>

-----------------------------------------------------------------------------
Init ==
  /\ now = 0
  /\ events = 0
  /\ lastEvent = 0
  /\ restarts = 0
  /\ heartbeat = {}
  /\ row = {}
  /\ call = [c \in Calls |-> Idle]
  /\ message = NoMessage
  /\ stray = FALSE

Server ==
  \/ Tick
  \/ MarketEvent
  \/ ScalperRestart
  \/ \E http \in BOOLEAN, faults \in SUBSET Faults, memory \in Memory :
        Heartbeat(http, faults, memory)

Function(c) ==
  \/ Begin(c)
  \/ ReadState(c)
  \/ ReadHeartbeat(c)
  \/ Notify(c)
  \/ NotifyUnconfirmed(c)
  \/ Write(c)
  \/ Fail(c)

Next == Server \/ \E c \in Calls : Function(c)

Spec == Init /\ [][Next]_vars

\* The schedule calls the function again and again, and no service fails for
\* ever.
FairSpec ==
  Spec /\ SF_vars(Tick)
       /\ \A c \in Calls : /\ WF_vars(Begin(c)) /\ SF_vars(ReadState(c))
                           /\ SF_vars(ReadHeartbeat(c)) /\ SF_vars(Notify(c))
                           /\ SF_vars(Write(c))

-----------------------------------------------------------------------------
(***************************************************************************)
(* Properties.                                                             *)
(***************************************************************************)
Reason == [name : Faults \cup OwnNames, value : Nat]
RowType(r) ==
  /\ r.state \in {"up", "degraded", "down"}
  /\ r.key \subseteq Reason /\ r.key # {}
  /\ r.seen \in Nat
  /\ r.advancedAt \subseteq Nat /\ Cardinality(r.advancedAt) <= 1

\* Every variable has its type; the row is one, and so is the heartbeat.
TypeOK ==
  /\ now \in Nat /\ events \in Nat /\ lastEvent \in Nat /\ restarts \in Nat
  /\ Cardinality(heartbeat) <= 1
  /\ \A h \in heartbeat : h.at <= now /\ h.http \in BOOLEAN /\ h.faults \subseteq Faults
                          /\ h.memory \in Memory /\ h.events \in Nat
  /\ Cardinality(row) <= 1
  /\ \A r \in row : RowType(r)
  /\ \A c \in Calls :
       /\ call[c].pc \in {"idle", "readState", "readHeartbeat", "notify", "write"}
       /\ call[c].pc \in {"notify", "write"} => RowType(call[c].verdict)
  /\ message.copies \in 0 .. 2
  /\ stray \in BOOLEAN

\* Between calls the last message tells what the row records, so whoever reads
\* Telegram knows the monitor's verdict; the one exception is a message whose
\* call failed before it had written its row, until the next message.
LastMessageIsTheVerdict ==
  ~stray /\ (\A c \in Calls : call[c].pc = "idle") =>
    \A r \in row : message.state = r.state /\ message.key = r.key

\* A change of the verdict is recorded only after it was told, even when calls
\* fail half way: a lost message is sent again by the next call (sendTelegram
\* before writeMonitorState).
RecordedOnlyAfterSent ==
  [][\A r \in row' : Differs(row, r) =>
       message.state = r.state /\ message.key = r.key]_vars

\* The same message is not sent twice in a row, unless the call that sent it
\* failed before it had written its row (shouldNotify).
NoDuplicateMessage == message.copies <= 1

\* The alarm "no market events" is true as long as the scalper has not restarted
\* and its /health answers: the heartbeat it is read from knows of no event since
\* the call that last saw the counter advance (evaluate, market_events_advanced_at).
\* Without an answer the heartbeat carries no counter, evaluate takes it for 0,
\* and the alarm is raised although events may flow.
Alarmed(c) ==
  /\ call[c].pc = "readHeartbeat" /\ call'[c].pc = "notify"
  /\ "no_events" \in Names(call'[c].verdict.key)
HealthAnswered == \A h \in heartbeat : h.http
TrueAlarm(c) ==
  \A t \in call'[c].verdict.advancedAt, h \in heartbeat : h.lastEvent <= t
NoEventsAlarmIsTrue ==
  [][\A c \in Calls :
       restarts = 0 /\ HealthAnswered /\ Alarmed(c) => TrueAlarm(c)]_vars

\* The same with restarts.  Telegram is told "only on meaningful transitions:
\* [...] no market events" (docs/project-memory.md:121-123).
RestartRaisesNoAlarm ==
  [][\A c \in Calls : HealthAnswered /\ Alarmed(c) => TrueAlarm(c)]_vars

\* When the server falls silent for good, the row comes to say down for good,
\* and so does the last message, whatever calls fail before.  The exception is
\* a last message whose call failed before it had written its row: the row may
\* have said down all along, then nothing differs and nothing is sent any more
\* (shouldNotify, writeMonitorState).
Silent == \A h \in heartbeat : now - h.at > StaleAfter
RecordedDown == \E r \in row : r.state = "down"
SilentServerIsReported ==
  <>[]Silent => <>[](RecordedDown /\ (message.state = "down" \/ stray))

=============================================================================
