--------------------------- MODULE MonitorProofs ---------------------------
(***************************************************************************)
(* Proofs about the monitor, for every set of faults and readings and      *)
(* every limit.  Its types and the truth of the no-events alarm hold       *)
(* however calls of the function overlap; the theorems about its messages  *)
(* are for calls of which one ends before the next begins, as calls that   *)
(* are minutes apart do.                                                   *)
(***************************************************************************)
EXTENDS Monitor, FiniteSetTheorems, TLAPS

-----------------------------------------------------------------------------
(***************************************************************************)
(* The inductive invariant                                                 *)
(***************************************************************************)
Told(v) == message.state = v.state /\ message.key = v.key

\* The call has sent its message, and its row is still to be written.
Sent(c) == call[c].pc = "write" /\ call[c].told

\* Where the call is fixes what it knows: nobody else writes the row.
CallInv(c) ==
  /\ DOMAIN call = Calls
  /\ call[c].pc \in {"idle", "readState", "readHeartbeat", "notify", "write"}
  /\ call[c].pc = "readHeartbeat" => call[c].previous = row
  /\ call[c].pc = "notify" =>
       Differs(row, call[c].verdict)
  /\ call[c].pc = "write" /\ call[c].told => Told(call[c].verdict) /\ ~stray
  /\ call[c].pc = "write" /\ ~call[c].told => ~Differs(row, call[c].verdict)
  /\ call[c].pc \in {"notify", "write"} => call[c].verdict.state # "none"

\* The last message tells what the row records, but for a message under way or
\* one whose row was not written.
RowInv(c) ==
  /\ \A r, q \in row : r = q
  /\ ~stray /\ ~Sent(c) => /\ \A r \in row : Told(r)
                           /\ row = {} => message.state = "none"
  /\ message.copies \in 0..1

IInv(c) == CallInv(c) /\ RowInv(c)

\* A verdict is one of three states.
LEMMA VerdictState ==
  ASSUME NEW h, NEW previous, NEW t
  PROVE  Verdict(h, previous, t).state # "none"
BY DEF Verdict

\* The call moves to its next place.
LEMMA Moves ==
  ASSUME NEW c \in Calls, DOMAIN call = Calls, NEW next, Goto(c, next)
  PROVE  DOMAIN call' = Calls /\ call'[c] = next
BY DEF Goto

\* A step that changes neither row nor call nor message.
LEMMA NothingTold ==
  ASSUME NEW c \in Calls, IInv(c), UNCHANGED <<row, call, message, stray>>
  PROVE  IInv(c)'
BY DEF IInv, CallInv, RowInv, Sent, Told, Differs

\* A call is over without a trace, or begins.
LEMMA NothingSent ==
  ASSUME NEW c \in Calls, IInv(c), NEW next, Goto(c, next),
         next.pc \in {"idle", "readState"} \/ (next.pc = "readHeartbeat" /\ next.previous = row),
         ~Sent(c), UNCHANGED <<row, message, stray>>
  PROVE  IInv(c)'
<1>1. DOMAIN call' = Calls /\ call'[c] = next
  BY Moves DEF IInv, CallInv
<1>2. ~Sent(c)'
  BY <1>1 DEF Sent
<1> QED BY <1>1, <1>2 DEF IInv, CallInv, RowInv, Told

\* The message that is sent differs from the last one, unless that was stray.
LEMMA DeliversNews ==
  ASSUME NEW c \in Calls, IInv(c), call[c].pc = "notify", Deliver(call[c].verdict)
  PROVE  /\ message'.state = call[c].verdict.state /\ message'.key = call[c].verdict.key
         /\ message'.copies = 1
<1> DEFINE v == call[c].verdict
<1>1. v.state # "none" /\ Differs(row, v)
  BY DEF IInv, CallInv
<1>2. ~Sent(c)
  BY DEF Sent
<1>3. ~(message.state = v.state /\ message.key = v.key /\ ~stray)
  BY <1>1, <1>2 DEF IInv, RowInv, Differs, Told
<1> QED BY <1>3 DEF Deliver

\* Every step of a monitor with a single call keeps the invariant.
LEMMA Step ==
  ASSUME NEW c, Calls = {c}
  PROVE  IInv(c) /\ [Next]_vars => IInv(c)'
<1> SUFFICES ASSUME IInv(c), [Next]_vars PROVE IInv(c)'
  OBVIOUS
<1>0. c \in Calls
  OBVIOUS
<1>1. CASE Server
  <2>1. UNCHANGED <<row, call, message, stray>>
    BY <1>1 DEF Server, Tick, MarketEvent, ScalperRestart, Heartbeat
  <2> QED BY <1>0, <2>1, NothingTold
<1>2. CASE Begin(c)
  <2>1. ~Sent(c)
    BY <1>2 DEF Begin, Sent
  <2> QED BY <1>0, <1>2, <2>1, NothingSent DEF Begin
<1>3. CASE ReadState(c)
  <2>1. ~Sent(c)
    BY <1>3 DEF ReadState, Sent
  <2> QED BY <1>0, <1>3, <2>1, NothingSent DEF ReadState
<1>4. CASE ReadHeartbeat(c)
  <2> DEFINE v == Verdict(heartbeat, call[c].previous, call[c].t)
             place == IF Differs(call[c].previous, v) THEN "notify" ELSE "write"
  <2>1. v.state # "none"
    BY VerdictState
  <2>2. Goto(c, [pc |-> place, verdict |-> v, told |-> FALSE])
    BY <1>4 DEF ReadHeartbeat
  <2>3. call[c].previous = row /\ row' = row /\ message' = message /\ stray' = stray
        /\ ~Sent(c)
    BY <1>4 DEF ReadHeartbeat, IInv, CallInv, Sent
  <2>4. place = IF Differs(row, v) THEN "notify" ELSE "write"
    BY <2>3
  <2> HIDE DEF v, place
  <2>5. DOMAIN call' = Calls /\ call'[c] = [pc |-> place, verdict |-> v, told |-> FALSE]
    BY <1>0, <2>2, Moves DEF IInv, CallInv
  <2>6. ~Sent(c)'
    BY <2>5 DEF Sent
  <2>7. RowInv(c)'
    BY <2>3, <2>6 DEF IInv, RowInv, Told
  <2>8. CallInv(c)'
    <3>1. call'[c].verdict = v /\ call'[c].told = FALSE /\ call'[c].pc = place
      BY <2>5
    <3>2. CASE Differs(row, v)
      <4>1. call'[c].pc = "notify" /\ Differs(row', call'[c].verdict)
        BY <2>3, <2>4, <3>1, <3>2
      <4> QED BY <2>1, <2>5, <3>1, <4>1 DEF CallInv, Differs
    <3>3. CASE ~Differs(row, v)
      <4>1. /\ call'[c].pc = "write" /\ call'[c].told = FALSE
            /\ ~Differs(row', call'[c].verdict)
        BY <2>3, <2>4, <3>1, <3>3
      <4> QED BY <2>1, <2>5, <3>1, <4>1 DEF CallInv, Differs
    <3> QED BY <3>2, <3>3
  <2> QED BY <2>7, <2>8 DEF IInv
<1>5. CASE Notify(c)
  <2>1. /\ message'.state = call[c].verdict.state /\ message'.key = call[c].verdict.key
        /\ message'.copies = 1
    BY <1>0, <1>5, DeliversNews DEF Notify
  <2>2. /\ DOMAIN call' = Calls
        /\ call'[c] = [pc |-> "write", verdict |-> call[c].verdict, told |-> TRUE]
    BY <1>0, <1>5, Moves DEF Notify, IInv, CallInv
  <2>3. stray' = FALSE /\ row' = row /\ call[c].verdict.state # "none"
    BY <1>5 DEF Notify, IInv, CallInv
  <2> QED BY <2>1, <2>2, <2>3 DEF IInv, CallInv, RowInv, Told, Sent
<1>6. CASE NotifyUnconfirmed(c)
  <2>1. message'.copies = 1
    BY <1>0, <1>6, DeliversNews DEF NotifyUnconfirmed
  <2>2. DOMAIN call' = Calls /\ call'[c] = Idle /\ stray' = TRUE /\ row' = row
    BY <1>0, <1>6, Moves DEF NotifyUnconfirmed, IInv, CallInv
  <2> QED BY <2>1, <2>2 DEF IInv, CallInv, RowInv, Idle
<1>7. CASE Write(c)
  <2> DEFINE v == call[c].verdict
  <2>1. call[c].pc = "write" /\ row' = {v} /\ message' = message /\ stray' = stray
    BY <1>7 DEF Write
  <2>2. DOMAIN call' = Calls /\ call'[c] = Idle
    BY <1>0, <1>7, Moves DEF Write, IInv, CallInv
  <2>3. ~stray => Told(v)
    <3>1. CASE call[c].told
      BY <2>1, <3>1 DEF IInv, CallInv
    <3>2. CASE ~call[c].told
      <4>1. PICK r \in row : r.state = v.state /\ r.key = v.key
        BY <2>1, <3>2 DEF IInv, CallInv, Differs
      <4> QED BY <3>2, <4>1 DEF IInv, RowInv, Sent, Told
    <3> QED BY <3>1, <3>2
  <2> HIDE DEF v
  <2> QED BY <2>1, <2>2, <2>3 DEF IInv, CallInv, RowInv, Idle, Told
<1>8. CASE Fail(c)
  <2>1. DOMAIN call' = Calls /\ call'[c] = Idle /\ row' = row /\ message' = message
        /\ (~stray' => ~stray /\ ~Sent(c))
    BY <1>0, <1>8, Moves DEF Fail, IInv, CallInv, Sent
  <2> QED BY <2>1 DEF IInv, CallInv, RowInv, Idle, Told
<1>9. CASE UNCHANGED vars
  BY <1>0, <1>9, NothingTold DEF vars
<1> QED
  BY <1>1, <1>2, <1>3, <1>4, <1>5, <1>6, <1>7, <1>8, <1>9 DEF Next, Function

-----------------------------------------------------------------------------
(***************************************************************************)
(* The theorems                                                            *)
(***************************************************************************)
\* The invariant holds in every behaviour of a single call.
THEOREM Invariance ==
  ASSUME NEW CONSTANT c, Calls = {c}
  PROVE  Spec => []IInv(c)
<1>1. Init => IInv(c)
  BY DEF Init, IInv, CallInv, RowInv, Idle, NoMessage, Sent
<1> QED BY <1>1, Step, PTL DEF Spec

\* Between calls the last message tells what the row records, but for a stray one.
THEOREM LastMessageTells ==
  ASSUME NEW CONSTANT c, Calls = {c}
  PROVE  Spec => []LastMessageIsTheVerdict
<1>1. IInv(c) => LastMessageIsTheVerdict
  BY DEF IInv, RowInv, LastMessageIsTheVerdict, Sent, Told
<1> QED BY <1>1, Invariance, PTL

\* No message is sent twice in a row, but for a stray one.  (shouldNotify)
THEOREM NothingIsToldTwice ==
  ASSUME NEW CONSTANT c, Calls = {c}
  PROVE  Spec => []NoDuplicateMessage
<1>1. IInv(c) => NoDuplicateMessage
  BY DEF IInv, RowInv, NoDuplicateMessage
<1> QED BY <1>1, Invariance, PTL

\* A changed verdict is recorded only once it was told: a message that is lost is
\* sent again by the next call.  (sendTelegram before writeMonitorState)
THEOREM ToldBeforeRecorded ==
  ASSUME NEW CONSTANT c, Calls = {c}
  PROVE  Spec => RecordedOnlyAfterSent
<1> DEFINE Recorded == \A r \in row' : Differs(row, r) =>
                         message.state = r.state /\ message.key = r.key
<1>1. ASSUME IInv(c), Next PROVE Recorded
  <2>1. CASE row' = row
    BY <2>1 DEF Differs
  <2>2. CASE Write(c)
    <3>1. row' = {call[c].verdict} /\ call[c].pc = "write"
      BY <2>2 DEF Write
    <3>2. Differs(row, call[c].verdict) => Told(call[c].verdict)
      BY <1>1, <3>1 DEF IInv, CallInv
    <3> QED BY <3>1, <3>2 DEF Told
  <2>3. row' = row \/ Write(c)
    BY <1>1 DEF Next, Function, Server, Tick, MarketEvent, ScalperRestart, Heartbeat,
                Begin, ReadState, ReadHeartbeat, Notify, NotifyUnconfirmed, Fail
  <2> QED BY <2>1, <2>2, <2>3
<1>2. IInv(c) /\ [Next]_vars => [Recorded]_vars
  BY <1>1
<1> QED BY <1>2, Invariance, PTL DEF Spec, RecordedOnlyAfterSent

-----------------------------------------------------------------------------
(***************************************************************************)
(* Types, for any number of calls that overlap                             *)
(***************************************************************************)
\* A set of at most one element, without counting
AtMostOne(S) == \A x, y \in S : x = y

\* The row, or what a call has read of it
RowOK(r) ==
  /\ r.state \in {"up", "degraded", "down"}
  /\ r.key \subseteq Reason /\ r.key # {}
  /\ r.seen \in Nat
  /\ r.advancedAt \subseteq Nat /\ AtMostOne(r.advancedAt)
RowsOK(rows) == AtMostOne(rows) /\ \A r \in rows : RowOK(r)

HeartbeatOK ==
  /\ AtMostOne(heartbeat)
  /\ \A h \in heartbeat : /\ h.at \in Nat /\ h.at <= now
                          /\ h.http \in BOOLEAN /\ h.faults \subseteq Faults
                          /\ h.memory \in Memory /\ h.events \in Nat
                          /\ h.lastEvent \in Nat

\* What a call knows has its type as well.
PlaceOK(p) ==
  /\ p.pc \in {"idle", "readState", "readHeartbeat", "notify", "write"}
  /\ p.pc \in {"readState", "readHeartbeat"} => p.t \in Nat
  /\ p.pc = "readHeartbeat" => RowsOK(p.previous)
  /\ p.pc \in {"notify", "write"} => RowOK(p.verdict)

ServerOK == now \in Nat /\ events \in Nat /\ lastEvent \in Nat /\ restarts \in Nat
CallsOK == DOMAIN call = Calls /\ \A c \in Calls : PlaceOK(call[c])
MessageOK == message.copies \in 0 .. 2 /\ stray \in BOOLEAN

TInv == ServerOK /\ HeartbeatOK /\ RowsOK(row) /\ CallsOK /\ MessageOK

\* At most one element: none, or just one.
LEMMA AtMostOneCounts ==
  ASSUME NEW S, AtMostOne(S)
  PROVE  Cardinality(S) <= 1
<1>1. CASE S = {}
  BY <1>1, FS_EmptySet
<1>2. CASE S # {}
  <2>1. PICK x \in S : TRUE
    BY <1>2
  <2>2. S = {x}
    BY <2>1 DEF AtMostOne
  <2>3. Cardinality({x}) = 1
    BY FS_Singleton
  <2> QED BY <2>2, <2>3
<1> QED BY <1>1, <1>2

\* The types are those of TypeOK.
LEMMA TInvTypes == TInv => TypeOK
<1>1. \A r : RowOK(r) => RowType(r)
  BY AtMostOneCounts DEF RowOK, RowType
<1>2. TInv => Cardinality(heartbeat) <= 1 /\ Cardinality(row) <= 1
  BY AtMostOneCounts DEF TInv, HeartbeatOK, RowsOK
<1> QED BY <1>1, <1>2 DEF TInv, TypeOK, ServerOK, HeartbeatOK, RowsOK, CallsOK, PlaceOK, MessageOK

\* What evaluate takes from the row has its type.
LEMMA KeptOK ==
  ASSUME NEW previous, RowsOK(previous), NEW t \in Nat
  PROVE  /\ SeenBefore(previous) \in Nat
         /\ AdvancedBefore(previous, t) \in Nat
         /\ UNION {p.advancedAt : p \in previous} \subseteq Nat
         /\ AtMostOne(UNION {p.advancedAt : p \in previous})
<1>1. SeenBefore(previous) \in Nat
  BY DEF SeenBefore, RowsOK, RowOK
<1>2. AdvancedBefore(previous, t) \in Nat
  <2>1. CASE \E p \in previous : p.advancedAt # {}
    <3> DEFINE q == CHOOSE p \in previous : TRUE
    <3>1. q \in previous /\ q.advancedAt # {}
      BY <2>1 DEF RowsOK, AtMostOne
    <3> HIDE DEF q
    <3>2. (CHOOSE x \in q.advancedAt : TRUE) \in q.advancedAt
      BY <3>1
    <3> QED BY <2>1, <3>1, <3>2 DEF AdvancedBefore, RowsOK, RowOK, q
  <2> QED BY <2>1 DEF AdvancedBefore
<1>3. UNION {p.advancedAt : p \in previous} \subseteq Nat
  BY DEF RowsOK, RowOK
<1>4. AtMostOne(UNION {p.advancedAt : p \in previous})
  BY DEF RowsOK, RowOK, AtMostOne
<1> QED BY <1>1, <1>2, <1>3, <1>4

\* Names that evaluate uses make reasons.
LEMMA ReasonsOK ==
  ASSUME NEW names, names \subseteq Faults \cup OwnNames
  PROVE  Reasons(names) \subseteq Reason /\ (names # {} => Reasons(names) # {})
<1>1. \A n \in Faults \cup OwnNames : [name |-> n, value |-> 0] \in Reason
  BY DEF Reason
<1> QED BY <1>1, Zenon DEF Reasons

\* A verdict has the type of a row.
LEMMA VerdictOK ==
  ASSUME TInv, NEW previous, RowsOK(previous), NEW t \in Nat
  PROVE  RowOK(Verdict(heartbeat, previous, t))
<1> DEFINE v == Verdict(heartbeat, previous, t)
           b == CHOOSE x \in heartbeat : TRUE
           reasons == ReasonsOf(b, previous, t)
           seen == SeenBefore(previous)
           before == AdvancedBefore(previous, t)
           kept == UNION {p.advancedAt : p \in previous}
<1>0. seen \in Nat /\ before \in Nat /\ kept \subseteq Nat /\ AtMostOne(kept)
  BY KeptOK
<1>1. \A n \in OwnNames : Reasons({n}) \subseteq Reason /\ Reasons({n}) # {}
  BY ReasonsOK
<1> SUFFICES RowOK(v)
  OBVIOUS
<1>2. CASE heartbeat = {} \/ t - b.at > StaleAfter
  <2>1. PICK n \in {"heartbeat_missing", "heartbeat_stale"} :
          v = [state |-> "down", key |-> Reasons({n}), seen |-> seen, advancedAt |-> kept]
    BY <1>2 DEF Verdict
  <2>2. Reasons({n}) \subseteq Reason /\ Reasons({n}) # {}
    BY <1>1 DEF OwnNames
  <2> HIDE DEF v, seen, kept
  <2> QED BY <1>0, <2>1, <2>2 DEF RowOK
<1>3. CASE heartbeat # {} /\ ~(t - b.at > StaleAfter)
  <2>1. v = [state |-> IF reasons = {} THEN "up" ELSE "degraded",
             key |-> IF reasons = {} THEN Reasons({"healthy"}) ELSE reasons,
             seen |-> b.events,
             advancedAt |-> {IF Advances(b, previous) THEN t ELSE before}]
    BY <1>3 DEF Verdict
  <2>2. b \in heartbeat
    BY <1>3
  <2>3. b.faults \subseteq Faults /\ b.memory \in Nat /\ b.events \in Nat
    BY <2>2, MonitorAssumption DEF TInv, HeartbeatOK
  <2> HIDE DEF b, before
  <2>4. reasons \subseteq Reason
    <3>1. Reasons(b.faults) \subseteq Reason
      BY <2>3, ReasonsOK
    <3>2. Reasons({"http"}) \subseteq Reason
      BY <1>1 DEF OwnNames
    <3>3. [name |-> "ram", value |-> b.memory] \in Reason
      BY <2>3 DEF Reason, OwnNames
    <3>4. Quiet(b, previous, t) => [name |-> "no_events", value |-> t - before] \in Reason
      <4>1. Quiet(b, previous, t) => t - before \in Nat
        BY <1>0, MonitorAssumption DEF Quiet, before
      <4> QED BY <4>1 DEF Reason, OwnNames
    <3> QED BY <3>1, <3>2, <3>3, <3>4 DEF ReasonsOf, before
  <2>5. {IF Advances(b, previous) THEN t ELSE before} \subseteq Nat
    BY <1>0
  <2> HIDE DEF v, reasons
  <2>6. v.state \in {"up", "degraded", "down"} /\ v.seen \in Nat
    BY <2>1, <2>3
  <2>7. v.key \subseteq Reason /\ v.key # {}
    <3>1. Reasons({"healthy"}) \subseteq Reason /\ Reasons({"healthy"}) # {}
      BY <1>1 DEF OwnNames
    <3> QED BY <2>1, <2>4, <3>1
  <2>8. v.advancedAt \subseteq Nat /\ AtMostOne(v.advancedAt)
    BY <2>1, <2>5 DEF AtMostOne
  <2> QED BY <2>6, <2>7, <2>8 DEF RowOK
<1> HIDE DEF v, b
<1> QED BY <1>2, <1>3

\* A call that moves to a place with its type keeps the types of all calls.
LEMMA CallsMove ==
  ASSUME CallsOK, NEW c \in Calls, NEW next, Goto(c, next), PlaceOK(next)
  PROVE  CallsOK'
<1>1. DOMAIN call' = Calls /\ \A d \in Calls : call'[d] = IF d = c THEN next ELSE call[d]
  BY DEF CallsOK, Goto
<1>2. ASSUME NEW d \in Calls PROVE PlaceOK(call'[d])
  <2>1. CASE d = c
    BY <1>1, <2>1, Zenon
  <2>2. CASE d # c
    <3>1. call'[d] = call[d]
      BY <1>1, <2>2
    <3>2. PlaceOK(call[d])
      BY DEF CallsOK
    <3> QED BY <3>1, <3>2, Zenon
  <2> QED BY <2>1, <2>2
<1>3. \A d \in Calls : PlaceOK(call[d])'
  BY <1>2 DEF PlaceOK
<1> QED BY <1>1, <1>3 DEF CallsOK

\* A step of the calls leaves the server's types alone.
LEMMA ServerStays ==
  ASSUME ServerOK, HeartbeatOK, UNCHANGED envVars
  PROVE  ServerOK' /\ HeartbeatOK'
BY DEF ServerOK, HeartbeatOK, envVars

\* A message that is sent has its type.
LEMMA DeliverOK ==
  ASSUME MessageOK, NEW v, Deliver(v)
  PROVE  message'.copies \in 0 .. 2
BY DEF Deliver

\* Every step keeps the types.
LEMMA TStep == TInv /\ [Next]_vars => TInv'
<1> SUFFICES ASSUME TInv, [Next]_vars PROVE TInv'
  OBVIOUS
<1>0. ServerOK /\ HeartbeatOK /\ RowsOK(row) /\ CallsOK /\ MessageOK
  BY DEF TInv
<1>1. CASE Server
  <2>1. UNCHANGED <<row, call, message, stray>>
    BY <1>1 DEF Server, Tick, MarketEvent, ScalperRestart, Heartbeat
  <2>2. RowsOK(row)' /\ CallsOK' /\ MessageOK'
    BY <1>0, <2>1 DEF RowsOK, CallsOK, PlaceOK, MessageOK
  <2> SUFFICES ServerOK' /\ HeartbeatOK'
    BY <2>2 DEF TInv
  <2>3. CASE Tick
    BY <1>0, <2>3 DEF Tick, ServerOK, HeartbeatOK
  <2>4. CASE MarketEvent
    BY <1>0, <2>4 DEF MarketEvent, ServerOK, HeartbeatOK
  <2>5. CASE ScalperRestart
    BY <1>0, <2>5 DEF ScalperRestart, ServerOK, HeartbeatOK
  <2>6. ASSUME NEW http \in BOOLEAN, NEW faults \in SUBSET Faults, NEW memory \in Memory,
               Heartbeat(http, faults, memory)
        PROVE  ServerOK' /\ HeartbeatOK'
    <3> DEFINE h == [at |-> now, http |-> http, memory |-> memory,
                     faults |-> IF http THEN faults ELSE {},
                     events |-> IF http THEN events ELSE 0,
                     lastEvent |-> lastEvent]
    <3>1. heartbeat' = {h} /\ UNCHANGED <<now, events, lastEvent, restarts>>
      BY <2>6 DEF Heartbeat
    <3>2. /\ h.at = now /\ h.http = http /\ h.faults \subseteq Faults
          /\ h.memory = memory /\ h.events \in Nat /\ h.lastEvent = lastEvent
      BY <1>0 DEF ServerOK
    <3> HIDE DEF h
    <3>3. h.at <= now /\ h.at \in Nat /\ h.lastEvent \in Nat
      BY <1>0, <3>2 DEF ServerOK
    <3>4. h.http \in BOOLEAN
      BY <3>2, Zenon
    <3>5. \A x \in heartbeat' : x = h
      BY <3>1
    <3>6. ServerOK'
      BY <1>0, <3>1 DEF ServerOK
    <3>7. now' = now
      BY <3>1
    <3> QED BY <3>2, <3>3, <3>4, <3>5, <3>6, <3>7, Zenon DEF HeartbeatOK, AtMostOne
  <2> QED BY <1>1, <2>3, <2>4, <2>5, <2>6 DEF Server
<1>2. ASSUME NEW c \in Calls, Begin(c) PROVE TInv'
  <2>1. PlaceOK([pc |-> "readState", t |-> now])
    BY <1>0 DEF PlaceOK, ServerOK
  <2>2. CallsOK'
    BY <1>0, <1>2, <2>1, CallsMove DEF Begin
  <2> QED BY <1>0, <1>2, <2>2, ServerStays DEF Begin, TInv, RowsOK, MessageOK
<1>3. ASSUME NEW c \in Calls, ReadState(c) PROVE TInv'
  <2>1. PlaceOK([pc |-> "readHeartbeat", t |-> call[c].t, previous |-> row])
    BY <1>0, <1>3 DEF PlaceOK, CallsOK, ReadState
  <2>2. CallsOK'
    BY <1>0, <1>3, <2>1, CallsMove DEF ReadState
  <2> QED BY <1>0, <1>3, <2>2, ServerStays DEF ReadState, TInv, RowsOK, MessageOK
<1>4. ASSUME NEW c \in Calls, ReadHeartbeat(c) PROVE TInv'
  <2> DEFINE v == Verdict(heartbeat, call[c].previous, call[c].t)
             next == [pc |-> IF Differs(call[c].previous, v) THEN "notify" ELSE "write",
                      verdict |-> v, told |-> FALSE]
  <2>1. RowsOK(call[c].previous) /\ call[c].t \in Nat
    BY <1>0, <1>4 DEF CallsOK, PlaceOK, ReadHeartbeat
  <2>2. RowOK(v)
    BY <2>1, VerdictOK
  <2>3. Goto(c, next) /\ UNCHANGED <<envVars, row, message, stray>>
    BY <1>4 DEF ReadHeartbeat
  <2> HIDE DEF v
  <2>4. PlaceOK(next)
    BY <2>2 DEF PlaceOK
  <2> HIDE DEF next
  <2>5. CallsOK'
    BY <1>0, <2>3, <2>4, CallsMove
  <2> QED BY <1>0, <2>3, <2>5, ServerStays DEF TInv, RowsOK, MessageOK
<1>5. ASSUME NEW c \in Calls, Notify(c) PROVE TInv'
  <2>1. PlaceOK([pc |-> "write", verdict |-> call[c].verdict, told |-> TRUE])
    BY <1>0, <1>5 DEF CallsOK, PlaceOK, Notify
  <2>2. CallsOK'
    BY <1>0, <1>5, <2>1, CallsMove DEF Notify
  <2>3. MessageOK'
    BY <1>0, <1>5, DeliverOK DEF Notify, MessageOK
  <2> QED BY <1>0, <1>5, <2>2, <2>3, ServerStays DEF Notify, TInv, RowsOK
<1>6. ASSUME NEW c \in Calls, NotifyUnconfirmed(c) PROVE TInv'
  <2>1. CallsOK'
    BY <1>0, <1>6, CallsMove DEF NotifyUnconfirmed, PlaceOK, Idle
  <2>2. MessageOK'
    BY <1>0, <1>6, DeliverOK DEF NotifyUnconfirmed, MessageOK
  <2> QED BY <1>0, <1>6, <2>1, <2>2, ServerStays DEF NotifyUnconfirmed, TInv, RowsOK
<1>7. ASSUME NEW c \in Calls, Write(c) PROVE TInv'
  <2>1. CallsOK'
    BY <1>0, <1>7, CallsMove DEF Write, PlaceOK, Idle
  <2>2. RowsOK(row)'
    <3>1. RowOK(call[c].verdict) /\ row' = {call[c].verdict}
      BY <1>0, <1>7 DEF Write, CallsOK, PlaceOK
    <3> QED BY <3>1, Zenon DEF RowsOK, AtMostOne
  <2> QED BY <1>0, <1>7, <2>1, <2>2, ServerStays DEF Write, TInv, MessageOK
<1>8. ASSUME NEW c \in Calls, Fail(c) PROVE TInv'
  <2>1. CallsOK'
    BY <1>0, <1>8, CallsMove DEF Fail, PlaceOK, Idle
  <2>2. stray' \in BOOLEAN
    BY <1>0, <1>8, Zenon DEF Fail, MessageOK
  <2> QED BY <1>0, <1>8, <2>1, <2>2, ServerStays DEF Fail, TInv, RowsOK, MessageOK
<1>9. CASE UNCHANGED vars
  BY <1>9 DEF vars, envVars, TInv, ServerOK, HeartbeatOK, RowsOK, CallsOK, PlaceOK, MessageOK
<1> QED
  BY <1>1, <1>2, <1>3, <1>4, <1>5, <1>6, <1>7, <1>8, <1>9 DEF Next, Function

\* The types hold of the first state.
LEMMA TInit == Init => TInv
<1> SUFFICES ASSUME Init PROVE TInv
  OBVIOUS
<1>1. ServerOK /\ HeartbeatOK /\ RowsOK(row)
  BY DEF Init, ServerOK, HeartbeatOK, RowsOK, AtMostOne
<1>2. CallsOK
  BY DEF Init, CallsOK, PlaceOK, Idle
<1>3. MessageOK
  <2>1. message.copies \in 0 .. 2
    BY DEF Init, NoMessage
  <2>2. stray \in BOOLEAN
    BY Zenon DEF Init
  <2> QED BY <2>1, <2>2 DEF MessageOK
<1> QED BY <1>1, <1>2, <1>3 DEF TInv

\* Every variable has its type, and so has what each call has read or decided,
\* however the calls overlap and fail; there is never a second row.
\* (readMonitorState, evaluate, writeMonitorState)
THEOREM TypeCorrectness == Spec => []TypeOK
BY TInit, TStep, TInvTypes, PTL DEF Spec

-----------------------------------------------------------------------------
(***************************************************************************)
(* The alarm "no market events", for any number of calls that overlap      *)
(***************************************************************************)
\* A row is right about the events, as long as the scalper has not restarted:
\* it has seen no more than there were, and whoever has seen no event after
\* those the row has seen knows of none after the time that the row gives.
Known(r) ==
  restarts = 0 =>
    /\ r.seen <= events
    /\ \A a \in r.advancedAt :
         /\ events <= r.seen => lastEvent <= a
         /\ \A h \in heartbeat : h.http /\ h.events <= r.seen => h.lastEvent <= a

\* A call reads the clock of its own time, and what it has read of the row, or
\* decided, is right as well, even when another call has since written the row.
Knows(p) ==
  /\ p.pc \in {"readState", "readHeartbeat"} => p.t = now
  /\ p.pc = "readHeartbeat" => \A r \in p.previous : Known(r)
  /\ p.pc \in {"notify", "write"} => Known(p.verdict)

Lived ==
  /\ lastEvent <= now
  /\ \A h \in heartbeat : h.lastEvent <= now /\ (restarts = 0 => h.events <= events)

AInv ==
  /\ TInv
  /\ Lived
  /\ \A r \in row : Known(r)
  /\ \A c \in Calls : Knows(call[c])

\* What a call takes from a row that it has read
LEMMA Taken ==
  ASSUME NEW previous, RowsOK(previous), NEW t \in Nat
  PROVE  /\ previous = {} => SeenBefore(previous) = 0 /\ AdvancedBefore(previous, t) = t
         /\ \A r \in previous :
              /\ SeenBefore(previous) = r.seen
              /\ AdvancedBefore(previous, t) = t \/ AdvancedBefore(previous, t) \in r.advancedAt
<1>1. ASSUME previous = {} PROVE SeenBefore(previous) = 0 /\ AdvancedBefore(previous, t) = t
  BY <1>1 DEF SeenBefore, AdvancedBefore
<1>2. ASSUME NEW r \in previous
      PROVE  /\ SeenBefore(previous) = r.seen
             /\ AdvancedBefore(previous, t) = t \/ AdvancedBefore(previous, t) \in r.advancedAt
  <2>1. (CHOOSE p \in previous : TRUE) = r
    BY DEF RowsOK, AtMostOne
  <2>2. SeenBefore(previous) = r.seen
    BY <2>1 DEF SeenBefore
  <2>3. CASE \E p \in previous : p.advancedAt # {}
    <3>1. r.advancedAt # {}
      BY <2>3 DEF RowsOK, AtMostOne
    <3>2. (CHOOSE x \in r.advancedAt : TRUE) \in r.advancedAt
      BY <3>1
    <3>3. AdvancedBefore(previous, t) = CHOOSE x \in r.advancedAt : TRUE
      BY <2>1, <2>3 DEF AdvancedBefore
    <3> QED BY <2>2, <3>2, <3>3
  <2>4. CASE ~ \E p \in previous : p.advancedAt # {}
    BY <2>2, <2>4 DEF AdvancedBefore
  <2> QED BY <2>3, <2>4
<1> QED BY <1>1, <1>2

\* A call decides on a row that is right, from one that is right.
LEMMA VerdictKnown ==
  ASSUME TInv, Lived, NEW previous, RowsOK(previous), \A r \in previous : Known(r)
  PROVE  Known(Verdict(heartbeat, previous, now))
<1> SUFFICES ASSUME restarts = 0 PROVE Known(Verdict(heartbeat, previous, now))
  BY DEF Known
<1> DEFINE v == Verdict(heartbeat, previous, now)
           b == CHOOSE x \in heartbeat : TRUE
           seen == SeenBefore(previous)
           before == AdvancedBefore(previous, now)
           kept == UNION {p.advancedAt : p \in previous}
           Right(n, a) == /\ events <= n => lastEvent <= a
                          /\ \A h \in heartbeat : h.http /\ h.events <= n => h.lastEvent <= a
<1>0. now \in Nat /\ events \in Nat /\ seen \in Nat /\ before \in Nat
  BY KeptOK DEF TInv, ServerOK
<1>1. seen <= events
  <2>1. CASE previous = {}
    BY <1>0, <2>1, Taken
  <2>2. ASSUME NEW r \in previous PROVE seen <= events
    BY <1>0, Taken DEF Known
  <2> QED BY <2>1, <2>2
<1>2. \A n \in Nat : Right(n, now)
  BY DEF Lived
<1>3. before = now \/ Right(seen, before)
  <2>1. CASE previous = {}
    BY <1>0, <2>1, Taken
  <2>2. ASSUME NEW r \in previous PROVE before = now \/ Right(seen, before)
    <3>1. seen = r.seen /\ (before = now \/ before \in r.advancedAt)
      BY <1>0, Taken
    <3> QED BY <3>1 DEF Known
  <2> QED BY <2>1, <2>2
<1>4. \A a \in kept : Right(seen, a)
  <2> SUFFICES ASSUME NEW r \in previous, NEW a \in r.advancedAt PROVE Right(seen, a)
    OBVIOUS
  <2>1. seen = r.seen
    BY <1>0, Taken
  <2> QED BY <2>1 DEF Known
<1>5. CASE heartbeat = {} \/ now - b.at > StaleAfter
  <2>1. v.seen = seen /\ v.advancedAt = kept
    BY <1>5 DEF Verdict
  <2> HIDE DEF v, seen, kept
  <2> QED BY <1>1, <1>4, <2>1 DEF Known, v
<1>6. CASE heartbeat # {} /\ ~(now - b.at > StaleAfter)
  <2>1. v.seen = b.events
        /\ v.advancedAt = {IF Advances(b, previous) THEN now ELSE before}
    BY <1>6 DEF Verdict
  <2>2. b \in heartbeat /\ b.events \in Nat /\ b.events <= events
    BY <1>6 DEF TInv, HeartbeatOK, Lived
  <2>3. CASE Advances(b, previous) \/ before = now
    <3>1. v.advancedAt = {now}
      BY <2>1, <2>3
    <3>2. Right(b.events, now)
      BY <1>2, <2>2
    <3> HIDE DEF v, b
    <3> QED BY <2>1, <2>2, <3>1, <3>2 DEF Known, v
  <2>4. CASE ~Advances(b, previous) /\ Right(seen, before)
    <3>1. v.advancedAt = {before} /\ b.events <= seen
      BY <1>0, <2>1, <2>2, <2>4 DEF Advances
    <3> HIDE DEF v, b, seen, before
    <3>2. Right(b.events, before)
      <4>1. \A h \in heartbeat : h.events \in Nat
        BY DEF TInv, HeartbeatOK
      <4> QED BY <1>0, <2>2, <2>4, <3>1, <4>1
    <3> QED BY <2>1, <2>2, <3>1, <3>2 DEF Known, v
  <2> QED BY <1>3, <2>3, <2>4
<1> QED BY <1>5, <1>6

\* What the server does keeps every row that is right right.
LEMMA ServerKeeps ==
  ASSUME TInv, Lived, Server
  PROVE  Lived' /\ \A r : RowOK(r) /\ Known(r) => Known(r)'
<1>0. /\ now \in Nat /\ events \in Nat /\ lastEvent \in Nat /\ restarts \in Nat
      /\ \A h \in heartbeat : h.events \in Nat /\ h.lastEvent \in Nat
  BY DEF TInv, ServerOK, HeartbeatOK
<1>1. CASE Tick
  BY <1>0, <1>1 DEF Tick, Lived, Known
<1>2. CASE MarketEvent
  <2>1. events' = events + 1 /\ lastEvent' = now /\ UNCHANGED <<now, restarts, heartbeat>>
    BY <1>2 DEF MarketEvent
  <2>2. Lived'
    BY <1>0, <2>1 DEF Lived
  <2>3. ASSUME NEW r, RowOK(r), Known(r) PROVE Known(r)'
    <3>1. r.seen \in Nat
      BY <2>3 DEF RowOK
    <3> QED BY <1>0, <2>1, <2>3, <3>1 DEF Known
  <2> QED BY <2>2, <2>3
<1>3. CASE ScalperRestart
  <2>1. restarts' = restarts + 1 /\ UNCHANGED <<now, lastEvent, heartbeat>>
    BY <1>3 DEF ScalperRestart
  <2> QED BY <1>0, <2>1 DEF Lived, Known
<1>4. ASSUME NEW http \in BOOLEAN, NEW faults \in SUBSET Faults, NEW memory \in Memory,
             Heartbeat(http, faults, memory)
      PROVE  Lived' /\ \A r : RowOK(r) /\ Known(r) => Known(r)'
  <2>1. UNCHANGED <<now, events, lastEvent, restarts>>
    BY <1>4 DEF Heartbeat
  <2>2. \A h \in heartbeat' : /\ h.http => h.events = events
                              /\ h.events = events \/ h.events = 0
                              /\ h.lastEvent = lastEvent
    BY <1>4 DEF Heartbeat
  <2>3. Lived'
    BY <1>0, <2>1, <2>2 DEF Lived
  <2>4. ASSUME NEW r, RowOK(r), Known(r) PROVE Known(r)'
    BY <2>1, <2>2, <2>4 DEF Known
  <2> QED BY <2>3, <2>4
<1> QED BY <1>1, <1>2, <1>3, <1>4 DEF Server

\* A call that moves on with what is right keeps the invariant.
LEMMA KnowingCallMoves ==
  ASSUME AInv, TInv', UNCHANGED envVars, NEW c \in Calls, NEW next, Goto(c, next), Knows(next),
         \A r \in row' : r \in row \/ Known(r)
  PROVE  AInv'
<1>1. \A d \in Calls : call'[d] = IF d = c THEN next ELSE call[d]
  BY DEF AInv, TInv, CallsOK, Goto
<1>2. \A r : Known(r)' = Known(r)
  BY DEF Known, envVars
<1>3. \A p : Knows(p) => (p.pc \in {"readState", "readHeartbeat"} => p.t = now')
                       /\ (p.pc = "readHeartbeat" => \A r \in p.previous : Known(r)')
                       /\ (p.pc \in {"notify", "write"} => Known(p.verdict)')
  BY <1>2 DEF Knows, envVars
<1>4. ASSUME NEW d \in Calls PROVE Knows(call[d])'
  <2>1. Knows(call'[d])
    <3>1. CASE d = c
      BY <1>1, <3>1, Zenon
    <3>2. CASE d # c
      <4>1. call'[d] = call[d]
        BY <1>1, <3>2
      <4>2. Knows(call[d])
        BY DEF AInv
      <4> QED BY <4>1, <4>2, Zenon
    <3> QED BY <3>1, <3>2
  <2> QED BY <1>3, <2>1 DEF Knows
<1>5. Lived' /\ \A r \in row' : Known(r)'
  BY <1>2 DEF AInv, Lived, envVars
<1> QED BY <1>4, <1>5 DEF AInv

\* Every step keeps the invariant.
LEMMA AStep == AInv /\ [Next]_vars => AInv'
<1> SUFFICES ASSUME AInv, [Next]_vars PROVE AInv'
  OBVIOUS
<1>0. /\ TInv /\ Lived /\ TInv'
      /\ \A r \in row : RowOK(r) /\ Known(r)
      /\ \A c \in Calls : PlaceOK(call[c]) /\ Knows(call[c])
  BY TStep DEF AInv, TInv, RowsOK, CallsOK
<1>1. CASE Server
  <2>1. Lived' /\ \A r : RowOK(r) /\ Known(r) => Known(r)'
    BY <1>0, <1>1, ServerKeeps
  <2>2. UNCHANGED <<row, call>>
    BY <1>1 DEF Server, Tick, MarketEvent, ScalperRestart, Heartbeat
  <2>3. \A r \in row' : Known(r)'
    BY <1>0, <2>1, <2>2
  <2>4. ASSUME NEW c \in Calls PROVE Knows(call[c])'
    <3> DEFINE p == call[c]
    <3>1. PlaceOK(p) /\ Knows(p) /\ call'[c] = p
      BY <1>0, <2>2
    <3>2. p.pc \in {"readState", "readHeartbeat"} => p.t = now'
      <4>1. now' = now \/ p.pc = "idle"
        BY <1>1 DEF Server, Tick, MarketEvent, ScalperRestart, Heartbeat
      <4> QED BY <3>1, <4>1 DEF Knows
    <3>3. p.pc = "readHeartbeat" => \A r \in p.previous : Known(r)'
      BY <2>1, <3>1 DEF Knows, PlaceOK, RowsOK
    <3>4. p.pc \in {"notify", "write"} => Known(p.verdict)'
      BY <2>1, <3>1 DEF Knows, PlaceOK
    <3> HIDE DEF p
    <3> QED BY <3>1, <3>2, <3>3, <3>4 DEF Knows, p
  <2> QED BY <1>0, <2>1, <2>3, <2>4 DEF AInv
<1>2. ASSUME NEW c \in Calls, Begin(c) PROVE AInv'
  <2>1. Knows([pc |-> "readState", t |-> now])
    BY DEF Knows
  <2> QED BY <1>0, <1>2, <2>1, KnowingCallMoves DEF Begin
<1>3. ASSUME NEW c \in Calls, ReadState(c) PROVE AInv'
  <2>1. Knows([pc |-> "readHeartbeat", t |-> call[c].t, previous |-> row])
    BY <1>0, <1>3 DEF Knows, ReadState
  <2> QED BY <1>0, <1>3, <2>1, KnowingCallMoves DEF ReadState
<1>4. ASSUME NEW c \in Calls, ReadHeartbeat(c) PROVE AInv'
  <2> DEFINE v == Verdict(heartbeat, call[c].previous, call[c].t)
             next == [pc |-> IF Differs(call[c].previous, v) THEN "notify" ELSE "write",
                      verdict |-> v, told |-> FALSE]
  <2>1. /\ RowsOK(call[c].previous) /\ call[c].t = now
        /\ \A r \in call[c].previous : Known(r)
    BY <1>0, <1>4 DEF PlaceOK, Knows, ReadHeartbeat
  <2>2. Known(v)
    BY <1>0, <2>1, VerdictKnown
  <2>3. Goto(c, next) /\ UNCHANGED <<envVars, row>>
    BY <1>4 DEF ReadHeartbeat
  <2> HIDE DEF v
  <2>4. Knows(next)
    BY <2>2 DEF Knows
  <2> HIDE DEF next
  <2> QED BY <1>0, <2>3, <2>4, KnowingCallMoves
<1>5. ASSUME NEW c \in Calls, Notify(c) PROVE AInv'
  <2>1. Knows([pc |-> "write", verdict |-> call[c].verdict, told |-> TRUE])
    BY <1>0, <1>5 DEF Knows, Notify
  <2> QED BY <1>0, <1>5, <2>1, KnowingCallMoves DEF Notify
<1>6. Knows(Idle)
  BY DEF Knows, Idle
<1>7. ASSUME NEW c \in Calls, NotifyUnconfirmed(c) PROVE AInv'
  BY <1>0, <1>6, <1>7, KnowingCallMoves DEF NotifyUnconfirmed
<1>8. ASSUME NEW c \in Calls, Write(c) PROVE AInv'
  <2>1. Known(call[c].verdict)
    BY <1>0, <1>8 DEF Knows, Write
  <2> QED BY <1>0, <1>6, <1>8, <2>1, KnowingCallMoves DEF Write
<1>9. ASSUME NEW c \in Calls, Fail(c) PROVE AInv'
  BY <1>0, <1>6, <1>9, KnowingCallMoves DEF Fail
<1>10. CASE UNCHANGED vars
  BY <1>0, <1>10 DEF vars, envVars, AInv, Lived, Known, Knows
<1> QED
  BY <1>1, <1>2, <1>3, <1>4, <1>5, <1>7, <1>8, <1>9, <1>10 DEF Next, Function

\* Only by reading the heartbeat does a call come to a message.
LEMMA AlarmIsDecided ==
  ASSUME TInv, [Next]_vars, NEW c \in Calls,
         call[c].pc = "readHeartbeat", call'[c].pc = "notify"
  PROVE  /\ ReadHeartbeat(c)
         /\ call'[c].verdict = Verdict(heartbeat, call[c].previous, call[c].t)
<1>0. DOMAIN call = Calls
  BY DEF TInv, CallsOK
<1>1. call' # call
  OBVIOUS
<1>2. PICK d \in Calls : Function(d)
  BY <1>1 DEF Next, Server, Tick, MarketEvent, ScalperRestart, Heartbeat, vars
<1>3. \E next : Goto(d, next)
  BY <1>2 DEF Function, Begin, ReadState, ReadHeartbeat, Notify, NotifyUnconfirmed, Write, Fail
<1>4. d = c
  BY <1>0, <1>3 DEF Goto
<1>5. ReadHeartbeat(c) \/ Fail(c)
  BY <1>2, <1>4 DEF Function, Begin, ReadState, Notify, NotifyUnconfirmed, Write
<1>6. ~Fail(c)
  BY <1>0 DEF Fail, Goto, Idle
<1>7. ReadHeartbeat(c)
  BY <1>5, <1>6
<1> DEFINE v == Verdict(heartbeat, call[c].previous, call[c].t)
<1>8. Goto(c, [pc |-> IF Differs(call[c].previous, v) THEN "notify" ELSE "write",
               verdict |-> v, told |-> FALSE])
  BY <1>7 DEF ReadHeartbeat
<1> HIDE DEF v
<1>9. call'[c].verdict = v
  BY <1>0, <1>8 DEF Goto
<1> QED BY <1>7, <1>9 DEF v

\* A single reason has a single name.
LEMMA NamesOf ==
  ASSUME NEW n, NEW m
  PROVE  m \in Names(Reasons({n})) <=> m = n
<1> DEFINE r == [name |-> n, value |-> 0]
<1>1. Reasons({n}) = {r}
  BY DEF Reasons
<1>2. r.name = n
  OBVIOUS
<1> HIDE DEF r
<1>3. \A q : m \in Names({q}) <=> m = q.name
  BY Zenon DEF Names
<1>4. m \in Names({r}) <=> m = r.name
  BY <1>3
<1> QED BY <1>1, <1>2, <1>4, Zenon

\* A verdict that names no events, when /health answered, comes from a heartbeat
\* that the event counter did not advance in.
LEMMA AlarmIsQuiet ==
  ASSUME TInv, HealthAnswered, NEW previous, NEW t,
         "no_events" \in Names(Verdict(heartbeat, previous, t).key)
  PROVE  \E b \in heartbeat :
           /\ b.http /\ Quiet(b, previous, t)
           /\ Verdict(heartbeat, previous, t).advancedAt = {AdvancedBefore(previous, t)}
<1> DEFINE v == Verdict(heartbeat, previous, t)
           b == CHOOSE x \in heartbeat : TRUE
           reasons == ReasonsOf(b, previous, t)
<1> SUFFICES \E h \in heartbeat : /\ h.http /\ Quiet(h, previous, t)
                                  /\ v.advancedAt = {AdvancedBefore(previous, t)}
  OBVIOUS
<1>1. \A n, m : m \in Names(Reasons({n})) <=> m = n
  BY NamesOf
<1>2. CASE heartbeat = {} \/ t - b.at > StaleAfter
  <2>1. v.key = Reasons({"heartbeat_missing"}) \/ v.key = Reasons({"heartbeat_stale"})
    BY <1>2 DEF Verdict
  <2>2. "no_events" \in Names(v.key)
    OBVIOUS
  <2> HIDE DEF v
  <2>3. PICK n \in {"heartbeat_missing", "heartbeat_stale"} : v.key = Reasons({n})
    BY <2>1
  <2>4. "no_events" = n
    BY <1>1, <2>2, <2>3, Zenon
  <2> QED BY <2>4
<1>3. CASE heartbeat # {} /\ ~(t - b.at > StaleAfter)
  <2>1. /\ v.key = IF reasons = {} THEN Reasons({"healthy"}) ELSE reasons
        /\ v.advancedAt = {IF Advances(b, previous) THEN t ELSE AdvancedBefore(previous, t)}
    BY <1>3 DEF Verdict
  <2>2. b \in heartbeat /\ b.faults \subseteq Faults /\ b.http \in BOOLEAN
    BY <1>3 DEF TInv, HeartbeatOK
  <2>3. "no_events" \in Names(v.key)
    OBVIOUS
  <2> HIDE DEF b, v
  <2>4. v.key = reasons
    <3> HIDE DEF reasons
    <3>1. "no_events" \in Names(Reasons({"healthy"})) <=> "no_events" = "healthy"
      BY <1>1, Zenon
    <3>2. "no_events" # "healthy"
      OBVIOUS
    <3> QED BY <2>1, <2>3, <3>1, <3>2
  <2>5. "no_events" \in Names(reasons)
    BY <2>3, <2>4
  <2>6. b.http
    BY <2>2 DEF HealthAnswered
  <2>7. Quiet(b, previous, t)
    <3>1. PICK r \in reasons : r.name = "no_events"
      BY <2>5 DEF Names
    <3>2. \A n : \A q \in Reasons(n) : q.name \in n
      BY DEF Reasons
    <3>3. "no_events" \notin b.faults
      BY <2>2, MonitorAssumption DEF OwnNames
    <3>4. r \notin Reasons(b.faults) /\ r \notin Reasons({"http"})
      BY <3>1, <3>2, <3>3
    <3>5. r # [name |-> "ram", value |-> b.memory]
      BY <3>1
    <3> QED BY <3>1, <3>4, <3>5 DEF ReasonsOf
  <2>8. ~Advances(b, previous)
    BY <2>7 DEF Quiet
  <2> QED BY <2>1, <2>2, <2>6, <2>7, <2>8 DEF v
<1> QED BY <1>2, <1>3

\* As long as the scalper has not restarted, the alarm that no market events
\* arrive, raised from a heartbeat for which /health answered, is true: that
\* heartbeat knows of none after the time that the alarm gives, however the
\* calls overlap, fail and repeat.  (evaluate)
THEOREM NoEventsAlarmsAreTrue == Spec => NoEventsAlarmIsTrue
<1> DEFINE TrueAlarms ==
      \A c \in Calls : restarts = 0 /\ HealthAnswered /\ Alarmed(c) => TrueAlarm(c)
<1>1. Init => AInv
  <2>1. ASSUME Init PROVE Lived /\ \A r \in row : Known(r)
    BY <2>1 DEF Init, Lived
  <2>2. ASSUME Init, NEW c \in Calls PROVE Knows(call[c])
    BY <2>2 DEF Init, Knows, Idle
  <2> QED BY <2>1, <2>2, TInit DEF AInv
<1>2. ASSUME AInv, [Next]_vars, NEW c \in Calls, restarts = 0, HealthAnswered, Alarmed(c)
      PROVE  TrueAlarm(c)
  <2> DEFINE previous == call[c].previous
             v == Verdict(heartbeat, previous, call[c].t)
  <2>1. call[c].pc = "readHeartbeat" /\ call'[c].pc = "notify"
    BY <1>2 DEF Alarmed
  <2>2. call'[c].verdict = v
    BY <1>2, <2>1, AlarmIsDecided DEF AInv
  <2>3. /\ RowsOK(previous) /\ call[c].t = now /\ now \in Nat
        /\ \A r \in previous : Known(r)
    BY <1>2, <2>1 DEF AInv, TInv, ServerOK, CallsOK, PlaceOK, Knows
  <2>4. "no_events" \in Names(v.key)
    BY <1>2, <2>2 DEF Alarmed
  <2>5. PICK b \in heartbeat : /\ b.http /\ Quiet(b, previous, now)
                               /\ v.advancedAt = {AdvancedBefore(previous, now)}
    BY <1>2, <2>3, <2>4, AlarmIsQuiet DEF AInv
  <2> HIDE DEF v, previous
  <2>6. \A h \in heartbeat : h = b
    BY <1>2 DEF AInv, TInv, HeartbeatOK, AtMostOne
  <2> DEFINE before == AdvancedBefore(previous, now)
             seen == SeenBefore(previous)
  <2>7. before \in Nat /\ seen \in Nat /\ b.events \in Nat
    BY <1>2, <2>3, KeptOK DEF AInv, TInv, HeartbeatOK
  <2>8. b.events <= seen /\ now - before > NoEventsAfter
    BY <2>5, <2>7 DEF Quiet, Advances
  <2>9. before # now
    BY <2>3, <2>7, <2>8, MonitorAssumption
  <2>10. PICK r \in previous : seen = r.seen /\ before \in r.advancedAt
    BY <2>3, <2>9, Taken
  <2> HIDE DEF before, seen
  <2>11. b.lastEvent <= before
    BY <1>2, <2>3, <2>5, <2>8, <2>10 DEF Known
  <2> QED BY <2>2, <2>5, <2>6, <2>11 DEF TrueAlarm, before
<1>3. AInv /\ [Next]_vars => [TrueAlarms]_vars
  BY <1>2
<1> QED BY <1>1, <1>3, AStep, PTL DEF Spec, NoEventsAlarmIsTrue
=============================================================================
