-------------------------- MODULE PipelineProofs --------------------------
(***************************************************************************)
(* Proofs about the process, for every set of sources and engines, every   *)
(* channel capacity and every number of events: only Ctrl-C ends it, no    *)
(* channel outgrows its capacity, and a receiver that runs has been sent   *)
(* each event of its kinds, once and in order.                             *)
(***************************************************************************)
EXTENDS Pipeline, Lemmas

-----------------------------------------------------------------------------
\* Which tasks run is known of every receiver.
AliveType == alive \in [Consumers -> BOOLEAN]

(***************************************************************************)
(* The property is not inductive: a receiver also stops when its channel   *)
(* is closed, and the fan-out returns, closing it, when the supervisor is  *)
(* gone.  Neither can be the first to go, and the store, which can, closes *)
(* no channel.                                                             *)
(***************************************************************************)
NobodyLeaves == fan.pc = "returned" => cancelled

IInv == AliveType /\ NobodyLeaves /\ OnlyShutdownEnds

\* An engine is neither the supervisor nor one of the two other receivers.
LEMMA EnginesAreOthers ==
  /\ "supervisor" \in Consumers /\ "orderbook" \in Consumers /\ "storage" \in Consumers
  /\ \A c \in Engines : c \in Consumers /\ c # "storage"
BY PipelineAssumption DEF Consumers, AllEngines

\* A receiver that returns leaves all others as they are.
LEMMA ReturnLeavesOthers ==
  ASSUME AliveType, NEW c \in Consumers, Return(c)
  PROVE  AliveType' /\ (\A d \in Consumers : d # c => alive'[d] = alive[d])
BY DEF AliveType, Return

\* The store returns, which it may do at any time.
LEMMA StoreLeaves ==
  ASSUME IInv, Return("storage"), UNCHANGED <<fan, state, cancelled, exited>>
  PROVE  IInv'
BY EnginesAreOthers, ReturnLeavesOthers DEF IInv, NobodyLeaves, OnlyShutdownEnds

\* Another receiver returns, which it does only after Ctrl-C.
LEMMA OtherReturns ==
  ASSUME IInv, NEW c \in Consumers, Return(c), cancelled \/ fan.pc = "returned",
         cancelled' = cancelled
  PROVE  IInv'
<1>1. cancelled /\ cancelled'
  BY DEF IInv, NobodyLeaves
<1>2. AliveType'
  BY ReturnLeavesOthers DEF IInv
<1> QED BY <1>1, <1>2 DEF IInv, NobodyLeaves, OnlyShutdownEnds

\* A step after which everything the invariant speaks of is as it was.
LEMMA NothingEnds ==
  ASSUME IInv, alive' = alive, fan'.pc = "returned" => fan.pc = "returned",
         state' = state \/ state' \notin {"DEGRADED", "SHUTDOWN"},
         exited' = exited, cancelled' = cancelled \/ cancelled' = TRUE
  PROVE  IInv'
BY DEF IInv, AliveType, NobodyLeaves, OnlyShutdownEnds

\* Every step keeps the invariant.
LEMMA Step == IInv /\ [Next]_vars => IInv'
<1> SUFFICES ASSUME IInv, [Next]_vars PROVE IInv'
  OBVIOUS
<1>1. ASSUME NEW s \in Sources, NEW k \in Kinds, Produce(s, k) PROVE IInv'
  BY <1>1, NothingEnds DEF Produce, supervisorVars
<1>2. CASE CtrlC
  BY <1>2, NothingEnds DEF CtrlC, supervisorVars
<1>3. CASE FanTake
  BY <1>3, NothingEnds DEF FanTake, supervisorVars
<1>4. CASE FanSend
  <2>1. CASE First(fan.todo) = "supervisor" /\ ~alive["supervisor"]
    <3>1. cancelled' /\ alive' = alive
      BY <1>4, <2>1, EnginesAreOthers DEF FanSend, IInv, OnlyShutdownEnds
    <3> QED BY <3>1 DEF IInv, AliveType, NobodyLeaves, OnlyShutdownEnds
  <2>2. CASE ~(First(fan.todo) = "supervisor" /\ ~alive["supervisor"])
    <3>1. fan'.pc # "returned"
      BY <1>4, <2>2 DEF FanSend, ServeNext
    <3> QED BY <1>4, <3>1, NothingEnds DEF FanSend, supervisorVars
  <2> QED BY <2>1, <2>2
<1>5. CASE FanStop
  BY <1>5 DEF FanStop, IInv, AliveType, NobodyLeaves, OnlyShutdownEnds
<1>6. ASSUME NEW c \in Engines, EngineTake(c) PROVE IInv'
  BY <1>6, NothingEnds DEF EngineTake, supervisorVars
<1>7. ASSUME NEW c \in Engines, EngineStop(c) PROVE IInv'
  BY <1>7, OtherReturns, EnginesAreOthers DEF EngineStop, Closed
<1>8. CASE BookTake
  BY <1>8, NothingEnds DEF BookTake, supervisorVars
<1>9. CASE BookFetched
  BY <1>9, NothingEnds DEF BookFetched, supervisorVars
<1>10. CASE BookRecord
  BY <1>10, NothingEnds DEF BookRecord, supervisorVars
<1>11. CASE BookStop
  BY <1>11, OtherReturns, EnginesAreOthers DEF BookStop, EngineStop, Closed
<1>12. CASE StoreTake
  BY <1>12, NothingEnds DEF StoreTake, supervisorVars
<1>13. CASE StoreTick
  BY <1>13, NothingEnds DEF StoreTick, supervisorVars
<1>14. CASE StoreStart \/ StoreOpened \/ StoreStop
  BY <1>14, NothingEnds, StoreLeaves
  DEF StoreStart, StoreOpened, StoreStop, StoreReturns, supervisorVars
<1>21. CASE StoreWritten
  BY <1>21, NothingEnds DEF StoreWritten, supervisorVars
<1>22. CASE StoreClosed
  BY <1>22, StoreLeaves DEF StoreClosed, StoreReturns, supervisorVars
<1>15. CASE SupervisorStart
  BY <1>15, NothingEnds DEF SupervisorStart
<1>16. CASE SupervisorTake
  BY <1>16, NothingEnds DEF SupervisorTake
<1>17. CASE SupervisorTick
  BY <1>17, NothingEnds DEF SupervisorTick
<1>18. CASE SupervisorStop
  BY <1>18, OtherReturns, EnginesAreOthers DEF SupervisorStop, Closed
<1>19. CASE Exit
  BY <1>19, EnginesAreOthers DEF Exit, IInv, AliveType, NobodyLeaves, OnlyShutdownEnds
<1>20. CASE UNCHANGED vars
  BY <1>20, NothingEnds DEF vars, supervisorVars
<1> QED
  BY <1>1, <1>2, <1>3, <1>4, <1>5, <1>6, <1>7, <1>8, <1>9, <1>10, <1>11, <1>12, <1>13,
     <1>14, <1>15, <1>16, <1>17, <1>18, <1>19, <1>20, <1>21, <1>22
  DEF Next, Fanout, OrderBook, Store, Disk, Supervisor

\* Only after Ctrl-C does any task but the store's return, does the process end
\* or show itself degraded, whenever the store has left its channel.
\* (Supervisor::run, spawn_market_fanout, spawn_parquet_storage)
THEOREM OnlyCtrlCEnds == Spec => []OnlyShutdownEnds
<1>1. Init => IInv
  BY EnginesAreOthers DEF Init, IInv, AliveType, NobodyLeaves, OnlyShutdownEnds
<1>2. IInv => OnlyShutdownEnds
  BY DEF IInv
<1> QED BY <1>1, <1>2, Step, PTL DEF Spec

-----------------------------------------------------------------------------
(***************************************************************************)
(* Types.                                                                  *)
(***************************************************************************)
\* The channels, as TypeOK has them
ChannelsOK ==
  /\ chan \in [Consumers -> Seq(Event)]
  /\ \A c \in Consumers : Len(chan[c]) <= Capacity
  /\ handled \in [Consumers -> Seq(Event)]

\* The receiver served first is one of those to be served.
LEMMA FirstIsOne ==
  ASSUME NEW todo \in SUBSET Consumers, todo # {}
  PROVE  First(todo) \in todo
<1> DEFINE T == {FanoutPlace[c] : c \in todo}
<1>1. \A c \in todo : FanoutPlace[c] \in Nat
  <2> DEFINE All == {"supervisor", "orderflow", "profile", "gex", "hidden", "heatmap",
                     "orderbook", "storage"}
  <2>1. Consumers \subseteq All
    BY PipelineAssumption DEF Consumers, AllEngines
  <2>2. \A c \in All : FanoutPlace[c] \in Nat
    BY DEF FanoutPlace
  <2> HIDE DEF All
  <2> QED BY <2>1, <2>2
<1>2. T \subseteq Nat /\ T # {}
  BY <1>1
<1>3. PICK x \in T : \A y \in T : x <= y
  <2> HIDE DEF T
  <2> QED BY <1>2, LeastElement
<1>4. PICK c \in todo : x = FanoutPlace[c]
  BY <1>3
<1>5. \A d \in todo : FanoutPlace[c] <= FanoutPlace[d]
  BY <1>3, <1>4
<1> QED BY <1>5 DEF First

\* A receiver that takes an event keeps the types of the channels.
LEMMA TakeType ==
  ASSUME ChannelsOK, NEW c \in Consumers, Take(c)
  PROVE  ChannelsOK' /\ Head(chan[c]) \in Event
<1>1. chan[c] \in Seq(Event) /\ chan[c] # <<>>
  BY DEF ChannelsOK, Take
<1>2. /\ Head(chan[c]) \in Event /\ Tail(chan[c]) \in Seq(Event)
      /\ Len(Tail(chan[c])) <= Len(chan[c])
      /\ Append(handled[c], Head(chan[c])) \in Seq(Event)
  BY <1>1 DEF ChannelsOK
<1>3. Capacity \in Nat /\ Len(Tail(chan[c])) \in Nat /\ Len(chan[c]) \in Nat
  BY <1>1, <1>2, PipelineAssumption
<1> QED BY <1>2, <1>3 DEF ChannelsOK, Take

\* A channel with room keeps its type when an event is appended.
LEMMA AppendType ==
  ASSUME ChannelsOK, NEW c \in Consumers, NEW e \in Event, Len(chan[c]) < Capacity,
         chan' = [chan EXCEPT ![c] = Append(@, e)], handled' = handled
  PROVE  ChannelsOK'
<1>1. chan[c] \in Seq(Event) /\ Capacity \in Nat
  BY PipelineAssumption DEF ChannelsOK
<1>2. Append(chan[c], e) \in Seq(Event) /\ Len(Append(chan[c], e)) <= Capacity
  BY <1>1
<1> QED BY <1>2 DEF ChannelsOK

\* The empty sequence is a queue within every capacity.
LEMMA EmptyQueue == <<>> \in Seq(Event) /\ Len(<<>>) <= Capacity
BY PipelineAssumption

\* A receiver that returns keeps the types of the channels.
LEMMA ReturnType ==
  ASSUME ChannelsOK, AliveType, NEW c \in Consumers, Return(c), handled' = handled
  PROVE  ChannelsOK' /\ AliveType'
<1>1. AliveType'
  BY ReturnLeavesOthers
<1>2. chan' = [chan EXCEPT ![c] = <<>>]
  BY DEF Return
<1> QED BY <1>1, <1>2, EmptyQueue DEF ChannelsOK

\* Every step keeps the types.
LEMMA TypeStep == TypeOK /\ [Next]_vars => TypeOK'
<1> SUFFICES ASSUME TypeOK, [Next]_vars PROVE TypeOK'
  OBVIOUS
<1> USE DEF supervisorVars, storeVars
<1>0. ChannelsOK /\ AliveType
  BY DEF TypeOK, ChannelsOK, AliveType
<1>1. ASSUME NEW s \in Sources, NEW k \in Kinds, Produce(s, k) PROVE TypeOK'
  <2>1. produced' \in [Sources -> Nat]
    BY <1>1 DEF Produce, TypeOK
  <2>2. [src |-> s, n |-> produced[s] + 1, kind |-> k] \in Event
    BY DEF TypeOK, Event
  <2>3. raw' \in Seq(Event) /\ Len(raw') <= Capacity
    BY <1>1, <2>2, PipelineAssumption DEF Produce, TypeOK
  <2> QED BY <1>1, <2>1, <2>3 DEF Produce, TypeOK
<1>2. CASE CtrlC
  BY <1>2 DEF CtrlC, TypeOK
<1>3. CASE FanTake
  <2>1. Head(raw) \in Event /\ Tail(raw) \in Seq(Event) /\ Len(Tail(raw)) <= Capacity
    BY <1>3, PipelineAssumption DEF FanTake, TypeOK
  <2>2. Append(routed, Head(raw)) \in Seq(Event)
    BY <2>1 DEF TypeOK
  <2>3. Route(Head(raw).kind) \in SUBSET Consumers /\ Route(Head(raw).kind) # {}
    BY EnginesAreOthers DEF Route, Wants
  <2>4. /\ fan' \in [pc : {"idle", "sending", "returned"}, todo : SUBSET Consumers]
        /\ fan'.pc = "sending" /\ fan'.todo # {}
    BY <1>3, <2>3 DEF FanTake
  <2> QED BY <1>3, <2>1, <2>2, <2>4 DEF FanTake, TypeOK
<1>4. CASE FanSend
  <2> DEFINE c == First(fan.todo)
  <2>1. c \in fan.todo /\ c \in Consumers
    <3>1. fan.todo \in SUBSET Consumers /\ fan.todo # {}
      BY <1>4 DEF FanSend, TypeOK
    <3> QED BY <3>1, FirstIsOne
  <2> HIDE DEF c
  <2>2. ServeNext(c) /\ handled' = handled
    BY <1>4 DEF FanSend, c
  <2>3. ChannelsOK'
    <3>1. CASE alive[c]
      BY <1>0, <2>1, <2>2, <3>1, AppendType DEF ServeNext, TypeOK
    <3>2. CASE ~alive[c]
      BY <1>0, <2>2, <3>2 DEF ServeNext, ChannelsOK
    <3> QED BY <3>1, <3>2
  <2>4. /\ fan' \in [pc : {"idle", "sending", "returned"}, todo : SUBSET Consumers]
        /\ fan'.pc = "sending" <=> fan'.todo # {}
    BY <2>1, <2>2 DEF ServeNext, TypeOK
  <2> QED BY <1>4, <2>3, <2>4 DEF FanSend, TypeOK, ChannelsOK
<1>5. CASE FanStop
  BY <1>5 DEF FanStop, TypeOK
<1>6. ASSUME NEW c \in Engines, EngineTake(c) PROVE TypeOK'
  <2>1. ChannelsOK'
    BY <1>0, <1>6, TakeType, EnginesAreOthers DEF EngineTake
  <2> QED BY <1>6, <2>1 DEF EngineTake, TypeOK, ChannelsOK
<1>7. ASSUME NEW c \in Engines, EngineStop(c) PROVE TypeOK'
  <2>1. ChannelsOK' /\ AliveType'
    BY <1>0, <1>7, ReturnType, EnginesAreOthers DEF EngineStop
  <2> QED BY <1>7, <2>1 DEF EngineStop, TypeOK, ChannelsOK, AliveType
<1>8. CASE BookTake
  <2>1. ChannelsOK'
    BY <1>0, <1>8, TakeType, EnginesAreOthers DEF BookTake
  <2>2. ob' \in {"idle", "fetching", "recording"} /\ fetches' \in Nat
    BY <1>8 DEF BookTake, TypeOK
  <2> QED BY <1>8, <2>1, <2>2 DEF BookTake, TypeOK, ChannelsOK
<1>9. CASE BookFetched
  BY <1>9 DEF BookFetched, TypeOK
<1>10. CASE BookRecord
  <2> DEFINE e == [src |-> Book, n |-> fetches, kind |-> "snapshot"]
  <2>1. e \in Event
    BY DEF TypeOK, Event, Kinds
  <2> HIDE DEF e
  <2>2. ChannelsOK'
    <3>1. CASE alive["storage"]
      BY <1>0, <1>10, <2>1, <3>1, AppendType, EnginesAreOthers DEF BookRecord, e
    <3>2. CASE ~alive["storage"]
      BY <1>0, <1>10, <3>2 DEF BookRecord, ChannelsOK
    <3> QED BY <3>1, <3>2
  <2> QED BY <1>10, <2>2 DEF BookRecord, TypeOK, ChannelsOK
<1>11. CASE BookStop
  <2>1. ChannelsOK' /\ AliveType'
    BY <1>0, <1>11, ReturnType, EnginesAreOthers DEF BookStop, EngineStop
  <2> QED BY <1>11, <2>1 DEF BookStop, EngineStop, TypeOK, ChannelsOK, AliveType
<1>12. CASE StoreTake
  <2>1. ChannelsOK' /\ Head(chan["storage"]) \in Event
    BY <1>0, <1>12, TakeType, EnginesAreOthers DEF StoreTake
  <2>2. store' \in StorePlaces /\ buffered' \in BOOLEAN
    BY <1>12, Zenon DEF StoreTake, StorePlaces
  <2> QED BY <1>12, <2>1, <2>2 DEF StoreTake, TypeOK, ChannelsOK
<1>13. CASE StoreTick
  BY <1>13 DEF StoreTick, StorePlaces, TypeOK
<1>14. CASE StoreStart \/ StoreOpened \/ StoreStop \/ StoreClosed
  <2>1. UNCHANGED <<produced, raw, fan, current, ob, fetches, supervisorVars,
                    cancelled, exited, routed, handled>>
    BY <1>14 DEF StoreStart, StoreOpened, StoreStop, StoreClosed
  <2>2. store' \in StorePlaces /\ buffered' \in BOOLEAN
    <3>1. buffered \in BOOLEAN
      BY DEF TypeOK
    <3> QED BY <1>14, <3>1, Zenon
         DEF StoreStart, StoreOpened, StoreStop, StoreClosed, StoreReturns, StorePlaces
  <2>3. UNCHANGED <<chan, alive>> \/ Return("storage")
    BY <1>14 DEF StoreStart, StoreOpened, StoreStop, StoreClosed, StoreReturns
  <2>4. ChannelsOK' /\ AliveType'
    <3>1. CASE UNCHANGED <<chan, alive>>
      BY <1>0, <2>1, <3>1 DEF ChannelsOK, AliveType
    <3>2. CASE Return("storage")
      BY <1>0, <2>1, <3>2, ReturnType, EnginesAreOthers
    <3> QED BY <2>3, <3>1, <3>2
  <2> QED BY <2>1, <2>2, <2>4 DEF TypeOK, ChannelsOK, AliveType
<1>21. CASE StoreWritten
  <2>1. store' \in StorePlaces /\ buffered' \in BOOLEAN
    BY <1>21, Zenon DEF StoreWritten, StorePlaces
  <2> QED BY <1>21, <2>1 DEF StoreWritten, TypeOK
<1>15. CASE SupervisorStart
  BY <1>15 DEF SupervisorStart, TypeOK, States
<1>16. CASE SupervisorTake
  <2>1. ChannelsOK'
    BY <1>0, <1>16, TakeType, EnginesAreOthers DEF SupervisorTake
  <2> QED BY <1>16, <2>1 DEF SupervisorTake, TypeOK, ChannelsOK
<1>17. CASE SupervisorTick
  BY <1>17 DEF SupervisorTick, TypeOK, States
<1>18. CASE SupervisorStop
  <2>1. ChannelsOK' /\ AliveType'
    BY <1>0, <1>18, ReturnType, EnginesAreOthers DEF SupervisorStop
  <2>2. state' \in States
    BY <1>18 DEF SupervisorStop, States
  <2> QED BY <1>18, <2>1, <2>2 DEF SupervisorStop, TypeOK, ChannelsOK, AliveType
<1>19. CASE Exit
  BY <1>19 DEF Exit, TypeOK
<1>20. CASE UNCHANGED vars
  BY <1>20 DEF vars, TypeOK
<1> QED
  BY <1>1, <1>2, <1>3, <1>4, <1>5, <1>6, <1>7, <1>8, <1>9, <1>10, <1>11, <1>12, <1>13,
     <1>14, <1>15, <1>16, <1>17, <1>18, <1>19, <1>20, <1>21
  DEF Next, Fanout, OrderBook, Store, Disk, Supervisor

\* The first state has the types.
LEMMA InitType == Init => TypeOK
<1>1. NoEvent \in Event
  BY DEF NoEvent, Event, Kinds
<1>2. Init => ChannelsOK /\ AliveType
  BY EmptyQueue DEF Init, ChannelsOK, AliveType
<1>3. Init => raw \in Seq(Event) /\ routed \in Seq(Event) /\ Len(raw) <= Capacity
  BY EmptyQueue DEF Init
<1>4. Init => fan \in [pc : {"idle", "sending", "returned"}, todo : SUBSET Consumers]
               /\ fan.pc # "sending" /\ fan.todo = {}
  BY DEF Init
<1>5. Init => produced \in [Sources -> Nat] /\ current \in Event
  BY <1>1 DEF Init
<1>6. Init => /\ ob \in {"idle", "fetching", "recording"}
              /\ fetches \in Nat /\ state \in States /\ store \in StorePlaces
  BY DEF Init, States, StorePlaces
<1>7. Init => /\ sawEvent \in BOOLEAN /\ cancelled \in BOOLEAN /\ exited \in BOOLEAN
              /\ buffered \in BOOLEAN
  BY Zenon DEF Init
<1> QED BY <1>2, <1>3, <1>4, <1>5, <1>6, <1>7, Zenon DEF TypeOK, ChannelsOK, AliveType

\* Every variable has its type, no channel is ever over its capacity, and the
\* fan-out sends exactly while a receiver is still to be served.
\* (spawn_market_fanout, main)
THEOREM ChannelsAreBounded == Spec => []TypeOK
BY InitType, TypeStep, PTL DEF Spec

-----------------------------------------------------------------------------
(***************************************************************************)
(* What each receiver gets.                                                *)
(***************************************************************************)
\* The property, of one receiver
Gets(c) ==
  alive[c] /\ fan.pc # "returned" => Only(handled[c] \o chan[c], FromSources) = Due(c)

\* The property is not inductive: it leans on the event in the fan-out's hands
\* being the last that it took, on its being of a kind that all receivers still
\* to be served want, and on the snapshots never passing through the raw channel.
PassedOn ==
  /\ raw \in Seq(FromSources) /\ routed \in Seq(FromSources)
  /\ fan.pc = "sending" =>
       /\ routed # <<>> /\ current = routed[Len(routed)]
       /\ \A c \in fan.todo : Wants(c, current.kind)

DInv == TypeOK /\ PassedOn /\ EachReceiverGetsItsEvents

\* The property is that of every receiver.
LEMMA AllGet == EachReceiverGetsItsEvents <=> \A c \in Consumers : Gets(c)
BY DEF EachReceiverGetsItsEvents, Gets

\* What a receiver takes leaves its channel: together they stay the same.
LEMMA TakeMoves ==
  ASSUME ChannelsOK, NEW c \in Consumers, Take(c)
  PROVE  \A d \in Consumers : handled'[d] \o chan'[d] = handled[d] \o chan[d]
<1>1. chan[c] \in Seq(Event) /\ chan[c] # <<>> /\ handled[c] \in Seq(Event)
  BY DEF ChannelsOK, Take
<1>2. Append(handled[c], Head(chan[c])) \o Tail(chan[c]) = handled[c] \o chan[c]
  <2>1. \A h, q \in Seq(Event) : q # <<>> => Append(h, Head(q)) \o Tail(q) = h \o q
    OBVIOUS
  <2> QED BY <1>1, <2>1
<1>3. handled'[c] = Append(handled[c], Head(chan[c])) /\ chan'[c] = Tail(chan[c])
  BY DEF ChannelsOK, Take
<1>4. \A d \in Consumers : d # c => handled'[d] = handled[d] /\ chan'[d] = chan[d]
  BY DEF ChannelsOK, Take
<1> QED BY <1>2, <1>3, <1>4, Zenon

\* A receiver that returns is owed nothing; the others keep what they have.
LEMMA ReturnMoves ==
  ASSUME ChannelsOK, AliveType, NEW c \in Consumers, Return(c), handled' = handled
  PROVE  \A d \in Consumers :
           alive'[d] => alive[d] /\ handled'[d] \o chan'[d] = handled[d] \o chan[d]
<1>1. ~alive'[c]
  BY DEF AliveType, Return
<1>2. \A d \in Consumers : d # c => alive'[d] = alive[d] /\ chan'[d] = chan[d]
  BY DEF AliveType, ChannelsOK, Return
<1> QED BY <1>1, <1>2, Zenon

\* A step in which the fan-out does nothing and the receivers that stay lose
\* and win nothing
LEMMA NothingServed ==
  ASSUME EachReceiverGetsItsEvents, fan' = fan, routed' = routed,
         \A d \in Consumers :
           alive'[d] => alive[d] /\ handled'[d] \o chan'[d] = handled[d] \o chan[d]
  PROVE  EachReceiverGetsItsEvents'
<1> SUFFICES ASSUME NEW d \in Consumers PROVE Gets(d)'
  BY AllGet DEF EachReceiverGetsItsEvents, Gets
<1>1. Due(d)' = Due(d)
  BY DEF Due
<1>2. Gets(d)
  BY AllGet
<1> QED BY <1>1, <1>2, Zenon DEF Gets

\* A step that leaves the fan-out, the raw channel and the record of what it
\* took alone
LEMMA NothingPassed ==
  ASSUME PassedOn, UNCHANGED <<raw, fan, current, routed>>
  PROVE  PassedOn'
BY DEF PassedOn

\* What the fan-out takes is passed on from its first send.
LEMMA FanTakePasses == TypeOK /\ PassedOn /\ FanTake => PassedOn'
<1> SUFFICES ASSUME TypeOK, PassedOn, FanTake PROVE PassedOn'
  OBVIOUS
<1>1. raw \in Seq(FromSources) /\ raw # <<>> /\ routed \in Seq(FromSources)
  BY DEF PassedOn, FanTake
<1> DEFINE h == Head(raw)
<1>2. h \in FromSources /\ Tail(raw) \in Seq(FromSources)
  BY <1>1
<1> HIDE DEF h
<1>3. /\ Append(routed, h) \in Seq(FromSources) /\ Append(routed, h) # <<>>
      /\ Append(routed, h)[Len(Append(routed, h))] = h
  BY <1>1, <1>2
<1>4. raw' = Tail(raw) /\ routed' = Append(routed, h) /\ current' = h /\ fan'.todo = Route(h.kind)
  BY DEF FanTake, h
<1>5. \A c \in Route(h.kind) : Wants(c, h.kind)
  BY DEF Route
<1> QED BY <1>2, <1>3, <1>4, <1>5, Zenon DEF PassedOn

\* A receiver that is to be served now was owed no more than it had; one that
\* does not want the event is owed nothing new.
LEMMA FanTakeOwes ==
  TypeOK /\ PassedOn /\ EachReceiverGetsItsEvents /\ FanTake => EachReceiverGetsItsEvents'
<1> SUFFICES ASSUME TypeOK, PassedOn, EachReceiverGetsItsEvents, FanTake, NEW c \in Consumers
             PROVE  Gets(c)'
  BY AllGet DEF EachReceiverGetsItsEvents, Gets
<1> DEFINE h == Head(raw)
<1>1. raw \in Seq(FromSources) /\ raw # <<>> /\ routed \in Seq(FromSources)
  BY DEF PassedOn, FanTake
<1>2. h \in FromSources
  BY <1>1
<1> HIDE DEF h
<1>3. /\ routed' = Append(routed, h) /\ fan.todo = {} /\ fan.pc # "returned"
      /\ fan'.todo = Route(h.kind)
      /\ UNCHANGED <<alive, chan, handled>>
  BY DEF FanTake, TypeOK, h
<1>4. Due(c) = Only(routed, WantedBy(c))
  BY <1>3 DEF Due
<1>5. Due(c)' = Only(routed, WantedBy(c))
  <2>1. CASE c \in Route(h.kind)
    <3>1. SubSeq(Append(routed, h), 1, Len(Append(routed, h)) - 1) = routed
      BY <1>1, <1>2
    <3>2. SubSeq(routed', 1, Len(routed') - 1) = routed /\ c \in fan'.todo
      BY <1>3, <2>1, <3>1, Zenon
    <3> QED BY <3>2 DEF Due
  <2>2. CASE c \notin Route(h.kind)
    <3>1. h \notin WantedBy(c)
      BY <2>2 DEF Route, WantedBy
    <3>2. Only(Append(routed, h), WantedBy(c)) = Only(routed, WantedBy(c))
      BY <1>1, <1>2, <3>1, OnlySkips
    <3>3. Due(c)' = Only(Append(routed, h), WantedBy(c))
      BY <1>3, <2>2 DEF Due
    <3> QED BY <3>2, <3>3
  <2> QED BY <2>1, <2>2
<1>6. Gets(c)
  BY AllGet
<1> QED BY <1>3, <1>4, <1>5, <1>6, Zenon DEF Gets

\* A send is of the last event taken, to a receiver that wants it.
LEMMA FanSendPasses == TypeOK /\ PassedOn /\ FanSend => PassedOn'
<1> SUFFICES ASSUME TypeOK, PassedOn, FanSend PROVE PassedOn'
  OBVIOUS
<1>1. fan.pc = "sending" /\ fan'.todo \subseteq fan.todo
  BY DEF FanSend, ServeNext
<1>2. UNCHANGED <<raw, current, routed>>
  BY DEF FanSend
<1> QED BY <1>1, <1>2 DEF PassedOn

\* The receiver that is served is given what it was owed, and no other is.
LEMMA FanSendServes ==
  TypeOK /\ PassedOn /\ EachReceiverGetsItsEvents /\ FanSend => EachReceiverGetsItsEvents'
<1> SUFFICES ASSUME TypeOK, PassedOn, EachReceiverGetsItsEvents, FanSend, NEW d \in Consumers,
                    alive'[d], fan'.pc # "returned"
             PROVE  Only(handled'[d] \o chan'[d], FromSources) = Due(d)'
  BY AllGet DEF EachReceiverGetsItsEvents, Gets
<1>0. PICK c : c = First(fan.todo)
  OBVIOUS
<1>1. c \in fan.todo /\ c \in Consumers
  <2>1. fan.todo \in SUBSET Consumers /\ fan.todo # {}
    BY DEF FanSend, TypeOK
  <2> QED BY <1>0, <2>1, FirstIsOne
<1>2. /\ ServeNext(c) /\ fan.pc = "sending"
      /\ UNCHANGED <<current, alive, routed, handled>>
  BY <1>0 DEF FanSend
<1>3. fan'.todo = fan.todo \ {c}
  BY <1>2 DEF ServeNext
<1>4. Only(handled[d] \o chan[d], FromSources) = Due(d)
  BY <1>2, AllGet DEF Gets
<1>5. CASE d # c
  <2>1. chan'[d] = chan[d] /\ handled'[d] = handled[d]
    BY <1>2, <1>5 DEF ServeNext, TypeOK
  <2>2. Due(d)' = Due(d)
    BY <1>2, <1>3, <1>5 DEF Due
  <2> QED BY <1>4, <2>1, <2>2, Zenon
<1>6. CASE d = c
  <2> DEFINE served == SubSeq(routed, 1, Len(routed) - 1)
             had == handled[c] \o chan[c]
  <2>1. /\ routed \in Seq(FromSources) /\ routed # <<>> /\ current = routed[Len(routed)]
        /\ Wants(c, current.kind)
    BY <1>1, <1>2 DEF PassedOn
  <2>2. served \in Seq(FromSources) /\ current \in FromSources /\ routed = Append(served, current)
    BY <2>1
  <2>3. /\ had \in Seq(Event) /\ current \in Event
        /\ handled[c] \o Append(chan[c], current) = Append(had, current)
    <3>1. \A h, q \in Seq(Event), e \in Event :
            h \o q \in Seq(Event) /\ h \o Append(q, e) = Append(h \o q, e)
      OBVIOUS
    <3>2. handled[c] \in Seq(Event) /\ chan[c] \in Seq(Event) /\ current \in Event
      BY <1>1 DEF TypeOK
    <3> QED BY <3>1, <3>2, Zenon
  <2>4. Due(c) = Only(served, WantedBy(c)) /\ Due(c)' = Only(routed, WantedBy(c))
    <3>1. Due(c) = Only(served, WantedBy(c))
      BY <1>1 DEF Due
    <3>2. Due(c)' = Only(routed', WantedBy(c))
      BY <1>3 DEF Due
    <3> QED BY <1>2, <3>1, <3>2
  <2>5. chan'[c] = Append(chan[c], current) /\ handled'[c] = handled[c]
    BY <1>1, <1>2, <1>6 DEF ServeNext, TypeOK
  <2> HIDE DEF served, had
  <2>6. Only(routed, WantedBy(c)) = Only(served, WantedBy(c)) \o <<current>>
    <3>1. current \in WantedBy(c)
      BY <2>1, <2>2 DEF WantedBy, FromSources
    <3> QED BY <2>2, <3>1, OnlyAppend
  <2>7. Only(Append(had, current), FromSources) = Only(had, FromSources) \o <<current>>
    BY <2>2, <2>3, OnlyAppend
  <2>8. Only(had, FromSources) = Due(c)
    BY <1>4, <1>6 DEF had
  <2>9. handled'[c] \o chan'[c] = Append(had, current)
    BY <2>3, <2>5, Zenon
  <2>10. Only(handled'[c] \o chan'[c], FromSources) = Only(routed, WantedBy(c))
    BY <2>4, <2>6, <2>7, <2>8, <2>9, Zenon
  <2>11. Due(d)' = Due(c)'
    BY <1>6
  <2> QED BY <1>6, <2>4, <2>10, <2>11, Zenon
<1> QED BY <1>5, <1>6

\* A snapshot is none of the events that the store is owed.
LEMMA SnapshotsDisplaceNone ==
  TypeOK /\ EachReceiverGetsItsEvents /\ BookRecord => EachReceiverGetsItsEvents'
<1> SUFFICES ASSUME TypeOK, EachReceiverGetsItsEvents, BookRecord, NEW c \in Consumers
             PROVE  Gets(c)'
  BY AllGet DEF EachReceiverGetsItsEvents, Gets
<1> DEFINE e == [src |-> Book, n |-> fetches, kind |-> "snapshot"]
<1>1. e \in Event /\ e \notin FromSources
  BY DEF TypeOK, Event, Kinds, FromSources
<1> HIDE DEF e
<1>2. /\ UNCHANGED <<fan, alive, routed, handled>>
      /\ chan' = chan \/ chan' = [chan EXCEPT !["storage"] = Append(@, e)]
  BY DEF BookRecord, e
<1>3. Due(c)' = Due(c)
  BY <1>2 DEF Due
<1>4. Gets(c)
  BY AllGet
<1>5. CASE chan'[c] = chan[c]
  BY <1>2, <1>3, <1>4, <1>5, Zenon DEF Gets
<1>6. CASE chan'[c] # chan[c]
  <2>1. chan'[c] = Append(chan[c], e)
    BY <1>2, <1>6 DEF TypeOK
  <2>2. handled[c] \in Seq(Event) /\ chan[c] \in Seq(Event)
    BY DEF TypeOK
  <2>3. \A h, q \in Seq(Event) : h \o q \in Seq(Event) /\ h \o Append(q, e) = Append(h \o q, e)
    BY <1>1
  <2> DEFINE had == handled[c] \o chan[c]
  <2>4. had \in Seq(Event) /\ handled[c] \o chan'[c] = Append(had, e)
    BY <2>1, <2>2, <2>3
  <2> HIDE DEF had
  <2>5. Only(Append(had, e), FromSources) = Only(had, FromSources)
    BY <1>1, <2>4, OnlySkips
  <2> QED BY <1>2, <1>3, <1>4, <2>4, <2>5, Zenon DEF Gets, had
<1> QED BY <1>5, <1>6

\* Every step keeps the invariant.
LEMMA DeliveryStep == DInv /\ [Next]_vars => DInv'
<1> SUFFICES ASSUME DInv, [Next]_vars PROVE DInv'
  OBVIOUS
<1> USE DEF supervisorVars, storeVars
<1>0. TypeOK /\ PassedOn /\ EachReceiverGetsItsEvents /\ ChannelsOK /\ AliveType /\ TypeOK'
  BY TypeStep DEF DInv, TypeOK, ChannelsOK, AliveType
<1> SUFFICES PassedOn' /\ EachReceiverGetsItsEvents'
  BY <1>0 DEF DInv
<1>a. ASSUME NEW c \in Consumers, Take(c), UNCHANGED <<raw, fan, current, alive, routed>>
      PROVE  PassedOn' /\ EachReceiverGetsItsEvents'
  <2>1. \A d \in Consumers : handled'[d] \o chan'[d] = handled[d] \o chan[d]
    BY <1>0, <1>a, TakeMoves
  <2>2. EachReceiverGetsItsEvents'
    BY <1>0, <1>a, <2>1, NothingServed
  <2> QED BY <1>0, <1>a, <2>2, NothingPassed
<1>b. ASSUME NEW c \in Consumers, Return(c), UNCHANGED <<raw, fan, current, routed, handled>>
      PROVE  PassedOn' /\ EachReceiverGetsItsEvents'
  <2>1. \A d \in Consumers :
          alive'[d] => alive[d] /\ handled'[d] \o chan'[d] = handled[d] \o chan[d]
    BY <1>0, <1>b, ReturnMoves
  <2>2. EachReceiverGetsItsEvents'
    BY <1>0, <1>b, <2>1, NothingServed
  <2> QED BY <1>0, <1>b, <2>2, NothingPassed
<1>c. ASSUME UNCHANGED <<fan, alive, routed, chan, handled>>
      PROVE  EachReceiverGetsItsEvents'
  BY <1>0, <1>c, NothingServed
<1>1. ASSUME NEW s \in Sources, NEW k \in Kinds, Produce(s, k)
      PROVE  PassedOn' /\ EachReceiverGetsItsEvents'
  <2>1. [src |-> s, n |-> produced[s] + 1, kind |-> k] \in FromSources
    <3>1. [src |-> s, n |-> produced[s] + 1, kind |-> k] \in Event
      <4>1. produced \in [Sources -> Nat]
        BY <1>0 DEF TypeOK
      <4> QED BY <4>1 DEF Event
    <3>2. s # Book
      BY PipelineAssumption
    <3> QED BY <3>1, <3>2 DEF FromSources
  <2>2. raw' \in Seq(FromSources)
    BY <1>0, <1>1, <2>1 DEF Produce, PassedOn
  <2>3. PassedOn'
    BY <1>0, <1>1, <2>2 DEF Produce, PassedOn
  <2> QED BY <1>1, <1>c, <2>3 DEF Produce
<1>2. CASE CtrlC
  BY <1>0, <1>2, <1>c, NothingPassed DEF CtrlC
<1>3. CASE FanTake
  BY <1>0, <1>3, FanTakePasses, FanTakeOwes
<1>4. CASE FanSend
  BY <1>0, <1>4, FanSendPasses, FanSendServes
<1>5. CASE FanStop
  BY <1>0, <1>5 DEF FanStop, PassedOn, EachReceiverGetsItsEvents
<1>6. ASSUME NEW c \in Engines, EngineTake(c) PROVE PassedOn' /\ EachReceiverGetsItsEvents'
  BY <1>6, <1>a, EnginesAreOthers DEF EngineTake
<1>7. ASSUME NEW c \in Engines, EngineStop(c) PROVE PassedOn' /\ EachReceiverGetsItsEvents'
  BY <1>7, <1>b, EnginesAreOthers DEF EngineStop
<1>8. CASE BookTake
  BY <1>8, <1>a, EnginesAreOthers DEF BookTake
<1>9. CASE BookFetched
  BY <1>0, <1>9, <1>c, NothingPassed DEF BookFetched
<1>10. CASE BookRecord
  BY <1>0, <1>10, SnapshotsDisplaceNone, NothingPassed DEF BookRecord
<1>11. CASE BookStop
  BY <1>11, <1>b, EnginesAreOthers DEF BookStop, EngineStop
<1>12. CASE StoreTake
  BY <1>12, <1>a, EnginesAreOthers DEF StoreTake
<1>13. CASE StoreTick \/ StoreWritten
  BY <1>0, <1>13, <1>c, NothingPassed DEF StoreTick, StoreWritten
<1>14. CASE StoreStart \/ StoreOpened \/ StoreStop \/ StoreClosed
  <2>1. UNCHANGED <<raw, fan, current, routed, handled>>
    BY <1>14 DEF StoreStart, StoreOpened, StoreStop, StoreClosed
  <2>2. UNCHANGED <<chan, alive>> \/ Return("storage")
    BY <1>14 DEF StoreStart, StoreOpened, StoreStop, StoreClosed, StoreReturns
  <2>3. CASE UNCHANGED <<chan, alive>>
    BY <1>0, <1>c, <2>1, <2>3, NothingPassed
  <2>4. CASE Return("storage")
    BY <1>b, <2>1, <2>4, EnginesAreOthers
  <2> QED BY <2>2, <2>3, <2>4
<1>15. CASE SupervisorStart
  BY <1>0, <1>15, <1>c, NothingPassed DEF SupervisorStart
<1>16. CASE SupervisorTake
  BY <1>16, <1>a, EnginesAreOthers DEF SupervisorTake
<1>17. CASE SupervisorTick
  BY <1>0, <1>17, <1>c, NothingPassed DEF SupervisorTick
<1>18. CASE SupervisorStop
  BY <1>18, <1>b, EnginesAreOthers DEF SupervisorStop
<1>19. CASE Exit
  BY <1>0, <1>19, <1>c, NothingPassed DEF Exit
<1>20. CASE UNCHANGED vars
  BY <1>0, <1>20, <1>c, NothingPassed DEF vars
<1> QED
  BY <1>1, <1>2, <1>3, <1>4, <1>5, <1>6, <1>7, <1>8, <1>9, <1>10, <1>11, <1>12, <1>13,
     <1>14, <1>15, <1>16, <1>17, <1>18, <1>19, <1>20
  DEF Next, Fanout, OrderBook, Store, Disk, Supervisor

\* As long as its task and the fan-out run, every receiver has taken or queued
\* exactly the events of its kinds that the fan-out has served, each once and in
\* order, however full the channels and whichever tasks have returned.
\* (spawn_market_fanout)
THEOREM NoEventIsLostOrDoubled == Spec => []EachReceiverGetsItsEvents
<1>1. Init => DInv
  <2>1. Init => TypeOK
    BY InitType
  <2>2. Init => PassedOn
    <3>1. <<>> \in Seq(FromSources)
      OBVIOUS
    <3> QED BY <3>1 DEF Init, PassedOn
  <2>3. ASSUME Init, NEW c \in Consumers PROVE Gets(c)
    <3>1. handled[c] \o chan[c] = <<>> /\ routed = <<>> /\ fan.todo = {}
      <4>1. handled[c] = <<>> /\ chan[c] = <<>> /\ routed = <<>> /\ fan.todo = {}
        BY <2>3 DEF Init
      <4>2. <<>> \o <<>> = <<>>
        OBVIOUS
      <4> QED BY <4>1, <4>2, Zenon
    <3>2. Due(c) = Only(<<>>, WantedBy(c))
      BY <3>1 DEF Due
    <3>3. Only(<<>>, WantedBy(c)) = <<>> /\ Only(<<>>, FromSources) = <<>>
      BY OnlyEmpty
    <3> QED BY <3>1, <3>2, <3>3, Zenon DEF Gets
  <2> QED BY <2>1, <2>2, <2>3, AllGet DEF DInv
<1>2. DInv => EachReceiverGetsItsEvents
  BY DEF DInv
<1> QED BY <1>1, <1>2, DeliveryStep, PTL DEF Spec
=============================================================================
