---------------------------- MODULE NodeHubProofs ----------------------------
(****************************************************************************)
(* The hub's limits and counters, and its side of SessionContract, for any  *)
(* number of sessions, addresses and connections.                           *)
(*                                                                          *)
(* A session that has been started and is not yet registered is counted     *)
(* nowhere, and it may end before it is.  The inductive invariant says by   *)
(* how much every counter is behind the sessions there are in that window,  *)
(* wrapping around included.                                                *)
(****************************************************************************)
EXTENDS NodeHub, FiniteSetTheorems, TLAPS

\* The types of connection, the phases of a session and the values of a coroutine's state.
Types == Outbounds \cup {"kInbound"}
Phases == {"free", "kStarted", "kStopping", "closed", "kNotStarted"}

Coroutine(pc) == [pc : {"receive", "ended"}, connection : {NoConnection}] \cup [pc : {pc}, connection : Connection]

HubTypes ==
    /\ fed \in Seq(Connection)
    /\ feed \in [factory : Seq(Connection), connector : Seq(Connection)]
    /\ connector \in Coroutine("connect")
    /\ factory \in Coroutine("create") \cup [pc : {"address", "count"}, connection : Connection, session : Sessions]
    /\ requests \in Seq(Sessions)
    /\ nodes \in SUBSET Sessions
    /\ connected \in [Addresses -> Nat]
    /\ session \in [Sessions -> [connection : Connection \cup {NoConnection}, phase : Phases]]

\* What a session in the list, or on its way to it, is known to be.
Known ==
    /\ \A s \in Sessions : session[s].phase # "free" => session[s].connection \in Connection
    /\ \A s \in nodes : session[s].phase # "free"
    /\ Registering => /\ factory.session \notin nodes
                      /\ session[factory.session].phase # "free"
                      /\ session[factory.session].connection = factory.connection

\* The sessions with a connection of one of some types whose end has not been recorded, and whether one
\* more or less of them is still to be counted.
Of(T) == {s \in Uncounted : session[s].connection.type \in T}
Due(T) == IF Registering /\ factory.connection.type \in T THEN 1 ELSE 0

\* A counter that has the value n, when it is unsigned.
Wrapped(n) == IF n = -1 THEN Width - 1 ELSE n

Counter(T) == Wrapped(Cardinality(Of(T)) - Due(T))

\* The connected sessions of an address, and whether one of them is still to be counted.
At(a) == {s \in Live : session[s].connection.address = a}
DueAt(a) == IF factory.pc = "address" /\ factory.connection.address = a THEN 1 ELSE 0

\* The limit holds of the sessions themselves, and every counter is behind them by what is due.
Counts ==
    /\ Cardinality(Of(Types)) <= max_active_connections
    /\ active = Counter(Types) /\ inbound = Counter({"kInbound"}) /\ outbound = Counter(Outbounds)

AddressCounts == \A a \in Addresses : connected[a] + DueAt(a) >= Cardinality(At(a))

\* Only a started hub has a factory.
Dormant == status = "kNotStarted" /\ stopping = "no" => factory.pc = "ended"

\* Nothing is asked for before NodeHub::start.
Quiet ==
    status = "kNotStarted" /\ stopping = "no" =>
        /\ feed = [factory |-> <<>>, connector |-> <<>>] /\ ~need /\ needed = 0 /\ selector.todo = 0
        /\ connector.pc = "ended" /\ factory.pc = "ended" /\ ticker = "off"

\* The connections that are being established for the timer, and their number while the hub runs: it is what
\* the counter says, and never more than the connector's feed has room for.
Established ==
    selector.todo + OutboundsIn(feed.connector) + Holds(connector, {"connect"})
        + OutboundsIn(feed.factory) + Holds(factory, {"create"})

Asked ==
    is_running /\ fed = <<>> =>
        /\ needed <= min_outgoing_connections
        /\ \A i \in DOMAIN feed.connector : feed.connector[i].type = "kOutbound"
        /\ connector.pc = "connect" => connector.connection.type = "kOutbound"
        /\ need => Established = 0
        /\ ~need => Established = needed

Needs == "todo" \in DOMAIN selector /\ selector.todo \in Nat /\ needed \in 0 .. Width - 1 /\ Quiet /\ Asked

IInv == HubTypes /\ Dormant /\ Known /\ Counts /\ AddressCounts

-----------------------------------------------------------------------------
(* What the steps do to sessions and counters.                               *)

counted == <<nodes, session, active, inbound, outbound, connected>>

Registration == FactoryCreates \/ CountAddress \/ CountConnection
SessionStep == \E s \in Sessions : SessionStops(s) \/ UncountAddress(s) \/ UncountConnection(s)
SweepStep == \E idle \in SUBSET nodes : Sweep(idle)
Aside == UNCHANGED counted /\ (factory' = factory \/ (~Registering /\ ~Registering'))

\* Every step of the hub leaves the sessions and their counts alone, registers a session, moves one session or sweeps.
LEMMA StepKinds == Dormant /\ [Next]_vars => Aside \/ Registration \/ SessionStep \/ SweepStep
<1> SUFFICES ASSUME Dormant, [Next]_vars, ~Registration, ~SessionStep, ~SweepStep PROVE Aside
  OBVIOUS
<1>1. CASE Start \/ StartFails \/ Stop
  BY <1>1 DEF Dormant, Start, StartFails, Stop, Aside, counted, counters, sessions, workers, Registering, Idle, Ended
<1>2. CASE FactoryReceives \/ FactoryEnds \/ FactoryRejects \/ FactoryFails
  BY <1>2 DEF FactoryReceives, FactoryEnds, FactoryRejects, FactoryFails, FactoryTakes, Aside, counted, counters,
              sessions, Registering, Idle, Ended
<1>3. CASE Connector \/ Acceptor \/ Selector \/ Processor
  BY Zenon, <1>3 DEF Connector, ConnectorReceives, ConnectorEnds, ConnectFails, ConnectSucceeds, Acceptor, Accept,
              Selector, SelectorWakes, SelectorDraws, SelectorFindsNone, Processor, ProcessorReceives, ProcessAddr,
              ProcessGetAddr, Aside, counted, counters, sessions, workers
<1>4. CASE Ask \/ Stopping
  BY <1>4 DEF Ask, Stopping, Wait, WaitTimesOut, WakesSpuriously, StopReturns, Aside, counted, counters,
              sessions, workers
<1>5. CASE \E s \in Sessions : on_node_received_message(s)
  BY <1>5 DEF on_node_received_message, Aside, counted, counters, sessions, workers
<1>6. CASE UNCHANGED vars
  BY <1>6 DEF vars, Aside, counted, counters, sessions, workers
<1> QED
  BY <1>1, <1>2, <1>3, <1>4, <1>5, <1>6
  DEF Next, Factory, Tick, Strand, Registration, SessionStep, SweepStep

-----------------------------------------------------------------------------
(* Types.                                                                    *)

\* What is fed to the connector are connections.
LEMMA FeedTypes ==
    ASSUME HubTypes, NEW c \in Connection
    PROVE  /\ [feed EXCEPT !.factory = Append(@, c)] \in [factory : Seq(Connection), connector : Seq(Connection)]
           /\ [feed EXCEPT !["connector"] = Append(@, c)] \in [factory : Seq(Connection), connector : Seq(Connection)]
<1>1. feed.factory \in Seq(Connection) /\ feed.connector \in Seq(Connection)
  BY DEF HubTypes
<1>2. Append(feed.factory, c) \in Seq(Connection) /\ Append(feed.connector, c) \in Seq(Connection)
  BY <1>1
<1> QED BY Zenon, <1>2 DEF HubTypes

\* Taking the head of a queue of S leaves a queue of S.
LEMMA TailTypes == ASSUME NEW S, NEW q \in Seq(S), q # <<>> PROVE Head(q) \in S /\ Tail(q) \in Seq(S)
  OBVIOUS

\* The hub starts with values of the right types.
LEMMA InitTypes == Init => HubTypes
  BY HubAssumption DEF Init, HubTypes, Coroutine, Ended, NoSession, Phases

\* Uncounting a connection keeps the types of the counters.
LEMMA UncountedTypes ==
    ASSUME NEW f \in [Addresses -> Nat], NEW a
    PROVE  [f EXCEPT ![a] = IF @ = 0 THEN 0 ELSE @ - 1] \in [Addresses -> Nat]
<1>1. a \in Addresses => (IF f[a] = 0 THEN 0 ELSE f[a] - 1) \in Nat
  OBVIOUS
<1> QED BY Zenon, <1>1

\* A sweep, or a stop, of some sessions.
LEMMA StoppedTypes ==
    ASSUME HubTypes, NEW ss
    PROVE  Stopped(ss) \in [Sessions -> [connection : Connection \cup {NoConnection}, phase : Phases]]
  BY DEF HubTypes, Stopped, Phases

\* Every step keeps the types.
LEMMA NextTypes == HubTypes /\ [Next]_vars => HubTypes'
<1> SUFFICES ASSUME HubTypes, [Next]_vars PROVE HubTypes'
  OBVIOUS
<1> USE DEF HubTypes
<1>1. CASE Start
  <2>1. SubSeq(fed, 1, IF Len(fed) < max_active_connections THEN Len(fed) ELSE max_active_connections)
          \in Seq(Connection)
    BY HubAssumption
  <2> QED BY Zenon, <1>1, <2>1 DEF Start, sessions, Coroutine, Idle
<1>2. CASE StartFails
  BY <1>2 DEF StartFails, sessions, workers, queues
<1>3. CASE Stop
  BY <1>3 DEF Stop, sessions, Coroutine, Ended
<1>4. CASE FactoryReceives
  BY Zenon, <1>4, TailTypes DEF FactoryReceives, control, sessions, Coroutine
<1>5. CASE FactoryEnds \/ FactoryRejects \/ FactoryFails
  BY <1>5 DEF FactoryEnds, FactoryRejects, FactoryFails, control, sessions, queues, Coroutine, Idle, Ended
<1>6. CASE FactoryCreates
  <2>1. factory.connection \in Connection
    BY <1>6 DEF FactoryCreates, FactoryTakes, Coroutine
  <2>2. (CHOOSE s \in Free : TRUE) \in Sessions
    BY <1>6 DEF FactoryCreates, Free
  <2> QED BY <1>6, <2>1, <2>2 DEF FactoryCreates, control, queues, Phases
<1>7. CASE CountAddress
  <2>1. factory \in [pc : {"address", "count"}, connection : Connection, session : Sessions]
    BY <1>7 DEF CountAddress, Coroutine
  <2>2. factory.connection.address \in Addresses
    BY <2>1 DEF Connection
  <2>3. factory' \in [pc : {"address", "count"}, connection : Connection, session : Sessions]
    BY Zenon, <1>7, <2>1 DEF CountAddress
  <2>4. connected' \in [Addresses -> Nat]
    BY <1>7, <2>2 DEF CountAddress
  <2> QED BY <1>7, <2>3, <2>4 DEF CountAddress, control, queues, sessions
<1>8. CASE CountConnection
  <2>1. factory \in [pc : {"address", "count"}, connection : Connection, session : Sessions]
    BY <1>8 DEF CountConnection, Coroutine
  <2> QED BY <1>8, <2>1 DEF CountConnection, PushNode, control, queues, Coroutine, Idle
<1>9. CASE ConnectorReceives
  <2>1. Head(feed.connector) \in Connection /\ Tail(feed.connector) \in Seq(Connection)
    BY <1>9, TailTypes DEF ConnectorReceives
  <2>2. feed' \in [factory : Seq(Connection), connector : Seq(Connection)]
    BY Zenon, <1>9, <2>1 DEF ConnectorReceives
  <2>3. connector' \in Coroutine("connect")
    BY <1>9, <2>1 DEF ConnectorReceives, Discard, Coroutine, Idle
  <2> QED BY <1>9, <2>2, <2>3 DEF ConnectorReceives, control, sessions
<1>10. CASE ConnectorEnds \/ ConnectFails
  BY <1>10 DEF ConnectorEnds, ConnectFails, Discard, control, sessions, queues, Coroutine, Idle, Ended
<1>11. CASE ConnectSucceeds
  <2>1. connector.connection \in Connection
    BY <1>11 DEF ConnectSucceeds, Coroutine
  <2>2. feed' \in [factory : Seq(Connection), connector : Seq(Connection)]
    BY Zenon, <1>11, <2>1, FeedTypes DEF ConnectSucceeds, AsyncSend
  <2>3. connector' \in Coroutine("connect")
    BY <1>11 DEF ConnectSucceeds, Coroutine, Idle, Ended
  <2> QED BY <1>11, <2>2, <2>3 DEF ConnectSucceeds, control, sessions
<1>12. CASE Acceptor
  <2> PICK a \in Addresses : Accept(a)
    BY <1>12 DEF Acceptor
  <2>1. [address |-> a, type |-> "kInbound"] \in Connection
    BY DEF Connection
  <2>2. feed' \in [factory : Seq(Connection), connector : Seq(Connection)]
    BY Zenon, <2>1, FeedTypes DEF Accept, AsyncSend
  <2> QED BY <2>2 DEF Accept, control, sessions, workers
<1>13. CASE Selector
  <2>1. \A a \in Addresses : [address |-> a, type |-> "kOutbound"] \in Connection
    BY DEF Connection, Outbounds
  <2>2. feed' \in [factory : Seq(Connection), connector : Seq(Connection)]
    BY Zenon, <1>13, <2>1, FeedTypes DEF Selector, SelectorWakes, SelectorDraws, SelectorFindsNone, TrySend, queues
  <2> QED BY Zenon, <1>13, <2>2 DEF Selector, SelectorWakes, SelectorDraws, SelectorFindsNone, control, sessions, queues
<1>14. CASE Processor
  <2>1. ProcessorReceives
    BY Zenon, <1>14 DEF Processor, ProcessAddr, ProcessGetAddr
  <2>2. requests' \in Seq(Sessions)
    BY <2>1, TailTypes DEF ProcessorReceives
  <2> QED BY <2>1, <2>2 DEF ProcessorReceives, workers
<1>15. CASE \E idle \in SUBSET nodes : Sweep(idle)
  <2> PICK idle \in SUBSET nodes : Sweep(idle)
    BY <1>15
  <2>1. Stopped(idle) \in [Sessions -> [connection : Connection \cup {NoConnection}, phase : Phases]]
    BY StoppedTypes
  <2>2. NoSession \in [connection : Connection \cup {NoConnection}, phase : Phases]
    BY DEF NoSession, Phases
  <2> QED BY <2>1, <2>2 DEF Sweep, queues
<1>16. CASE Ask
  BY <1>16 DEF Ask, control, sessions
<1>17. CASE Stopping
  BY <1>17 DEF Stopping, Wait, WaitTimesOut, WakesSpuriously, StopReturns, workers, queues, sessions
<1>18. CASE \E s \in Sessions : SessionStops(s)
  BY <1>18, StoppedTypes DEF SessionStops, control, workers, queues
<1>19. CASE \E s \in Sessions : UncountAddress(s)
  <2> PICK s \in Sessions : UncountAddress(s)
    BY <1>19
  <2>1. connected' \in [Addresses -> Nat]
    BY UncountedTypes DEF UncountAddress
  <2>2. session' \in [Sessions -> [connection : Connection \cup {NoConnection}, phase : Phases]]
    BY ZenonT(30) DEF UncountAddress, Phases
  <2> QED BY <2>1, <2>2 DEF UncountAddress, control, workers, queues
<1>20. CASE \E s \in Sessions : UncountConnection(s)
  BY <1>20 DEF UncountConnection, control, workers, queues, Phases
<1>21. CASE \E s \in Sessions : on_node_received_message(s)
  BY <1>21 DEF on_node_received_message, control, workers, sessions
<1>22. CASE UNCHANGED vars
  BY <1>22 DEF vars, control, workers, queues, sessions
<1> QED
  <2> USE <1>1, <1>2, <1>3, <1>4, <1>5, <1>6, <1>7, <1>8, <1>9, <1>10, <1>11, <1>12, <1>13, <1>14, <1>15,
     <1>16, <1>17, <1>18, <1>19, <1>20, <1>21, <1>22
  <2> HIDE DEF HubTypes
  <2> QED BY DEF Next, Factory, Connector, Tick, Strand

-----------------------------------------------------------------------------
(* Who is known, and that nothing runs before start.                         *)

\* Nothing works for the hub before NodeHub::start.
LEMMA NextDormant == Dormant /\ [Next]_vars => Dormant'
<1> SUFFICES ASSUME Dormant, [Next]_vars, status' = "kNotStarted", stopping' = "no" PROVE factory'.pc = "ended"
  BY DEF Dormant
<1>1. status = "kNotStarted" /\ stopping = "no"
  BY ZenonT(30) DEF Next, Start, StartFails, Stop, Factory, FactoryReceives, FactoryEnds, FactoryRejects, FactoryFails,
         FactoryCreates, CountAddress, CountConnection, Connector, ConnectorReceives, ConnectorEnds, ConnectFails,
         ConnectSucceeds, Acceptor, Accept, Selector, SelectorWakes, SelectorDraws, SelectorFindsNone, Processor,
         ProcessorReceives, ProcessAddr, ProcessGetAddr, Tick, Sweep, Ask, Stopping, Wait, WaitTimesOut,
         WakesSpuriously, StopReturns, SessionStops, Strand, UncountAddress, UncountConnection,
         on_node_received_message, vars, control
<1>2. factory.pc = "ended"
  BY <1>1 DEF Dormant
<1>3. factory' = factory
  BY Zenon, <1>1, <1>2
  DEF Next, Start, StartFails, Stop, Factory, FactoryReceives, FactoryEnds, FactoryRejects, FactoryFails,
      FactoryTakes, FactoryCreates, CountAddress, CountConnection, Connector, ConnectorReceives, ConnectorEnds,
      ConnectFails, ConnectSucceeds, Acceptor, Accept, Selector, SelectorWakes, SelectorDraws, SelectorFindsNone,
      Processor, ProcessorReceives, ProcessAddr, ProcessGetAddr, Tick, Sweep, Ask, Stopping, Wait, WaitTimesOut,
      WakesSpuriously, StopReturns, SessionStops, Strand, UncountAddress, UncountConnection,
      on_node_received_message, vars, control, workers
<1> QED BY <1>2, <1>3

\* The factory builds a session from a connection it took from its feed.
LEMMA FactoryConnection ==
    ASSUME HubTypes, factory.pc \notin {"receive", "ended"}
    PROVE  /\ factory.connection \in Connection
           /\ factory.connection.address \in Addresses /\ factory.connection.type \in Types
           /\ Registering => factory.session \in Sessions
<1>1. factory.connection \in Connection
  BY DEF HubTypes, Coroutine
<1>2. Registering => factory.session \in Sessions
  BY DEF HubTypes, Coroutine, Registering
<1> QED BY <1>1, <1>2 DEF Connection, Types

\* What a sweep does to a session.
LEMMA SweepSessions ==
    ASSUME HubTypes, NEW idle, Sweep(idle), NEW s \in Sessions
    PROVE  \/ session'[s] = session[s] /\ s \notin Erasable
           \/ s \in Erasable /\ session'[s] = NoSession
           \/ /\ session[s].phase = "kStarted" /\ session'[s].phase = "kStopping" /\ s \notin Erasable
              /\ session'[s].connection = session[s].connection
<1>1. session'[s] = IF s \in Erasable THEN NoSession ELSE Stopped(idle)[s]
  BY DEF Sweep
<1>2. Stopped(idle)[s] = session[s]
      \/ (session[s].phase = "kStarted" /\ Stopped(idle)[s] = [session[s] EXCEPT !.phase = "kStopping"])
  BY DEF Stopped
<1>3. session[s] \in [connection : Connection \cup {NoConnection}, phase : Phases]
  BY DEF HubTypes
<1> QED BY <1>1, <1>2, <1>3

\* What a step of a session's strand, or its stop, does to the sessions.
LEMMA StrandSessions ==
    ASSUME HubTypes, NEW s \in Sessions, SessionStops(s) \/ UncountAddress(s) \/ UncountConnection(s)
    PROVE  /\ \A t \in Sessions : t # s => session'[t] = session[t]
           /\ session'[s].connection = session[s].connection
           /\ SessionStops(s) => session[s].phase = "kStarted" /\ session'[s].phase = "kStopping"
           /\ UncountAddress(s) => session[s].phase = "kStopping" /\ session'[s].phase = "closed"
           /\ UncountConnection(s) => session[s].phase = "closed" /\ session'[s].phase = "kNotStarted"
           /\ UNCHANGED <<factory, nodes>>
<1>1. session \in [Sessions -> [connection : Connection \cup {NoConnection}, phase : Phases]]
  BY DEF HubTypes
<1> QED BY <1>1 DEF SessionStops, UncountAddress, UncountConnection, Stopped, workers

\* What the factory makes of a free identity.
LEMMA CreatedSession ==
    ASSUME HubTypes, FactoryCreates
    PROVE  /\ factory'.session \in Sessions /\ session[factory'.session].phase = "free"
           /\ factory'.pc = "address" /\ factory'.connection = factory.connection
           /\ session'[factory'.session] = [connection |-> factory.connection, phase |-> "kStarted"]
           /\ \A t \in Sessions : t # factory'.session => session'[t] = session[t]
           /\ factory.pc = "create"
<1>1. session \in [Sessions -> [connection : Connection \cup {NoConnection}, phase : Phases]]
  BY DEF HubTypes
<1>2. (CHOOSE s \in Free : TRUE) \in Free
  BY DEF FactoryCreates
<1> QED BY <1>1, <1>2 DEF FactoryCreates, FactoryTakes, Free

\* Every step keeps the registered sessions and the ones that are not free in agreement.
LEMMA NextKnown ==
    ASSUME HubTypes, Known, Aside \/ Registration \/ SessionStep \/ SweepStep PROVE Known'
<1>1. CASE Aside
  BY <1>1 DEF Aside, Known, counted, Registering
<1>2. CASE FactoryCreates
  BY <1>2, CreatedSession, FactoryConnection DEF FactoryCreates, Known, Registering, HubTypes
<1>3. CASE CountAddress
  <2>1. factory'.connection = factory.connection /\ factory'.session = factory.session /\ Registering
    BY <1>3 DEF CountAddress, HubTypes, Coroutine, Registering
  <2> QED BY <1>3, <2>1 DEF CountAddress, Known, Registering, sessions
<1>4. CASE CountConnection
  BY <1>4 DEF CountConnection, PushNode, Known, Registering, Idle
<1>5. CASE SessionStep
  <2> PICK s \in Sessions : SessionStops(s) \/ UncountAddress(s) \/ UncountConnection(s)
    BY <1>5 DEF SessionStep
  <2>1. \A t \in Sessions : session'[t].connection = session[t].connection
                          /\ (session'[t].phase = "free" <=> session[t].phase = "free")
    BY StrandSessions
  <2>2. UNCHANGED <<factory, nodes>>
    BY StrandSessions
  <2>3. Registering => factory.session \in Sessions
    BY FactoryConnection DEF Registering
  <2> QED BY <2>1, <2>2, <2>3 DEF Known, Registering, HubTypes
<1>6. CASE SweepStep
  <2> PICK idle \in SUBSET nodes : Sweep(idle)
    BY <1>6 DEF SweepStep
  <2>1. \A t \in Sessions : t \notin Erasable => session'[t].connection = session[t].connection
                                             /\ (session'[t].phase = "free" <=> session[t].phase = "free")
    BY SweepSessions
  <2>2. \A t \in Sessions \cap Erasable : session'[t].phase = "free"
    BY SweepSessions DEF NoSession
  <2>3. factory' = factory /\ nodes' = nodes \ Erasable /\ Erasable \subseteq nodes
    BY DEF Sweep, Erasable
  <2>4. Registering => factory.session \in Sessions
    BY FactoryConnection DEF Registering
  <2> QED BY <2>1, <2>2, <2>3, <2>4 DEF Known, Registering, HubTypes
<1> QED BY <1>1, <1>2, <1>3, <1>4, <1>5, <1>6 DEF Registration

-----------------------------------------------------------------------------
(* Counting.                                                                 *)

\* Adding and removing one element of a finite set.
LEMMA SetFacts ==
    ASSUME NEW S \in SUBSET Sessions
    PROVE  /\ Cardinality(S) \in Nat /\ Cardinality(S) <= Cardinality(Sessions)
           /\ \A R \in SUBSET S : Cardinality(R) <= Cardinality(S)
           /\ \A x : x \notin S => Cardinality(S \cup {x}) = Cardinality(S) + 1
           /\ \A x \in S : Cardinality(S \ {x}) = Cardinality(S) - 1 /\ Cardinality(S) > 0
<1>1. IsFiniteSet(S) /\ Cardinality(S) <= Cardinality(Sessions)
  BY HubAssumption, FS_Subset
<1>2. Cardinality(S) \in Nat
  BY <1>1, FS_CardinalityType
<1>3. \A R \in SUBSET S : Cardinality(R) <= Cardinality(S)
  BY <1>1, FS_Subset
<1>4. \A x : x \notin S => Cardinality(S \cup {x}) = Cardinality(S) + 1
  BY <1>1, FS_AddElement
<1>5. \A x \in S : Cardinality(S \ {x}) = Cardinality(S) - 1
  BY <1>1, FS_RemoveElement
<1>6. \A x \in S : Cardinality(S) > 0
  BY <1>1, <1>2, FS_EmptySet
<1> QED BY <1>1, <1>2, <1>3, <1>4, <1>5, <1>6

\* A number below the modulus is its own remainder.
LEMMA ModSmall == ASSUME NEW a \in Nat, NEW b \in Nat, a < b PROVE a % b = a
  OBVIOUS

\* The modulus leaves no remainder.
LEMMA ModSelf == ASSUME NEW b \in Nat, b > 0 PROVE b % b = 0
  OBVIOUS

\* Adding the modulus leaves the remainder.
LEMMA ModOver == ASSUME NEW a \in Nat, NEW b \in Nat, a < b PROVE (a + b) % b = a
  OBVIOUS

\* A counter that wrapped below 0 comes back when it is incremented.
LEMMA IncWrapped == ASSUME NEW n \in -1 .. Width - 2 PROVE Inc(Wrapped(n)) = Wrapped(n + 1)
  BY HubAssumption, ModSmall, ModSelf DEF Inc, Wrapped

\* -- of an unsigned counter, also to the value below zero.
LEMMA DecWrapped == ASSUME NEW n \in 0 .. Width - 1 PROVE Dec(Wrapped(n)) = Wrapped(n - 1)
  BY HubAssumption, ModSmall, ModSelf, ModOver DEF Dec, Wrapped

\* The width leaves room for every session and for one that is counted late.
LEMMA Room == Cardinality(Sessions) \in Nat /\ Cardinality(Sessions) < Width - 1 /\ Width \in Nat
<1>1. Cardinality(Sessions) \in Nat
  BY HubAssumption, FS_CardinalityType
<1> QED BY <1>1, HubAssumption

-----------------------------------------------------------------------------
(* The sessions that are counted, step by step.                              *)

\* A step aside leaves the sessions of every type.
LEMMA OfAside == ASSUME Aside, NEW T PROVE Of(T)' = Of(T) /\ Due(T)' = Due(T)
  BY DEF Aside, counted, Of, Uncounted, Due, Registering

\* A new session is one more of its type.
LEMMA OfCreated ==
    ASSUME HubTypes, FactoryCreates, NEW T \in SUBSET Types
    PROVE  /\ Due(T) = 0
           /\ factory.connection.type \in T => Due(T)' = 1 /\ Cardinality(Of(T))' = Cardinality(Of(T)) + 1
           /\ factory.connection.type \notin T => Due(T)' = 0 /\ Of(T)' = Of(T)
<1> DEFINE s == factory'.session
<1>1. s \in Sessions /\ session[s].phase = "free"
        /\ factory'.pc = "address" /\ factory'.connection = factory.connection
  BY CreatedSession
<1>2. session'[s] = [connection |-> factory.connection, phase |-> "kStarted"]
      /\ (\A t \in Sessions : t # s => session'[t] = session[t]) /\ factory.pc = "create"
  BY CreatedSession
<1>3. Due(T) = 0 /\ Due(T)' = IF factory.connection.type \in T THEN 1 ELSE 0
  BY <1>1, <1>2 DEF Due, Registering
<1>4. s \notin Of(T) /\ Of(T) \subseteq Sessions
  BY <1>1 DEF Of, Uncounted
<1>5. Of(T)' = IF factory.connection.type \in T THEN Of(T) \cup {s} ELSE Of(T)
  <2>1. \A t \in Sessions : t \in Of(T)' <=> t \in Of(T) \/ (t = s /\ factory.connection.type \in T)
    BY <1>1, <1>2 DEF Of, Uncounted
  <2>2. Of(T)' \subseteq Sessions
    BY DEF Of, Uncounted
  <2> HIDE DEF s
  <2> QED BY <1>1, <1>4, <2>1, <2>2
<1>6. Cardinality(Of(T) \cup {s}) = Cardinality(Of(T)) + 1
  <2> HIDE DEF s
  <2> QED BY <1>4, SetFacts
<1> QED BY <1>3, <1>5, <1>6

\* A step that keeps the connections keeps the sessions of every type.
LEMMA OfKept ==
    ASSUME HubTypes, NEW T,
           \/ CountAddress \/ CountConnection \/ SweepStep
           \/ \E s \in Sessions : SessionStops(s) \/ UncountAddress(s)
    PROVE  Of(T)' = Of(T)
<1>1. CASE CountAddress \/ CountConnection
  BY <1>1 DEF CountAddress, CountConnection, sessions, Of, Uncounted
<1>2. CASE SweepStep
  <2> PICK idle \in SUBSET nodes : Sweep(idle)
    BY <1>2 DEF SweepStep
  <2>1. \A t \in Sessions : t \in Of(T)' <=> t \in Of(T)
    BY SweepSessions DEF Of, Uncounted, NoSession, Erasable
  <2> QED BY <2>1 DEF Of, Uncounted
<1>3. ASSUME NEW s \in Sessions, SessionStops(s) \/ UncountAddress(s) PROVE Of(T)' = Of(T)
  <2>1. \A t \in Sessions : t \in Of(T)' <=> t \in Of(T)
    BY <1>3, StrandSessions DEF Of, Uncounted
  <2> QED BY <2>1 DEF Of, Uncounted
<1> QED BY <1>1, <1>2, <1>3

\* A session whose end was reported is one less of its type.
LEMMA OfUncounted ==
    ASSUME HubTypes, NEW T, NEW s \in Sessions, UncountConnection(s)
    PROVE  IF session[s].connection.type \in T
           THEN Cardinality(Of(T))' = Cardinality(Of(T)) - 1 /\ Cardinality(Of(T)) > 0
           ELSE Of(T)' = Of(T)
<1>1. s \in Of(T) <=> session[s].connection.type \in T
  BY StrandSessions DEF Of, Uncounted
<1>2. \A t \in Sessions : t \in Of(T)' <=> t \in Of(T) /\ t # s
  BY StrandSessions DEF Of, Uncounted
<1>3. Of(T)' = Of(T) \ {s} /\ Of(T) \subseteq Sessions
  BY <1>2 DEF Of, Uncounted
<1>4. s \in Of(T) => Cardinality(Of(T) \ {s}) = Cardinality(Of(T)) - 1 /\ Cardinality(Of(T)) > 0
  BY <1>3, SetFacts
<1> QED BY <1>1, <1>3, <1>4

\* The sessions of a type fit in a counter.
LEMMA OfRange == ASSUME NEW T PROVE Cardinality(Of(T)) \in 0 .. Width - 2 /\ Due(T) \in {0, 1}
<1>1. Of(T) \in SUBSET Sessions
  BY DEF Of, Uncounted
<1> QED BY <1>1, SetFacts, Room DEF Due

\* A step that moves neither a counter nor the sessions keeps it exact.
LEMMA CounterKept ==
    ASSUME HubTypes, NEW T \in SUBSET Types,
           \/ Aside \/ FactoryCreates \/ CountAddress \/ SweepStep
           \/ \E s \in Sessions : SessionStops(s) \/ UncountAddress(s)
    PROVE  Counter(T)' = Counter(T)
<1>1. CASE Aside
  BY <1>1, OfAside DEF Counter
<1>2. CASE FactoryCreates
  <2>1. Cardinality(Of(T))' - Due(T)' = Cardinality(Of(T)) - Due(T)
    BY <1>2, OfCreated, OfRange
  <2> QED BY <2>1 DEF Counter
<1>3. CASE CountAddress \/ SweepStep \/ \E s \in Sessions : SessionStops(s) \/ UncountAddress(s)
  <2>1. Of(T)' = Of(T)
    BY <1>3, OfKept
  <2>2. Due(T)' = Due(T)
    <3>1. CASE CountAddress
      BY <3>1 DEF CountAddress, Due, Registering, HubTypes, Coroutine
    <3>2. CASE SweepStep
      BY <3>2 DEF SweepStep, Sweep, Due, Registering
    <3>3. CASE \E s \in Sessions : SessionStops(s) \/ UncountAddress(s)
      BY <3>3 DEF SessionStops, UncountAddress, workers, Due, Registering
    <3> QED BY <1>3, <3>1, <3>2, <3>3
  <2> QED BY <2>1, <2>2 DEF Counter
<1> QED BY <1>1, <1>2, <1>3

\* Counting the session that is due keeps a counter exact.
LEMMA CounterIncremented ==
    ASSUME HubTypes, NEW T \in SUBSET Types, CountConnection
    PROVE  Counter(T)' = IF factory.connection.type \in T THEN Inc(Counter(T)) ELSE Counter(T)
<1>1. Of(T)' = Of(T)
  BY OfKept
<1>2. Due(T)' = 0 /\ Due(T) = IF factory.connection.type \in T THEN 1 ELSE 0
  BY DEF CountConnection, Due, Registering, Idle
<1>3. Cardinality(Of(T)) \in 0 .. Width - 2
  BY OfRange
<1>4. Inc(Wrapped(Cardinality(Of(T)) - 1)) = Wrapped(Cardinality(Of(T)))
  <2>1. Cardinality(Of(T)) - 1 \in -1 .. Width - 2 /\ (Cardinality(Of(T)) - 1) + 1 = Cardinality(Of(T))
    BY <1>3, Room
  <2> QED BY <2>1, IncWrapped
<1>5. CASE factory.connection.type \in T
  BY <1>1, <1>2, <1>3, <1>4, <1>5, Room DEF Counter
<1>6. CASE factory.connection.type \notin T
  BY <1>1, <1>2, <1>6 DEF Counter
<1> QED BY <1>5, <1>6

\* Uncounting a session keeps a counter exact.
LEMMA CounterDecremented ==
    ASSUME HubTypes, NEW T \in SUBSET Types, NEW s \in Sessions, UncountConnection(s)
    PROVE  Counter(T)' = DecIf(session[s].connection.type \in T, Counter(T))
<1> DEFINE n == Cardinality(Of(T)) - Due(T)
<1>1. Due(T)' = Due(T)
  BY DEF UncountConnection, workers, Due, Registering
<1>2. Cardinality(Of(T)) \in 0 .. Width - 2 /\ Due(T) \in {0, 1}
  BY OfRange
<1>3. CASE session[s].connection.type \in T
  <2>1. Cardinality(Of(T))' = Cardinality(Of(T)) - 1 /\ Cardinality(Of(T)) > 0
    BY <1>3, OfUncounted
  <2>2. n \in 0 .. Width - 1 /\ Cardinality(Of(T))' - Due(T)' = n - 1
    BY <1>1, <1>2, <2>1, Room
  <2>3. Dec(Wrapped(n)) = Wrapped(n - 1)
    BY <2>2, DecWrapped
  <2> QED BY <1>3, <2>2, <2>3 DEF Counter, DecIf
<1>4. CASE session[s].connection.type \notin T
  BY <1>1, <1>4, OfUncounted DEF Counter, DecIf
<1> QED BY <1>3, <1>4

\* Every step keeps the counters exact, up to the session being registered.
LEMMA NextCounts ==
    ASSUME HubTypes, Known, Counts, Aside \/ Registration \/ SessionStep \/ SweepStep PROVE Counts'
<1>t. Types \in SUBSET Types /\ {"kInbound"} \in SUBSET Types
      /\ Outbounds \in SUBSET Types /\ "kInbound" \notin Outbounds
  BY DEF Types, Outbounds
<1>r. Cardinality(Of(Types)) \in 0 .. Width - 2 /\ max_active_connections \in Nat
  BY OfRange, HubAssumption
<1>1. CASE Aside
  BY <1>1, <1>t, CounterKept, OfAside DEF Counts, Aside, counted
<1>2. CASE FactoryCreates
  <2>0. Counter(Types) = Cardinality(Of(Types))
    <3>1. Due(Types) = 0
      BY <1>2 DEF FactoryCreates, FactoryTakes, Registering, Due
    <3> QED BY <1>r, <3>1 DEF Counter, Wrapped
  <2>1. active < max_active_connections /\ active = Cardinality(Of(Types))
    BY <1>2, <1>r, <2>0 DEF FactoryCreates, size_full, Counts
  <2>2. Cardinality(Of(Types))' <= max_active_connections
    BY <1>2, <1>t, <1>r, <2>1, OfCreated
  <2> QED BY <1>2, <1>t, <2>2, CounterKept DEF Counts, FactoryCreates, counters
<1>3. CASE CountAddress
  BY <1>3, <1>t, CounterKept, OfKept DEF Counts, CountAddress, counters
<1>4. CASE CountConnection
  <2>1. factory.connection.type \in Types
    BY <1>4, FactoryConnection DEF CountConnection
  <2>2. active' = Counter(Types)'
    BY <1>4, <1>t, <2>1, CounterIncremented DEF CountConnection, Counts
  <2>3. inbound' = Counter({"kInbound"})' /\ outbound' = Counter(Outbounds)'
    BY <1>4, <1>t, <2>1, CounterIncremented DEF CountConnection, Counts
  <2> QED BY <1>4, <1>t, <2>2, <2>3, OfKept DEF Counts
<1>5. ASSUME NEW s \in Sessions, SessionStops(s) \/ UncountAddress(s) PROVE Counts'
  BY Zenon, <1>5, <1>t, CounterKept, OfKept DEF Counts, SessionStops, UncountAddress, counters
<1>6. ASSUME NEW s \in Sessions, UncountConnection(s) PROVE Counts'
  <2>1. session[s].connection.type \in Types
    <3>1. session[s].connection \in Connection
      BY <1>6 DEF UncountConnection, Known
    <3> QED BY <3>1 DEF Connection, Types
  <2>2. active' = Counter(Types)'
    BY Zenon, <1>6, <1>t, <2>1, CounterDecremented DEF UncountConnection, Counts, DecIf
  <2>3. inbound' = Counter({"kInbound"})' /\ outbound' = Counter(Outbounds)'
    BY ZenonT(30), <1>6, <1>t, <2>1, CounterDecremented DEF UncountConnection, Counts, DecIf
  <2>4. Cardinality(Of(Types))' <= max_active_connections
    BY <1>6, <1>r, <2>1, OfUncounted DEF Counts
  <2> QED BY <2>2, <2>3, <2>4 DEF Counts
<1>7. CASE SweepStep
  BY <1>7, <1>t, CounterKept, OfKept DEF Counts, SweepStep, Sweep, counters
<1> QED BY <1>1, <1>2, <1>3, <1>4, <1>5, <1>6, <1>7 DEF Registration, SessionStep

-----------------------------------------------------------------------------
(* The connections of an address.                                            *)

\* Every step keeps the count of every address above its sessions.
LEMMA NextAddressCounts ==
    ASSUME HubTypes, Known, AddressCounts, Aside \/ Registration \/ SessionStep \/ SweepStep
    PROVE  AddressCounts'
<1> SUFFICES ASSUME NEW a \in Addresses PROVE connected'[a] + DueAt(a)' >= Cardinality(At(a))'
  BY DEF AddressCounts
<1>i. connected[a] \in Nat /\ connected[a] + DueAt(a) >= Cardinality(At(a)) /\ DueAt(a) \in {0, 1}
  BY DEF AddressCounts, HubTypes, DueAt
<1>s. At(a) \in SUBSET Sessions /\ Cardinality(At(a)) \in Nat
  <2>1. At(a) \in SUBSET Sessions
    BY DEF At, Live
  <2> QED BY <2>1, SetFacts
<1>1. CASE Aside
  <2>1. At(a)' = At(a) /\ DueAt(a)' = DueAt(a) /\ connected' = connected
    BY <1>1 DEF Aside, counted, At, Live, DueAt, Registering
  <2> QED BY <1>i, <2>1
<1>2. CASE FactoryCreates
  <2> DEFINE s == factory'.session
  <2>1. s \in Sessions /\ session[s].phase = "free"
        /\ factory'.pc = "address" /\ factory'.connection = factory.connection
        /\ factory.pc = "create"
    BY <1>2, CreatedSession
  <2>2. session'[s] = [connection |-> factory.connection, phase |-> "kStarted"]
        /\ \A t \in Sessions : t # s => session'[t] = session[t]
    BY <1>2, CreatedSession
  <2>3. connected' = connected /\ DueAt(a) = 0 /\ DueAt(a)' = IF factory.connection.address = a THEN 1 ELSE 0
    BY <1>2, <2>1 DEF FactoryCreates, DueAt
  <2>4. s \notin At(a) /\ \A t \in Sessions : t \in At(a)' <=> t \in At(a) \/ (t = s /\ factory.connection.address = a)
    BY <2>1, <2>2 DEF At, Live
  <2>5. At(a)' = IF factory.connection.address = a THEN At(a) \cup {s} ELSE At(a)
    <3>1. At(a)' \subseteq Sessions
      BY DEF At, Live
    <3> HIDE DEF s
    <3> QED BY <1>s, <2>1, <2>4, <3>1
  <2>6. Cardinality(At(a) \cup {s}) = Cardinality(At(a)) + 1
    <3> HIDE DEF s
    <3> QED BY <1>s, <2>4, SetFacts
  <2> QED BY <1>i, <1>s, <2>3, <2>5, <2>6
<1>3. CASE CountAddress
  <2>1. At(a)' = At(a)
    BY <1>3 DEF CountAddress, sessions, At, Live
  <2>2. DueAt(a)' = 0 /\ DueAt(a) = IF factory.connection.address = a THEN 1 ELSE 0
    BY <1>3 DEF CountAddress, DueAt, HubTypes, Coroutine
  <2>3. connected'[a] = IF factory.connection.address = a THEN connected[a] + 1 ELSE connected[a]
    BY <1>3 DEF CountAddress, HubTypes
  <2> QED BY <1>i, <1>s, <2>1, <2>2, <2>3
<1>4. CASE CountConnection
  <2>1. At(a)' = At(a) /\ connected' = connected /\ DueAt(a)' = DueAt(a)
    BY <1>4 DEF CountConnection, At, Live, DueAt, Idle
  <2> QED BY <1>i, <2>1
<1>5. ASSUME NEW s \in Sessions, SessionStops(s) \/ UncountConnection(s)
      PROVE connected'[a] + DueAt(a)' >= Cardinality(At(a))'
  <2>1. \A t \in Sessions : t \in At(a)' <=> t \in At(a)
    BY <1>5, StrandSessions DEF At, Live
  <2>2. At(a)' = At(a)
    BY <2>1 DEF At, Live
  <2>3. connected' = connected /\ DueAt(a)' = DueAt(a)
    BY <1>5 DEF SessionStops, UncountConnection, workers, DueAt
  <2> QED BY <1>i, <2>2, <2>3
<1>6. ASSUME NEW s \in Sessions, UncountAddress(s) PROVE connected'[a] + DueAt(a)' >= Cardinality(At(a))'
  <2>1. DueAt(a)' = DueAt(a)
    BY <1>6 DEF UncountAddress, workers, DueAt
  <2>2. connected'[a] = IF session[s].connection.address = a /\ connected[a] # 0 THEN connected[a] - 1 ELSE connected[a]
    BY <1>6 DEF UncountAddress, HubTypes
  <2>3. \A t \in Sessions : t \in At(a)' <=> t \in At(a) /\ t # s
    BY <1>6, StrandSessions DEF At, Live
  <2>4. At(a)' = At(a) \ {s} /\ (s \in At(a) <=> session[s].connection.address = a)
    BY <1>6, <2>3, StrandSessions DEF At, Live
  <2>5. CASE session[s].connection.address = a
    <3>1. Cardinality(At(a))' = Cardinality(At(a)) - 1
      BY <1>s, <2>4, <2>5, SetFacts
    <3> QED BY <1>i, <1>s, <2>1, <2>2, <2>5, <3>1
  <2>6. CASE session[s].connection.address # a
    <3>1. At(a)' = At(a)
      BY <2>4, <2>6
    <3> QED BY <1>i, <2>1, <2>2, <2>6, <3>1
  <2> QED BY <2>5, <2>6
<1>7. CASE SweepStep
  <2> PICK idle \in SUBSET nodes : Sweep(idle)
    BY <1>7 DEF SweepStep
  <2>1. \A t \in Sessions : t \in At(a)' <=> t \in At(a)
    BY SweepSessions DEF At, Live, NoSession, Erasable
  <2>2. At(a)' = At(a)
    BY <2>1 DEF At, Live
  <2>3. connected' = connected /\ DueAt(a)' = DueAt(a)
    BY DEF Sweep, DueAt
  <2> QED BY <1>i, <2>2, <2>3
<1> QED BY <1>1, <1>2, <1>3, <1>4, <1>5, <1>6, <1>7 DEF Registration, SessionStep

-----------------------------------------------------------------------------
(* The theorems.                                                             *)

\* The hub that was only constructed satisfies the invariant.
LEMMA InitIInv == Init => IInv
<1> SUFFICES ASSUME Init PROVE IInv
  OBVIOUS
<1>1. HubTypes
  BY InitTypes
<1>2. Dormant /\ Known
  BY DEF Init, Dormant, Known, Registering, Ended, NoSession
<1>3. \A T : Of(T) = {} /\ Due(T) = 0
  BY DEF Init, Of, Uncounted, Due, Registering, Ended, NoSession
<1>4. Counts
  <2>1. \A T : Counter(T) = 0 /\ Cardinality(Of(T)) = 0
    BY <1>3, FS_EmptySet DEF Counter, Wrapped
  <2> QED BY <2>1, HubAssumption DEF Init, Counts
<1>5. AddressCounts
  <2>1. \A a \in Addresses : At(a) = {} /\ DueAt(a) = 0 /\ connected[a] = 0
    BY DEF Init, At, Live, DueAt, Ended, NoSession
  <2> QED BY <2>1, FS_EmptySet DEF AddressCounts
<1> QED BY <1>1, <1>2, <1>4, <1>5 DEF IInv

\* Every step of the hub preserves the invariant.
LEMMA NextIInv == IInv /\ [Next]_vars => IInv'
  BY NextTypes, NextDormant, StepKinds, NextKnown, NextCounts, NextAddressCounts DEF IInv

\* The inductive invariant of the hub, from NodeHub::start (node_hub.cpp:39) to the end of stop.
THEOREM HubInvariant == Spec => []IInv
  BY InitIInv, NextIInv, PTL DEF Spec

\* settings.hpp, max_active_connections: the hub never has more connected sessions than allowed, however
\* the acceptor, the connector and the ends of sessions interleave with the factory's check.
THEOREM NeverTooMany == Spec => []MaxActive
<1>1. IInv => MaxActive
  <2> SUFFICES ASSUME IInv PROVE MaxActive
    OBVIOUS
  <2>1. Live \subseteq Of(Types) /\ Of(Types) \in SUBSET Sessions
    <3>1. \A s \in Live : session[s].connection \in Connection
      BY DEF Live, IInv, Known
    <3> QED BY <3>1 DEF Live, Of, Uncounted, Connection, Types
  <2>2. Cardinality(Live) \in Nat /\ Cardinality(Live) <= Cardinality(Of(Types)) /\ Cardinality(Of(Types)) \in Nat
    <3>1. Live \in SUBSET Sessions
      BY DEF Live
    <3> QED BY <2>1, <3>1, SetFacts
  <2> QED BY <2>2, HubAssumption DEF IInv, Counts, MaxActive
<1> QED BY <1>1, HubInvariant, PTL

\* node_hub.cpp 588-602 and 625-639: outside of a registration the three counters are exact, although a
\* session may be discounted before it is counted.
THEOREM CountersAreExact == Spec => []CountersExact
<1>1. IInv => CountersExact
  <2> SUFFICES ASSUME IInv, ~Registering PROVE CountersExact
    BY DEF CountersExact
  <2>1. \A T : Cardinality(Of(T)) \in 0 .. Width - 2 /\ Due(T) = 0
    BY OfRange DEF Due
  <2>2. \A T : Counter(T) = Cardinality(Of(T))
    BY <2>1 DEF Counter, Wrapped
  <2>3. Of(Types) = Uncounted
    <3>1. \A s \in Uncounted : session[s].connection \in Connection
      BY DEF Uncounted, IInv, Known
    <3> QED BY <3>1 DEF Of, Connection, Types
  <2>4. Of({"kInbound"}) = {s \in Uncounted : session[s].connection.type = "kInbound"}
    BY DEF Of
  <2> QED BY <2>2, <2>3, <2>4 DEF IInv, Counts, CountersExact, Of
<1> QED BY <1>1, HubInvariant, PTL

\* node_hub.cpp 585 and 617-622: outside of a registration the count of an address is never too small.
THEOREM AddressesAreCovered == Spec => []AddressesCovered
<1>1. IInv => AddressesCovered
  <2> SUFFICES ASSUME IInv, ~Registering, NEW a \in Addresses
               PROVE  connected[a] >= Cardinality(At(a))
    BY DEF AddressesCovered, At
  <2> QED BY DEF IInv, AddressCounts, DueAt, Registering, HubTypes
<1> QED BY <1>1, HubInvariant, PTL

-----------------------------------------------------------------------------
(* The sessions' side of the contract.                                       *)

\* Every identity is new in the contract when the hub is constructed.
LEMMA ContractInit == Init => \A s \in Sessions : Contract(s)!Init
<1> SUFFICES ASSUME Init, NEW s \in Sessions PROVE Contract(s)!Init
  OBVIOUS
<1>1. Phase(s) = "new"
  BY DEF Init, Phase, NoSession
<1>2. Pending(s) = 0
  <2>1. {i \in DOMAIN requests : requests[i] = s} = {}
    BY DEF Init
  <2> QED BY <2>1, FS_EmptySet DEF Pending
<1> QED BY <1>1, <1>2 DEF Contract!Init

ContractStep(s) == Contract(s)!Next \/ UNCHANGED Contract(s)!vars

\* What a step has to do with the sessions and their requests.
LEMMA ContractKinds ==
    [Next]_vars => \/ UNCHANGED <<session, requests>>
                   \/ UNCHANGED requests /\ (FactoryCreates \/ SessionStep \/ SweepStep)
                   \/ UNCHANGED session /\ (ProcessorReceives \/ \E s \in Sessions : on_node_received_message(s))
<1> SUFFICES ASSUME [Next]_vars, ~FactoryCreates, ~SessionStep, ~SweepStep, ~ProcessorReceives,
                    ~\E s \in Sessions : on_node_received_message(s)
             PROVE  UNCHANGED <<session, requests>>
  BY Zenon DEF FactoryCreates, SessionStep, SessionStops, UncountAddress, UncountConnection, SweepStep, Sweep, queues,
         ProcessorReceives, on_node_received_message, sessions
<1>1. CASE Start \/ StartFails \/ Stop
  BY <1>1 DEF Start, StartFails, Stop, queues, sessions
<1>2. CASE Factory
  BY <1>2 DEF Factory, FactoryReceives, FactoryEnds, FactoryRejects, FactoryFails, CountAddress, CountConnection,
              queues, sessions
<1>3. CASE Connector \/ Acceptor \/ Selector
  BY ZenonT(30), <1>3 DEF Connector, ConnectorReceives, ConnectorEnds, ConnectFails, ConnectSucceeds, Acceptor, Accept,
              Selector, SelectorWakes, SelectorDraws, SelectorFindsNone, queues, sessions
<1>4. CASE Ask \/ Stopping \/ UNCHANGED vars
  BY <1>4 DEF Ask, Stopping, Wait, WaitTimesOut, WakesSpuriously, StopReturns, vars, queues, sessions
<1> QED
  BY Zenon, <1>1, <1>2, <1>3, <1>4
  DEF Next, Processor, ProcessAddr, ProcessGetAddr, Tick, Strand, SessionStep, SweepStep

\* The positions of an element, and their number.
In(q, x) == {i \in DOMAIN q : q[i] = x}
Count(q, x) == Cardinality(In(q, x))

\* An element stands in a queue a finite number of times.
LEMMA CountType == ASSUME NEW S, NEW q \in Seq(S), NEW x PROVE IsFiniteSet(In(q, x)) /\ Count(q, x) \in Nat
<1>1. In(q, x) \subseteq 1 .. Len(q) /\ Len(q) \in Nat
  BY DEF In
<1>2. IsFiniteSet(1 .. Len(q))
  BY <1>1, FS_Interval
<1> QED BY <1>1, <1>2, FS_Subset, FS_CardinalityType DEF Count

\* Adding to the end of a queue counts the element added.
LEMMA CountAppended ==
    ASSUME NEW S, NEW q \in Seq(S), NEW e \in S, NEW x
    PROVE  Count(Append(q, e), x) = IF e = x THEN Count(q, x) + 1 ELSE Count(q, x)
<1>1. In(Append(q, e), x) = IF e = x THEN In(q, x) \cup {Len(q) + 1} ELSE In(q, x)
  BY DEF In
<1>2. Len(q) + 1 \notin In(q, x)
  BY DEF In
<1> QED BY Zenon, <1>1, <1>2, CountType, FS_AddElement DEF Count

\* Taking the head of a queue uncounts it.
LEMMA CountTail ==
    ASSUME NEW S, NEW q \in Seq(S), q # <<>>, NEW x
    PROVE  Count(q, x) = IF Head(q) = x THEN Count(Tail(q), x) + 1 ELSE Count(Tail(q), x)
<1> DEFINE R == In(q, x) \ {1}
<1> DEFINE f == [i \in In(Tail(q), x) |-> i + 1]
<1>1. Tail(q) \in Seq(S) /\ Len(q) \in Nat /\ Len(q) > 0 /\ Len(Tail(q)) = Len(q) - 1 /\ q[1] = Head(q)
      /\ \A i \in 1 .. Len(q) - 1 : Tail(q)[i] = q[i + 1]
  OBVIOUS
<1>2. f \in Bijection(In(Tail(q), x), R)
  <2>1. \A i \in In(Tail(q), x) : i \in Nat /\ i + 1 \in R
    BY <1>1 DEF In
  <2>2. \A j \in R : j \in Nat /\ j - 1 \in In(Tail(q), x)
    BY <1>1 DEF In
  <2>3. f \in [In(Tail(q), x) -> R]
    BY <2>1
  <2>4. \A i, j \in In(Tail(q), x) : f[i] = f[j] => i = j
    BY <2>1
  <2>5. \A j \in R : \E i \in In(Tail(q), x) : f[i] = j
    <3> SUFFICES ASSUME NEW j \in R PROVE \E i \in In(Tail(q), x) : f[i] = j
      OBVIOUS
    <3>1. j - 1 \in In(Tail(q), x) /\ (j - 1) + 1 = j
      BY <2>2
    <3> QED BY <3>1
  <2> QED BY <2>3, <2>4, <2>5 DEF Bijection, Injection, Surjection, IsInjective
<1>3. Cardinality(R) = Cardinality(In(Tail(q), x))
  <2>1. ExistsBijection(In(Tail(q), x), R)
    BY Zenon, <1>2 DEF ExistsBijection
  <2>2. IsFiniteSet(In(Tail(q), x)) /\ IsFiniteSet(R)
    BY Zenon, <1>1, CountType, FS_RemoveElement
  <2> QED BY <2>1, <2>2, FS_Bijection
<1>4. 1 \in In(q, x) <=> Head(q) = x
  BY <1>1 DEF In
<1>5. Cardinality(R) = IF 1 \in In(q, x) THEN Cardinality(In(q, x)) - 1 ELSE Cardinality(In(q, x))
  BY Zenon, CountType, FS_RemoveElement
<1> QED BY <1>1, <1>3, <1>4, <1>5, CountType DEF Count

\* The requests of a session that are queued are a number.
LEMMA PendingFacts == ASSUME HubTypes, NEW t PROVE Pending(t) = Count(requests, t) /\ Pending(t) \in Nat
<1>1. Pending(t) = Count(requests, t)
  BY DEF Pending, Count, In
<1> QED BY <1>1, CountType DEF HubTypes

\* A session whose phase and requests stay stutters; one whose requests stay moves with its phase.
LEMMA PhaseStep ==
    ASSUME UNCHANGED requests, NEW t \in Sessions,
           \/ session'[t].phase = session[t].phase
           \/ session[t].phase = "free" /\ session'[t].phase = "kStarted"
           \/ session[t].phase = "kStarted" /\ session'[t].phase = "kStopping"
           \/ session[t].phase = "kStopping" /\ session'[t].phase = "closed"
           \/ session[t].phase = "closed" /\ session'[t].phase = "kNotStarted"
           \/ session[t].phase = "kNotStarted" /\ session'[t].phase = "free" /\ Pending(t) = 0
    PROVE  ContractStep(t)
<1>1. Pending(t)' = Pending(t)
  BY DEF Pending
<1>2. \/ Phase(t)' = Phase(t)
      \/ Phase(t) = "new" /\ Phase(t)' = "running"
      \/ Phase(t) = "running" /\ Phase(t)' = "stopping"
      \/ Phase(t) = "stopping" /\ Phase(t)' = "ended"
      \/ Phase(t) = "ended" /\ Phase(t)' = "new" /\ Pending(t) = 0
  BY DEF Phase
<1> QED BY <1>1, <1>2 DEF ContractStep, Contract!Next, Contract!Start, Contract!Stop, Contract!End,
                          Contract!Drop, Contract!vars

\* Every step of the hub is a step of the contract of each session, or none.
LEMMA ContractNext == ASSUME HubTypes, [Next]_vars, NEW t \in Sessions PROVE ContractStep(t)
<1>1. CASE UNCHANGED <<session, requests>>
  BY <1>1, PhaseStep
<1>2. CASE UNCHANGED requests /\ FactoryCreates
  <2>1. session'[t] = session[t] \/ (session[t].phase = "free" /\ session'[t].phase = "kStarted")
    BY <1>2, CreatedSession
  <2> QED BY <1>2, <2>1, PhaseStep
<1>3. CASE UNCHANGED requests /\ SessionStep
  <2> PICK s \in Sessions : SessionStops(s) \/ UncountAddress(s) \/ UncountConnection(s)
    BY <1>3 DEF SessionStep
  <2>1. \/ session'[t] = session[t]
        \/ session[t].phase = "kStarted" /\ session'[t].phase = "kStopping"
        \/ session[t].phase = "kStopping" /\ session'[t].phase = "closed"
        \/ session[t].phase = "closed" /\ session'[t].phase = "kNotStarted"
    BY StrandSessions
  <2> QED BY <1>3, <2>1, PhaseStep
<1>4. CASE UNCHANGED requests /\ SweepStep
  <2> PICK idle \in SUBSET nodes : Sweep(idle)
    BY <1>4 DEF SweepStep
  <2>1. \/ session'[t] = session[t]
        \/ t \in Erasable /\ session'[t] = NoSession
        \/ session[t].phase = "kStarted" /\ session'[t].phase = "kStopping"
    BY SweepSessions
  <2>2. t \in Erasable => session[t].phase = "kNotStarted" /\ Pending(t) = 0
    <3>1. t \in Erasable => {i \in DOMAIN requests : requests[i] = t} = {}
      BY DEF Erasable, Unreferenced
    <3> QED BY <3>1, FS_EmptySet DEF Erasable, Pending
  <2>3. NoSession.phase = "free"
    BY DEF NoSession
  <2> QED BY <1>4, <2>1, <2>2, <2>3, PhaseStep
<1>5. CASE UNCHANGED session /\ ProcessorReceives
  <2>1. requests \in Seq(Sessions) /\ requests # <<>> /\ requests' = Tail(requests)
    BY <1>5 DEF HubTypes, ProcessorReceives
  <2>2. Phase(t)' = Phase(t)
    BY <1>5 DEF Phase
  <2>3. Pending(t)' = Count(Tail(requests), t) /\ Pending(t)' \in Nat
    <3>1. Pending(t)' = Count(Tail(requests), t)
      BY <2>1 DEF Pending, Count, In
    <3> QED BY ZenonT(30), <2>1, <3>1, TailTypes, CountType
  <2>4. Pending(t) = IF Head(requests) = t THEN Pending(t)' + 1 ELSE Pending(t)'
    BY <2>1, <2>3, CountTail, PendingFacts
  <2> QED BY <2>2, <2>3, <2>4 DEF ContractStep, Contract!Next, Contract!Process, Contract!vars
<1>6. CASE UNCHANGED session /\ \E s \in Sessions : on_node_received_message(s)
  <2> PICK s \in Sessions : on_node_received_message(s)
    BY <1>6
  <2>1. CASE UNCHANGED requests
    BY <1>6, <2>1, PhaseStep
  <2>2. CASE requests' = Append(requests, s)
    <3>1. Phase(t)' = Phase(t) /\ Phase(s) = "running"
      BY <1>6 DEF Phase, on_node_received_message
    <3>2. Pending(t)' = Count(Append(requests, s), t)
      BY <2>2 DEF Pending, Count, In
    <3>3. Pending(t)' = IF s = t THEN Pending(t) + 1 ELSE Pending(t)
      BY <3>2, CountAppended, PendingFacts DEF HubTypes
    <3> QED BY <3>1, <3>3 DEF ContractStep, Contract!Next, Contract!Request, Contract!vars
  <2> QED BY <2>1, <2>2 DEF on_node_received_message
<1> QED BY <1>1, <1>2, <1>3, <1>4, <1>5, <1>6, ContractKinds

\* node_hub.cpp:433: the hub implements SessionContract for every session at once: it starts an
\* identity only once, hears of its end once, and gives it to another session only when the end was reported
\* and no queued request refers to it.
THEOREM HubKeepsContracts == Spec => KeepsContracts
<1>1. HubTypes /\ [Next]_vars => [\A s \in Sessions : Contract(s)!Next \/ UNCHANGED Contract(s)!vars]_vars
  BY ContractNext DEF ContractStep
<1>2. IInv => HubTypes
  BY DEF IInv
<1> QED BY <1>1, <1>2, ContractInit, HubInvariant, PTL DEF Spec, KeepsContracts

-----------------------------------------------------------------------------
(* The connections that the timer asked for.                                 *)

\* The types of the connections in a queue.
TypesOf(q) == [i \in DOMAIN q |-> q[i].type]

\* Counting the outbound connections of a queue is counting a value in the queue of their types.
LEMMA TypesQueue ==
    ASSUME NEW q \in Seq(Connection)
    PROVE  TypesOf(q) \in Seq(Types) /\ OutboundsIn(q) = Count(TypesOf(q), "kOutbound") /\ OutboundsIn(q) \in Nat
<1>1. \A c \in Connection : c.type \in Types
  BY DEF Connection, Types
<1>2. TypesOf(q) \in Seq(Types)
  BY <1>1 DEF TypesOf
<1>3. In(TypesOf(q), "kOutbound") = {i \in DOMAIN q : q[i].type = "kOutbound"}
  BY DEF In, TypesOf
<1> QED BY Zenon, <1>2, <1>3, CountType DEF OutboundsIn, Count

\* What the two ends of a queue do to the number of its outbound connections.
LEMMA OutboundsAppended ==
    ASSUME NEW q \in Seq(Connection), NEW c \in Connection
    PROVE  OutboundsIn(Append(q, c)) = IF c.type = "kOutbound" THEN OutboundsIn(q) + 1 ELSE OutboundsIn(q)
<1>1. c.type \in Types
  BY DEF Connection, Types
<1>2. TypesOf(Append(q, c)) = Append(TypesOf(q), c.type)
  BY DEF TypesOf
<1>3. Append(q, c) \in Seq(Connection)
  OBVIOUS
<1>4. OutboundsIn(Append(q, c)) = Count(Append(TypesOf(q), c.type), "kOutbound")
  BY Zenon, <1>2, <1>3, TypesQueue
<1>5. TypesOf(q) \in Seq(Types) /\ OutboundsIn(q) = Count(TypesOf(q), "kOutbound")
  BY TypesQueue
<1>6. Count(Append(TypesOf(q), c.type), "kOutbound")
        = IF c.type = "kOutbound" THEN Count(TypesOf(q), "kOutbound") + 1 ELSE Count(TypesOf(q), "kOutbound")
  BY <1>1, <1>5, CountAppended
<1> QED BY <1>4, <1>5, <1>6

\* Taking the head of a queue.
LEMMA OutboundsTail ==
    ASSUME NEW q \in Seq(Connection), q # <<>>
    PROVE  OutboundsIn(q) = IF Head(q).type = "kOutbound" THEN OutboundsIn(Tail(q)) + 1 ELSE OutboundsIn(Tail(q))
<1>1. Tail(q) \in Seq(Connection) /\ TypesOf(q) \in Seq(Types)
  BY TypesQueue
<1>2. TypesOf(Tail(q)) = Tail(TypesOf(q)) /\ TypesOf(q) # <<>> /\ Head(TypesOf(q)) = Head(q).type
  BY DEF TypesOf
<1> QED BY Zenon, <1>1, <1>2, TypesQueue, CountTail

\* A queue of nothing but outbound connections.
LEMMA OutboundsAll ==
    ASSUME NEW q \in Seq(Connection), \A i \in DOMAIN q : q[i].type = "kOutbound"
    PROVE  OutboundsIn(q) = Len(q)
<1>1. {i \in DOMAIN q : q[i].type = "kOutbound"} = 1 .. Len(q)
  OBVIOUS
<1>2. Cardinality(1 .. Len(q)) = Len(q)
  <2> DEFINE n == Len(q)
  <2>1. n \in Nat
    OBVIOUS
  <2> HIDE DEF n
  <2>2. Cardinality(1 .. n) = IF 1 > n THEN 0 ELSE n - 1 + 1
    BY <2>1, FS_Interval
  <2>3. Cardinality(1 .. n) = n
    BY <2>1, <2>2
  <2> QED BY <2>3 DEF n
<1> QED BY Zenon, <1>1, <1>2 DEF OutboundsIn

\* An empty queue.
LEMMA OutboundsNone == OutboundsIn(<<>>) = 0
<1>1. {i \in DOMAIN <<>> : <<>>[i].type = "kOutbound"} = {}
  OBVIOUS
<1> QED BY <1>1, FS_EmptySet DEF OutboundsIn

\* The places where a connection that was asked for may be are counted by numbers.
LEMMA Parts ==
    ASSUME HubTypes, Needs
    PROVE  /\ feed.connector \in Seq(Connection) /\ feed.factory \in Seq(Connection)
           /\ selector.todo \in Nat /\ OutboundsIn(feed.connector) \in Nat /\ OutboundsIn(feed.factory) \in Nat
           /\ Holds(connector, {"connect"}) \in {0, 1} /\ Holds(factory, {"create"}) \in {0, 1}
<1>1. feed.connector \in Seq(Connection) /\ feed.factory \in Seq(Connection)
  BY DEF HubTypes
<1> QED BY <1>1, TypesQueue DEF Needs, Holds

\* -- of a counter that is not zero.
LEMMA DecPositive == ASSUME NEW n \in 1 .. Width - 1 PROVE Dec(n) = n - 1
  BY HubAssumption, ModOver DEF Dec

\* Nothing but start changes what a hub that has not been started waits for.
LEMMA NextQuiet == Quiet /\ [Next]_vars => Quiet'
<1> SUFFICES ASSUME Quiet, [Next]_vars, status' = "kNotStarted", stopping' = "no"
             PROVE  UNCHANGED <<feed, need, needed, selector, connector, factory, ticker, status, stopping>>
  BY Zenon DEF Quiet
<1>1. status = "kNotStarted" /\ stopping = "no"
  BY Zenon DEF Next, Start, StartFails, Stop, Factory, FactoryReceives, FactoryEnds, FactoryRejects, FactoryFails,
         FactoryCreates, CountAddress, CountConnection, Connector, ConnectorReceives, ConnectorEnds, ConnectFails,
         ConnectSucceeds, Acceptor, Accept, Selector, SelectorWakes, SelectorDraws, SelectorFindsNone, Processor,
         ProcessorReceives, ProcessAddr, ProcessGetAddr, Tick, Sweep, Ask, Stopping, Wait, WaitTimesOut,
         WakesSpuriously, StopReturns, SessionStops, Strand, UncountAddress, UncountConnection,
         on_node_received_message, vars, control
<1>2. factory.pc = "ended" /\ connector.pc = "ended" /\ ticker = "off" /\ selector.todo = 0 /\ ~is_running /\ ~is_open
  BY <1>1 DEF Quiet, is_running, is_open
<1>3. CASE Start \/ StartFails \/ Stop \/ Stopping
  BY <1>1, <1>2, <1>3 DEF Start, StartFails, Stop, Stopping, Wait, WaitTimesOut, WakesSpuriously, StopReturns
<1>4. CASE Factory
  BY <1>2, <1>4 DEF Factory, FactoryReceives, FactoryEnds, FactoryRejects, FactoryFails, FactoryTakes, FactoryCreates,
                    CountAddress, CountConnection
<1>5. CASE Connector \/ Acceptor \/ Selector
  BY <1>2, <1>5 DEF Connector, ConnectorReceives, ConnectorEnds, ConnectFails, ConnectSucceeds, Acceptor, Accept,
                    Selector, SelectorWakes, SelectorDraws, SelectorFindsNone
<1>6. CASE Processor \/ Tick
  BY Zenon, <1>1, <1>2, <1>6 DEF Processor, ProcessorReceives, ProcessAddr, ProcessGetAddr, Tick, Sweep, Ask, workers
<1>7. CASE \E s \in Sessions : SessionStops(s) \/ Strand(s) \/ on_node_received_message(s)
  BY <1>1, <1>7 DEF SessionStops, Strand, UncountAddress, UncountConnection, on_node_received_message, control,
     workers, queues
<1>8. CASE UNCHANGED vars
  BY <1>8 DEF vars, control, workers, queues
<1> QED BY <1>3, <1>4, <1>5, <1>6, <1>7, <1>8 DEF Next

\* What is on its way stays where it is, and so does its count.
OnItsWay == <<status, fed, selector, feed, connector, need, needed>>
Passing == UNCHANGED OnItsWay /\ (factory' = factory \/ (factory.pc # "create" /\ factory'.pc # "create"))

\* The steps that move a connection on its way from the timer to the factory.
Moving ==
    \/ FactoryReceives
    \/ (FactoryTakes /\ factory'.pc # "create" /\ UNCHANGED <<status, fed, selector, feed, connector, need>>)
    \/ ConnectorReceives \/ ConnectFails \/ ConnectSucceeds \/ Acceptor \/ Selector \/ Ask

\* Every step of a running hub moves one, or leaves all of them, or starts or ends the hub.
LEMMA NeedKinds ==
    HubTypes /\ [Next]_vars => Passing \/ Moving \/ Start \/ StartFails \/ ~is_running'
<1> SUFFICES ASSUME HubTypes, [Next]_vars, ~Moving, ~Start, ~StartFails, is_running' PROVE Passing
  OBVIOUS
<1> USE DEF is_running, is_open
<1>1. CASE Stop \/ Stopping
  BY <1>1 DEF Stop, Stopping, Wait, WaitTimesOut, WakesSpuriously, StopReturns, Passing, OnItsWay, workers, queues
<1>2. CASE FactoryEnds \/ CountAddress \/ CountConnection
  <2>1. CountAddress => factory'.pc = "count"
    BY DEF CountAddress, HubTypes, Coroutine
  <2> QED BY <1>2, <2>1 DEF FactoryEnds, CountAddress, CountConnection, Passing, OnItsWay, control, queues, Idle
<1>7. CASE FactoryRejects \/ FactoryFails
  BY <1>7 DEF FactoryRejects, FactoryFails, Moving, control, queues, Idle, Ended
<1>8. CASE FactoryCreates
  BY <1>8 DEF FactoryCreates, Moving, control, queues
<1>3. CASE Connector \/ Acceptor \/ Selector \/ Ask
  BY <1>3 DEF Connector, ConnectorEnds, Moving, control
<1>4. CASE Processor \/ \E idle \in SUBSET nodes : Sweep(idle)
  BY ZenonT(30), <1>4 DEF Processor, ProcessorReceives, ProcessAddr, ProcessGetAddr, Sweep, Passing, OnItsWay, workers, queues
<1>5. CASE \E s \in Sessions : SessionStops(s) \/ Strand(s) \/ on_node_received_message(s)
  BY <1>5 DEF SessionStops, Strand, UncountAddress, UncountConnection, on_node_received_message, control, workers,
     queues,
              Passing, OnItsWay
<1>6. CASE UNCHANGED vars
  BY <1>6 DEF vars, control, workers, queues, Passing, OnItsWay
<1> QED BY <1>1, <1>2, <1>3, <1>4, <1>5, <1>6, <1>7, <1>8 DEF Next, Tick, Factory, Moving

\* One connection given up, or taken by the factory, is one less that is being established and one less needed.
LEMMA OneLess ==
    ASSUME HubTypes, Needs, is_running, fed = <<>>, UNCHANGED <<need, fed>>,
           Established \in Nat, Established > 0, Established' = Established - 1, needed' = Dec(needed)
    PROVE  /\ ~need /\ needed \in 1 .. Width - 1 /\ needed' = needed - 1 /\ needed' <= min_outgoing_connections
           /\ need' => Established' = 0
           /\ ~need' => Established' = needed'
<1>1. ~need /\ Established = needed /\ needed \in 0 .. Width - 1 /\ needed <= min_outgoing_connections
  BY DEF Needs, Asked
<1>2. needed' = needed - 1
  BY <1>1, DecPositive
<1> QED BY <1>1, <1>2, HubAssumption

\* A step that leaves the number of those being established leaves them counted.
LEMMA AsMany ==
    ASSUME Needs, is_running, fed = <<>>, UNCHANGED <<need, needed>>, Established' = Established
    PROVE  /\ needed' <= min_outgoing_connections
           /\ need' => Established' = 0
           /\ ~need' => Established' = needed'
  BY DEF Needs, Asked

\* The factory's part of the way.
LEMMA FactoryAsked ==
    ASSUME HubTypes, Needs, is_running, fed = <<>>,
           \/ FactoryReceives
           \/ FactoryTakes /\ factory'.pc # "create" /\ UNCHANGED <<status, fed, selector, feed, connector, need>>
    PROVE  Asked'
<1>0. /\ feed.connector \in Seq(Connection) /\ feed.factory \in Seq(Connection)
      /\ selector.todo \in Nat /\ OutboundsIn(feed.connector) \in Nat /\ OutboundsIn(feed.factory) \in Nat
      /\ Holds(connector, {"connect"}) \in {0, 1} /\ Holds(factory, {"create"}) \in {0, 1}
  BY Parts
<1>1. CASE FactoryReceives
  <2>1. /\ feed' = [feed EXCEPT !.factory = Tail(feed.factory)] /\ feed.factory # <<>>
        /\ factory' = [pc |-> "create", connection |-> Head(feed.factory)] /\ factory.pc = "receive"
        /\ UNCHANGED <<fed, selector, connector, need, needed>>
    BY <1>1 DEF FactoryReceives, control
  <2>2. feed'.factory = Tail(feed.factory) /\ feed'.connector = feed.connector
    BY <2>1 DEF HubTypes
  <2>3. /\ Holds(factory, {"create"}) = 0
        /\ Holds(factory, {"create"})' = IF Head(feed.factory).type = "kOutbound" THEN 1 ELSE 0
    BY <2>1 DEF Holds
  <2>4. OutboundsIn(feed.factory) = IF Head(feed.factory).type = "kOutbound"
                                     THEN OutboundsIn(feed'.factory) + 1 ELSE OutboundsIn(feed'.factory)
    BY <1>0, <2>1, <2>2, OutboundsTail
  <2>5. Holds(connector, {"connect"})' = Holds(connector, {"connect"}) /\ OutboundsIn(feed'.factory) \in Nat
    BY ZenonT(30), <1>0, <2>1, <2>2, TailTypes, TypesQueue DEF Holds
  <2>6. Established' = Established
    BY <1>0, <2>1, <2>2, <2>3, <2>4, <2>5 DEF Established
  <2> QED BY <2>1, <2>2, <2>6, AsMany DEF Asked, Needs
<1>2. CASE FactoryTakes /\ factory'.pc # "create" /\ UNCHANGED <<status, fed, selector, feed, connector, need>>
  <2>1. Holds(factory, {"create"})' = 0 /\ Holds(connector, {"connect"})' = Holds(connector, {"connect"})
    BY <1>2 DEF Holds
  <2>2. CASE factory.connection.type = "kOutbound"
    <3>1. Holds(factory, {"create"}) = 1 /\ needed' = Dec(needed)
      BY <1>2, <2>2 DEF Holds, FactoryTakes, DecIf
    <3>2. Established \in Nat /\ Established > 0 /\ Established' = Established - 1
      BY <1>0, <1>2, <2>1, <3>1 DEF Established
    <3> QED BY <1>2, <3>1, <3>2, OneLess DEF Asked, Needs
  <2>3. CASE factory.connection.type # "kOutbound"
    <3>1. Holds(factory, {"create"}) = 0 /\ needed' = needed
      BY <1>2, <2>3 DEF Holds, FactoryTakes, DecIf
    <3>2. Established' = Established
      BY <1>0, <1>2, <2>1, <3>1 DEF Established
    <3> QED BY <1>2, <3>1, <3>2, AsMany DEF Asked, Needs
  <2> QED BY <2>2, <2>3
<1> QED BY <1>1, <1>2

\* A queue of outbound connections only, after the operations of a queue.
LEMMA OnlyOutbound ==
    ASSUME NEW q \in Seq(Connection), \A i \in DOMAIN q : q[i].type = "kOutbound"
    PROVE  /\ q # <<>> => /\ Head(q).type = "kOutbound"
                          /\ \A i \in DOMAIN Tail(q) : Tail(q)[i].type = "kOutbound"
           /\ \A c \in Connection : c.type = "kOutbound" =>
                  \A i \in DOMAIN Append(q, c) : Append(q, c)[i].type = "kOutbound"
<1>1. q # <<>> => Head(q).type = "kOutbound" /\ \A i \in DOMAIN Tail(q) : Tail(q)[i].type = "kOutbound"
  OBVIOUS
<1>2. ASSUME NEW c \in Connection, c.type = "kOutbound", NEW i \in DOMAIN Append(q, c)
      PROVE  Append(q, c)[i].type = "kOutbound"
  <2>1. i \in 1 .. Len(q) + 1 /\ Append(q, c)[i] = IF i \in 1 .. Len(q) THEN q[i] ELSE c
    BY <1>2
  <2> QED BY <1>2, <2>1
<1> QED BY <1>1, <1>2

\* The connector's part of the way.
LEMMA ConnectorAsked ==
    ASSUME HubTypes, Needs, is_running, fed = <<>>, ConnectorReceives \/ ConnectFails \/ ConnectSucceeds
    PROVE  Asked'
<1>0. /\ feed.connector \in Seq(Connection) /\ feed.factory \in Seq(Connection)
      /\ selector.todo \in Nat /\ OutboundsIn(feed.connector) \in Nat /\ OutboundsIn(feed.factory) \in Nat
      /\ Holds(connector, {"connect"}) \in {0, 1} /\ Holds(factory, {"create"}) \in {0, 1}
  BY Parts
<1>a. /\ \A i \in DOMAIN feed.connector : feed.connector[i].type = "kOutbound"
      /\ connector.pc = "connect" => connector.connection.type = "kOutbound"
  BY DEF Needs, Asked
<1>f. UNCHANGED <<fed, selector, factory, need>> /\ Holds(factory, {"create"})' = Holds(factory, {"create"})
  BY DEF ConnectorReceives, ConnectFails, ConnectSucceeds, control, queues, Holds
<1>1. CASE ConnectorReceives
  <2>1. /\ feed' = [feed EXCEPT !.connector = Tail(feed.connector)] /\ feed.connector # <<>>
        /\ connector.pc = "receive"
    BY <1>1 DEF ConnectorReceives
  <2>2. feed'.connector = Tail(feed.connector) /\ feed'.factory = feed.factory
    BY <2>1 DEF HubTypes
  <2>3. /\ Head(feed.connector).type = "kOutbound"
        /\ \A i \in DOMAIN feed'.connector : feed'.connector[i].type = "kOutbound"
    BY <1>0, <1>a, <2>1, <2>2, OnlyOutbound
  <2>4. OutboundsIn(feed.connector) = OutboundsIn(feed'.connector) + 1 /\ OutboundsIn(feed'.connector) \in Nat
    BY ZenonT(30), <1>0, <2>1, <2>2, <2>3, OutboundsTail, TailTypes, TypesQueue
  <2>5. Holds(connector, {"connect"}) = 0
    BY <2>1 DEF Holds
  <2>6. CASE Discard
    <3>1. Holds(connector, {"connect"})' = 0 /\ connector'.pc # "connect" /\ needed' = Dec(needed)
      BY <2>6 DEF Discard, Idle, Holds
    <3>2. Established \in Nat /\ Established > 0 /\ Established' = Established - 1
      <4> DEFINE t == selector.todo
      <4> DEFINE c == OutboundsIn(feed'.connector)
      <4> DEFINE f == OutboundsIn(feed.factory)
      <4> DEFINE g == Holds(factory, {"create"})
      <4>1. Established = t + (c + 1) + 0 + f + g
        BY <2>4, <2>5 DEF Established
      <4>2. Established' = t + c + 0 + f + g
        BY <1>f, <2>2, <3>1 DEF Established
      <4>3. t \in Nat /\ c \in Nat /\ f \in Nat /\ g \in Nat
        BY <1>0, <2>4
      <4> HIDE DEF t, c, f, g
      <4> QED BY <4>1, <4>2, <4>3
    <3> QED BY <1>f, <2>3, <3>1, <3>2, OneLess DEF Asked
  <2>7. CASE connector' = [pc |-> "connect", connection |-> Head(feed.connector)] /\ UNCHANGED needed
    <3>1. Holds(connector, {"connect"})' = 1 /\ connector'.connection.type = "kOutbound"
      BY <2>3, <2>7 DEF Holds
    <3>2. Established' = Established
      <4> DEFINE t == selector.todo
      <4> DEFINE c == OutboundsIn(feed'.connector)
      <4> DEFINE f == OutboundsIn(feed.factory)
      <4> DEFINE g == Holds(factory, {"create"})
      <4>1. Established = t + (c + 1) + 0 + f + g
        BY <2>4, <2>5 DEF Established
      <4>2. Established' = t + c + 1 + f + g
        BY <1>f, <2>2, <3>1 DEF Established
      <4>3. t \in Nat /\ c \in Nat /\ f \in Nat /\ g \in Nat
        BY <1>0, <2>4
      <4> HIDE DEF t, c, f, g
      <4> QED BY <4>1, <4>2, <4>3
    <3> QED BY <1>f, <2>3, <2>7, <3>1, <3>2, AsMany DEF Asked
  <2> QED BY <1>1, <2>6, <2>7 DEF ConnectorReceives
<1>2. CASE ConnectFails
  <2>1. connector.pc = "connect" /\ feed' = feed /\ connector'.pc = "receive" /\ needed' = Dec(needed)
    BY <1>2 DEF ConnectFails, Discard, Idle, queues
  <2>2. Holds(connector, {"connect"}) = 1 /\ Holds(connector, {"connect"})' = 0
    BY <1>a, <2>1 DEF Holds
  <2>3. Established \in Nat /\ Established > 0 /\ Established' = Established - 1
    BY <1>0, <1>f, <2>1, <2>2 DEF Established
  <2> QED BY <1>a, <1>f, <2>1, <2>3, OneLess DEF Asked
<1>3. CASE ConnectSucceeds
  <2>1. /\ connector.pc = "connect" /\ connector'.pc = "receive" /\ needed' = needed
        /\ feed' = [feed EXCEPT !.factory = Append(feed.factory, connector.connection)]
    BY <1>3 DEF ConnectSucceeds, AsyncSend, Idle, is_running, is_open
  <2>2. feed'.factory = Append(feed.factory, connector.connection) /\ feed'.connector = feed.connector
        /\ connector.connection \in Connection
    BY <2>1 DEF HubTypes, Coroutine
  <2>3. OutboundsIn(feed'.factory) = OutboundsIn(feed.factory) + 1
    BY <1>0, <1>a, <2>1, <2>2, OutboundsAppended
  <2>4. Holds(connector, {"connect"}) = 1 /\ Holds(connector, {"connect"})' = 0
    BY <1>a, <2>1 DEF Holds
  <2>5. Established' = Established
    <3> DEFINE t == selector.todo
    <3> DEFINE c == OutboundsIn(feed.connector)
    <3> DEFINE f == OutboundsIn(feed.factory)
    <3> DEFINE g == Holds(factory, {"create"})
    <3>1. Established = t + c + 1 + f + g
      BY <2>4 DEF Established
    <3>2. Established' = t + c + 0 + (f + 1) + g
      BY <1>f, <2>2, <2>3, <2>4 DEF Established
    <3>3. t \in Nat /\ c \in Nat /\ f \in Nat /\ g \in Nat
      BY <1>0
    <3> HIDE DEF t, c, f, g
    <3> QED BY <3>1, <3>2, <3>3
  <2> QED BY <1>a, <1>f, <2>1, <2>2, <2>5, AsMany DEF Asked
<1> QED BY <1>1, <1>2, <1>3

\* The acceptor's connections are not among those needed.
LEMMA AcceptorAsked == ASSUME HubTypes, Needs, is_running, fed = <<>>, Acceptor PROVE Asked'
<1> PICK a \in Addresses : Accept(a)
  BY DEF Acceptor
<1>0. feed.factory \in Seq(Connection) /\ UNCHANGED <<fed, selector, factory, connector, need, needed>>
  BY DEF HubTypes, Accept, control, workers
<1>1. [address |-> a, type |-> "kInbound"] \in Connection
  BY DEF Connection
<1>2. feed'.factory = Append(feed.factory, [address |-> a, type |-> "kInbound"]) /\ feed'.connector = feed.connector
  BY DEF Accept, AsyncSend, HubTypes
<1>3. OutboundsIn(feed'.factory) = OutboundsIn(feed.factory)
  BY <1>0, <1>1, <1>2, OutboundsAppended
<1>4. Established' = Established
  BY <1>0, <1>2, <1>3 DEF Established, Holds
<1> QED BY <1>0, <1>2, <1>4, AsMany DEF Asked, Needs

\* The selector's part of the way: there is always room for what it draws, so that nothing is dropped uncounted.
LEMMA SelectorAsked == ASSUME HubTypes, Needs, is_running, fed = <<>>, Selector PROVE Asked'
<1>0. /\ feed.connector \in Seq(Connection)
      /\ selector.todo \in Nat /\ OutboundsIn(feed.connector) \in Nat /\ OutboundsIn(feed.factory) \in Nat
      /\ Holds(connector, {"connect"}) \in {0, 1} /\ Holds(factory, {"create"}) \in {0, 1}
  BY Parts
<1>a. /\ \A i \in DOMAIN feed.connector : feed.connector[i].type = "kOutbound"
      /\ connector.pc = "connect" => connector.connection.type = "kOutbound"
      /\ needed <= min_outgoing_connections /\ needed \in Nat
      /\ need => Established = 0
      /\ ~need => Established = needed
  BY HubAssumption DEF Needs, Asked
<1>f. /\ UNCHANGED <<fed, connector, factory>>
      /\ Holds(factory, {"create"})' = Holds(factory, {"create"})
      /\ Holds(connector, {"connect"})' = Holds(connector, {"connect"})
  BY Zenon DEF Selector, SelectorWakes, SelectorDraws, SelectorFindsNone, control, Holds
<1>1. CASE SelectorWakes
  <2>1. need /\ need' = FALSE /\ selector.todo = 0 /\ selector'.todo = needed /\ UNCHANGED <<feed, needed>>
    BY <1>1 DEF SelectorWakes, Needs
  <2>2. OutboundsIn(feed.connector) = 0 /\ OutboundsIn(feed.factory) = 0 /\ Holds(connector, {"connect"}) = 0
        /\ Holds(factory, {"create"}) = 0
    BY <1>0, <1>a, <2>1 DEF Established
  <2>3. Established' = needed
    BY <1>a, <1>f, <2>1, <2>2 DEF Established
  <2> QED BY <1>a, <1>f, <2>1, <2>3 DEF Asked
<1>2. ASSUME NEW a \in Addresses, SelectorDraws(a) PROVE Asked'
  <2> DEFINE c == [address |-> a, type |-> "kOutbound"]
  <2>1. c \in Connection /\ c.type = "kOutbound"
    BY DEF Connection, Outbounds
  <2>2. selector.todo > 0 /\ selector'.todo = selector.todo - 1 /\ UNCHANGED <<need, needed>>
    BY <1>0, <1>2 DEF SelectorDraws, Needs
  <2>3. Len(feed.connector) < max_active_connections
    <3>1. Len(feed.connector) = OutboundsIn(feed.connector)
      BY <1>0, <1>a, OutboundsAll
    <3>2. Established >= 1 + OutboundsIn(feed.connector) /\ Established \in Nat /\ Established # 0
      <4>1. selector.todo \in Nat \ {0} /\ OutboundsIn(feed.connector) \in Nat /\ OutboundsIn(feed.factory) \in Nat
            /\ Holds(connector, {"connect"}) \in {0, 1} /\ Holds(factory, {"create"}) \in {0, 1}
        BY <1>0, <2>2
      <4> QED BY <4>1 DEF Established
    <3>3. Established <= min_outgoing_connections
      <4>1. Established = needed
        BY <1>a, <3>2
      <4> QED BY <1>a, <4>1
    <3> QED BY <1>0, <3>1, <3>2, <3>3, HubAssumption
  <2>4. feed' = [feed EXCEPT !["connector"] = Append(feed.connector, c)]
    BY <1>2, <2>3 DEF SelectorDraws, TrySend, is_running, is_open
  <2>5. feed'.connector = Append(feed.connector, c) /\ feed'.factory = feed.factory
    BY <2>4 DEF HubTypes
  <2>6. OutboundsIn(feed'.connector) = OutboundsIn(feed.connector) + 1
    BY <1>0, <2>1, <2>5, OutboundsAppended
  <2>7. Established' = Established
    <3>1. Established' = (selector.todo - 1) + (OutboundsIn(feed.connector) + 1) + Holds(connector, {"connect"})
                             + OutboundsIn(feed.factory) + Holds(factory, {"create"})
      BY <1>f, <2>2, <2>5, <2>6 DEF Established
    <3>2. selector.todo \in Nat /\ OutboundsIn(feed.connector) \in Nat /\ OutboundsIn(feed.factory) \in Nat
          /\ Holds(connector, {"connect"}) \in {0, 1} /\ Holds(factory, {"create"}) \in {0, 1}
      BY <1>0
    <3> QED BY <3>1, <3>2 DEF Established
  <2>8. \A i \in DOMAIN feed'.connector : feed'.connector[i].type = "kOutbound"
    BY <1>0, <1>a, <2>1, <2>5, OnlyOutbound
  <2> QED BY <1>a, <1>f, <2>2, <2>7, <2>8, AsMany DEF Asked
<1>3. CASE SelectorFindsNone
  <2>1. /\ selector.todo > 0 /\ selector'.todo = selector.todo - 1
        /\ needed' = Dec(needed) /\ UNCHANGED <<feed, need>>
    BY <1>0, <1>3 DEF SelectorFindsNone, Needs, queues
  <2>2. Established \in Nat /\ Established > 0
    BY <1>0, <2>1 DEF Established
  <2>3. Established' = Established - 1
    <3>1. Established' = (selector.todo - 1) + OutboundsIn(feed.connector) + Holds(connector, {"connect"})
                             + OutboundsIn(feed.factory) + Holds(factory, {"create"})
      BY <1>f, <2>1 DEF Established
    <3> QED BY <1>0, <3>1 DEF Established
  <2> QED BY <1>a, <1>f, <2>1, <2>2, <2>3, OneLess DEF Asked
<1> QED BY <1>1, <1>2, <1>3 DEF Selector

\* The counter of outbound sessions is a number below the width.
LEMMA OutboundRange == ASSUME HubTypes, Counts PROVE outbound \in Nat
<1>1. Cardinality(Of(Outbounds)) \in 0 .. Width - 2 /\ Due(Outbounds) \in {0, 1}
  BY OfRange DEF Due
<1> QED BY <1>1, Room DEF Counts, Counter, Wrapped

\* The timer asks only when nothing is needed, and for no more than the outgoing connections that are missing.
LEMMA AskAsked == ASSUME HubTypes, Needs, Counts, is_running, fed = <<>>, Ask PROVE Asked'
<1>0. UNCHANGED <<fed, selector, feed, connector, factory>> /\ Established' = Established
  BY DEF Ask, control, Established, Holds
<1>1. CASE ~CanAsk
  BY <1>0, <1>1, AsMany DEF Ask, Asked, Needs
<1>2. CASE CanAsk
  <2>1. needed = 0 /\ needed' = min_outgoing_connections - outbound /\ need'
    BY Zenon, <1>2 DEF Ask, CanAsk, is_running, is_open
  <2>2. Established = 0
    BY <2>1 DEF Needs, Asked
  <2>3. needed' <= min_outgoing_connections
    BY <2>1, OutboundRange, HubAssumption
  <2> QED BY <1>0, <2>1, <2>2, <2>3 DEF Asked, Needs
<1> QED BY <1>1, <1>2

\* What is needed stays a number below the width, and the selector's state keeps its type.
LEMMA NextNeedTypes ==
    ASSUME HubTypes, Needs, Counts, [Next]_vars
    PROVE  "todo" \in DOMAIN selector' /\ selector'.todo \in Nat /\ needed' \in 0 .. Width - 1
<1>1. needed \in 0 .. Width - 1 /\ Width \in Nat /\ Width > 0 /\ "todo" \in DOMAIN selector /\ selector.todo \in Nat
  BY Room DEF Needs
<1>2. Dec(needed) \in 0 .. Width - 1
  BY <1>1 DEF Dec
<1>3. \/ needed' \in {needed, Dec(needed)}
      \/ needed' = min_outgoing_connections - outbound /\ outbound < min_outgoing_connections
  BY ZenonT(30) DEF Next, Start, StartFails, Stop, Factory, FactoryReceives, FactoryEnds, FactoryRejects, FactoryFails,
     FactoryTakes, DecIf,
         FactoryCreates, CountAddress, CountConnection, Connector, ConnectorReceives, ConnectorEnds, ConnectFails, Discard,
         ConnectSucceeds, Acceptor, Accept, Selector, SelectorWakes, SelectorDraws, SelectorFindsNone, Processor,
         ProcessorReceives, ProcessAddr, ProcessGetAddr, Tick, Sweep, Ask, CanAsk, Stopping, Wait, WaitTimesOut,
         WakesSpuriously, StopReturns, SessionStops, Strand, UncountAddress, UncountConnection,
         on_node_received_message, vars
<1>4. \/ selector' = selector \/ selector' = [selector EXCEPT !.ended = FALSE]
      \/ selector' = [selector EXCEPT !.todo = needed]
      \/ selector.todo > 0 /\ selector' = [selector EXCEPT !.todo = selector.todo - 1]
      \/ selector' = [ended |-> TRUE, todo |-> 0]
  BY Zenon DEF Next, Start, StartFails, Stop, Factory, FactoryReceives, FactoryEnds, FactoryRejects, FactoryFails,
         FactoryCreates, CountAddress, CountConnection, Connector, ConnectorReceives, ConnectorEnds, ConnectFails,
         ConnectSucceeds, Acceptor, Accept, Selector, SelectorWakes, SelectorDraws, SelectorFindsNone, Processor,
         ProcessorReceives, ProcessAddr, ProcessGetAddr, Tick, Sweep, Ask, Stopping, Wait, WaitTimesOut,
         WakesSpuriously, StopReturns, SessionStops, Strand, UncountAddress, UncountConnection,
         on_node_received_message, vars, workers
<1>5. "todo" \in DOMAIN selector' /\ selector'.todo \in Nat
  <2>1. needed \in Nat /\ (selector.todo > 0 => selector.todo - 1 \in Nat)
    BY <1>1
  <2> QED BY <1>1, <1>4, <2>1
<1>6. needed' \in 0 .. Width - 1
  <2>1. needed' \in {needed, Dec(needed)} => needed' \in 0 .. Width - 1
    BY <1>1, <1>2
  <2>2. outbound \in Nat /\ min_outgoing_connections \in 0 .. Width - 1
    BY OutboundRange, HubAssumption, FS_CardinalityType
  <2> QED BY <1>1, <1>3, <2>1, <2>2
<1> QED BY <1>5, <1>6

\* Every step of the hub keeps the connections asked for counted.
LEMMA NextNeeds == ASSUME HubTypes, Needs, Counts, [Next]_vars PROVE Needs'
<1>1. "todo" \in DOMAIN selector' /\ selector'.todo \in Nat /\ needed' \in 0 .. Width - 1 /\ Quiet'
  BY NextNeedTypes, NextQuiet DEF Needs
<1>2. Asked'
  <2> SUFFICES ASSUME is_running', fed' = <<>> PROVE Asked'
    BY Zenon DEF Asked
  <2>1. fed = <<>>
    BY Zenon DEF Next, Start, StartFails, Stop, Factory, FactoryReceives, FactoryEnds, FactoryRejects, FactoryFails,
         FactoryCreates, CountAddress, CountConnection, Connector, ConnectorReceives, ConnectorEnds, ConnectFails,
         ConnectSucceeds, Acceptor, Accept, Selector, SelectorWakes, SelectorDraws, SelectorFindsNone, Processor,
         ProcessorReceives, ProcessAddr, ProcessGetAddr, Tick, Sweep, Ask, Stopping, Wait, WaitTimesOut,
         WakesSpuriously, StopReturns, SessionStops, Strand, UncountAddress, UncountConnection,
         on_node_received_message, vars, control
  <2>2. CASE Start \/ StartFails
    <3>1. /\ feed = [factory |-> <<>>, connector |-> <<>>] /\ ~need /\ needed = 0 /\ selector.todo = 0
          /\ connector.pc = "ended" /\ factory.pc = "ended"
      BY <2>2 DEF Start, StartFails, Needs, Quiet
    <3>2. SubSeq(fed, 1, IF Len(fed) < max_active_connections THEN Len(fed) ELSE max_active_connections) = <<>>
      BY <2>1, HubAssumption
    <3>3. /\ feed'.connector = <<>> /\ feed'.factory = <<>> /\ selector'.todo = 0 /\ ~need' /\ needed' = 0
          /\ connector'.pc # "connect" /\ factory'.pc # "create"
      <4>1. CASE Start
        BY <4>1, <3>1, <3>2 DEF Start, Idle, Needs
      <4>2. CASE StartFails
        BY <4>2, <3>1 DEF StartFails, workers, queues
      <4> QED BY <2>2, <4>1, <4>2
    <3>4. Established' = 0
      BY <3>3, OutboundsNone DEF Established, Holds
    <3> QED BY <3>3, <3>4, HubAssumption DEF Asked
  <2>3. CASE Passing /\ ~Start /\ ~StartFails
    <3>1. is_running
      BY <2>3 DEF Passing, OnItsWay, is_running
    <3>2. Established' = Established
      BY <2>3 DEF Passing, OnItsWay, Established, Holds
    <3> QED BY <2>1, <2>3, <3>1, <3>2, AsMany DEF Asked, Needs, Passing, OnItsWay
  <2>4. CASE Moving
    <3>1. is_running
      BY Zenon, <2>4 DEF Moving, FactoryReceives, ConnectorReceives, ConnectFails, ConnectSucceeds, Acceptor, Accept,
                  Selector, SelectorWakes, SelectorDraws, SelectorFindsNone, Ask, control, is_running
    <3> QED BY <2>1, <2>4, <3>1, FactoryAsked, ConnectorAsked, AcceptorAsked, SelectorAsked, AskAsked DEF Moving
  <2> QED BY <2>2, <2>3, <2>4, NeedKinds
<1> QED BY <1>1, <1>2 DEF Needs

\* Nothing is needed of a hub that was only constructed.
LEMMA InitNeeds == Init => Needs
<1> SUFFICES ASSUME Init PROVE Needs
  OBVIOUS
<1>1. "todo" \in DOMAIN selector /\ selector.todo = 0 /\ needed = 0
  BY DEF Init
<1>2. 0 \in 0 .. Width - 1
  BY Room
<1>3. connector.pc = "ended" /\ factory.pc = "ended"
  BY DEF Init, Ended
<1>4. Quiet
  BY <1>1, <1>3 DEF Init, Quiet
<1>5. Asked
  BY DEF Init, Asked, is_running
<1> QED BY <1>1, <1>2, <1>4, <1>5 DEF Needs

\* node_hub.hpp:143: with no connection fed by the user or the seeds, needed_connections_count_ is at any time
\* the number of connections on their way from the timer to the factory, whatever the limits are: none is lost
\* uncounted in a full feed, and none is uncounted twice.
THEOREM NeededStaysExact == Spec => []NeededExact
<1>1. HubTypes /\ Needs => NeededExact
  BY DEF Needs, Asked, NeededExact, Established
<1>2. IInv => HubTypes /\ Counts
  BY DEF IInv
<1> QED BY <1>1, <1>2, HubInvariant, InitNeeds, NextNeeds, PTL DEF Spec
=============================================================================
