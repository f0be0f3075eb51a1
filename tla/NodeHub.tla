------------------------------- MODULE NodeHub -------------------------------
(****************************************************************************)
(* The hub that opens, accepts, counts and ends sessions: class NodeHub     *)
(* (node/network/node_hub.cpp), with its five coroutines, its service       *)
(* timer, and stop.                                                         *)
(*                                                                          *)
(* The coroutines, the timer and the sessions' strands run on several       *)
(* threads.  A step below is what one of them does between two points where *)
(* another may see or change what it uses: on_node_connected is split       *)
(* between the address and the rest.                                        *)
(*                                                                          *)
(* A session is what NodeSession specifies, seen from the hub: it starts,   *)
(* it is asked to stop or stops by itself, and on its strand it reports the *)
(* end and becomes kNotStarted.                                             *)
(****************************************************************************)
EXTENDS Integers, Sequences, FiniteSets

CONSTANTS
    Addresses,                      \* remote addresses
    Sessions,                       \* identities for Node objects, reused once erased
    max_active_connections,
    max_active_connections_per_ip,
    min_outgoing_connections,
    Fed,                            \* choices of connections fed from the command line and the seeds
    ProcessorCapacity,              \* capacity of address_book_processor_feed_ (500 in the code)
    Width                           \* the unsigned counters wrap at this value (2^32 in the code)

Outbounds == {"kOutbound", "kManualOutbound", "kSeedOutbound"}
Connection == [address : Addresses, type : Outbounds \cup {"kInbound"}]

ASSUME HubAssumption ==
    /\ IsFiniteSet(Sessions)
    /\ {max_active_connections, max_active_connections_per_ip, ProcessorCapacity} \subseteq Nat \ {0}
    /\ min_outgoing_connections \in 0..max_active_connections
    /\ Fed \subseteq Seq(Connection)
    /\ Width \in Nat /\ Width > Cardinality(Sessions) + max_active_connections

NoConnection == [address |-> "none", type |-> "kNone"]

VARIABLES
    status,       \* Stoppable's component status of the hub
    stopping,     \* progress of NodeHub::stop
    process,      \* "alive", or "aborted" by an assertion or by an exception out of a noexcept function
    fed,          \* the connections start will feed
    factory,      \* node_factory_work: where it is and the connection or session it works on
    connector,    \* connector_work
    selector,     \* address_book_selector_work: whether it ended, and the addresses it has yet to draw
    processor,    \* address_book_processor_work: "receive" or "ended"
    ticker,       \* service_timer_: "off", "sweep" or "ask", the part of the next callback due
    feed,         \* node_factory_feed_ and connector_feed_
    requests,     \* address_book_processor_feed_: the sessions whose addr or getaddr is queued
    need,         \* need_connections_ holds a notification
    needed,       \* needed_connections_count_
    active, inbound, outbound,      \* the counters current_active_...
    connected,    \* connected_addresses_, 0 for an absent address
    nodes,        \* nodes_, as a set
    session,      \* the sessions: connection and phase
    book          \* address_book_ is not empty

control == <<status, stopping, process, fed>>
sessions == <<nodes, session, book>>
counters == <<active, inbound, outbound>>
workers == <<factory, connector, selector, processor, ticker>>
queues == <<feed, requests, need>>
vars == <<control, workers, queues, needed, counters, connected, sessions>>

\* The process has not aborted, and main has not destroyed the hub, as it does once stop has returned.
alive == process = "alive" /\ stopping # "returned"

is_running == status = "kStarted"
is_open == status = "kStarted"      \* the channels: stop closes all of them as soon as it leaves kStarted

Inc(counter) == (counter + 1) % Width

Dec(counter) == (counter + Width - 1) % Width
DecIf(condition, counter) == IF condition THEN Dec(counter) ELSE counter

Idle == [pc |-> "receive", connection |-> NoConnection]
Ended == [pc |-> "ended", connection |-> NoConnection]
NoSession == [connection |-> NoConnection, phase |-> "free"]

Init ==
    /\ status = "kNotStarted" /\ stopping = "no" /\ process = "alive"
    /\ fed \in Fed /\ book \in BOOLEAN
    /\ factory = Ended /\ connector = Ended
    /\ selector = [ended |-> TRUE, todo |-> 0] /\ processor = "ended"
    /\ ticker = "off"
    /\ feed = [factory |-> <<>>, connector |-> <<>>] /\ requests = <<>> /\ need = FALSE
    /\ needed = 0 /\ active = 0 /\ inbound = 0 /\ outbound = 0
    /\ connected = [a \in Addresses |-> 0]
    /\ nodes = {}
    /\ session = [s \in Sessions |-> NoSession]

-----------------------------------------------------------------------------
(* Channels: both feeds of connections have room for max_active_connections. *)
(* What async_send could not place yet stands behind, in order, and its      *)
(* sender is suspended until it has moved up.                                *)

TrySend(channel, connection) ==
    feed' = IF is_open /\ Len(feed[channel]) < max_active_connections
            THEN [feed EXCEPT ![channel] = Append(@, connection)] ELSE feed

AsyncSend(connection) == feed' = [feed EXCEPT !.factory = Append(@, connection)]

Suspended(types) == \E i \in DOMAIN feed.factory : i > max_active_connections /\ feed.factory[i].type \in types

-----------------------------------------------------------------------------
(* NodeHub::start: the coroutines are spawned and the first connections fed, *)
(* those for which the channel has room.                                     *)

Start ==
    /\ alive /\ status = "kNotStarted" /\ stopping = "no"
    /\ status' = "kStarted"
    /\ factory' = Idle /\ connector' = Idle
    /\ selector' = [selector EXCEPT !.ended = FALSE] /\ processor' = "receive"
    /\ ticker' = "sweep"
    /\ feed' = [feed EXCEPT !.connector =
                    SubSeq(fed, 1, IF Len(fed) < max_active_connections THEN Len(fed) ELSE max_active_connections)]
    /\ UNCHANGED <<stopping, process, fed, requests, need, needed, counters, connected, sessions>>

\* generate_tls_context fails: start returns with the component started and nothing running.
StartFails ==
    /\ alive /\ status = "kNotStarted" /\ stopping = "no"
    /\ status' = "kStarted"
    /\ UNCHANGED <<stopping, process, fed, workers, queues, needed, counters, connected, sessions>>

-----------------------------------------------------------------------------
(* node_factory_work.                                                        *)

FactoryReceives ==
    /\ alive /\ factory.pc = "receive" /\ is_open /\ feed.factory # <<>>
    /\ factory' = [pc |-> "create", connection |-> Head(feed.factory)]
    /\ feed' = [feed EXCEPT !.factory = Tail(@)]
    /\ UNCHANGED <<control, connector, selector, processor, ticker, requests,
                   need, needed, counters, connected, sessions>>

FactoryEnds ==
    /\ alive /\ factory.pc = "receive" /\ ~is_open
    /\ factory' = Ended
    /\ UNCHANGED <<control, connector, selector, processor, ticker,
                   queues, needed, counters, connected, sessions>>

\* Bug: one session too many is let in.
size_full_late == active > max_active_connections

size_full == active >= max_active_connections

\* The socket is open: only the coroutine that holds it would close it.
FactoryTakes ==
    /\ alive /\ factory.pc = "create"
    /\ needed' = DecIf(factory.connection.type = "kOutbound", needed)

FactoryRejects ==
    /\ FactoryTakes /\ size_full
    /\ factory' = Idle
    /\ UNCHANGED <<control, connector, selector, processor, ticker,
                   queues, counters, connected, sessions>>

Free == {s \in Sessions : session[s].phase = "free"}

FactoryCreates ==
    /\ FactoryTakes /\ ~size_full /\ Free # {}
    /\ LET s == CHOOSE s \in Free : TRUE
       IN  /\ session' = [session EXCEPT ![s] = [connection |-> factory.connection, phase |-> "kStarted"]]
           /\ factory' = [pc |-> "address", connection |-> factory.connection, session |-> s]
    /\ UNCHANGED <<control, connector, selector, processor, ticker,
                   queues, counters, connected, nodes, book>>

\* The peer reset the connection: remote_endpoint() throws, in Node's constructor and then the
\* coroutine ends, or in Node::start, which is noexcept, and then the process aborts.
FactoryFails ==
    /\ FactoryTakes /\ ~size_full
    /\ factory' = Ended
    /\ process' \in {"alive", "aborted"}
    /\ UNCHANGED <<status, stopping, fed, connector, selector, processor,
                   ticker, queues, counters, connected, sessions>>

\* Bug: only the addresses the hub dialled are counted.
CountAddress_dialled ==
    /\ alive /\ factory.pc = "address"
    /\ connected' = [connected EXCEPT ![factory.connection.address] =
                          IF factory.connection.type \in Outbounds THEN @ + 1 ELSE @]
    /\ factory' = [factory EXCEPT !.pc = "count"]
    /\ UNCHANGED <<control, connector, selector, processor, ticker,
                   queues, needed, counters, sessions>>

\* on_node_connected: the address, then the counters and the list.
CountAddress ==
    /\ alive /\ factory.pc = "address"
    /\ connected' = [connected EXCEPT ![factory.connection.address] = @ + 1]
    /\ factory' = [factory EXCEPT !.pc = "count"]
    /\ UNCHANGED <<control, connector, selector, processor, ticker,
                   queues, needed, counters, sessions>>

\* Bug: a session that is no longer running is not registered.
PushRunningNode == nodes' = nodes \cup {s \in {factory.session} : session[s].phase = "kStarted"}

PushNode == nodes' = nodes \cup {factory.session}

CountConnection ==
    /\ alive /\ factory.pc = "count"
    /\ active' = Inc(active)
    /\ \/ factory.connection.type = "kInbound" /\ inbound' = Inc(inbound) /\ UNCHANGED outbound
       \/ factory.connection.type \in Outbounds /\ outbound' = Inc(outbound) /\ UNCHANGED inbound
    /\ PushNode
    /\ factory' = Idle
    /\ UNCHANGED <<control, connector, selector, processor, ticker,
                   queues, needed, connected, session, book>>

Registering == factory.pc \in {"address", "count"}

-----------------------------------------------------------------------------
(* connector_work.                                                           *)

ConnectorEnds ==
    /\ alive /\ connector.pc = "receive" /\ ~is_open
    /\ connector' = Ended
    /\ UNCHANGED <<control, factory, selector, processor, ticker,
                   queues, needed, counters, connected, sessions>>

AddressFull(a) == connected[a] >= max_active_connections_per_ip

\* Bug: the discarded connection stays counted as needed.
Discard_uncounted ==
    /\ connector' = Idle
    /\ UNCHANGED needed

\* A connection given up, whatever its type.
Discard ==
    /\ connector' = Idle
    /\ needed' = Dec(needed)

ConnectorReceives ==
    /\ alive /\ connector.pc = "receive" /\ is_open /\ ~Suspended(Outbounds) /\ feed.connector # <<>>
    /\ feed' = [feed EXCEPT !.connector = Tail(@)]
    /\ LET connection == Head(feed.connector)
       IN  \/ AddressFull(connection.address) /\ Discard
           \/ /\ ~AddressFull(connection.address)
              /\ connector' = [pc |-> "connect", connection |-> connection]
              /\ UNCHANGED needed
    /\ UNCHANGED <<control, factory, selector, processor, ticker,
                   requests, need, counters, connected, sessions>>

\* async_connect throws, also when the hub stops meanwhile: the attempt itself is not cancelled.
ConnectFails ==
    /\ alive /\ connector.pc = "connect"
    /\ Discard
    /\ UNCHANGED <<control, factory, selector, processor, ticker,
                   queues, counters, connected, sessions>>

ConnectSucceeds ==
    /\ alive /\ connector.pc = "connect"
    /\ IF is_open THEN connector' = Idle /\ AsyncSend(connector.connection)
       ELSE connector' = Ended /\ UNCHANGED feed
    /\ UNCHANGED <<control, factory, selector, processor, ticker,
                   requests, need, needed, counters, connected, sessions>>

-----------------------------------------------------------------------------
(* acceptor_work.  Only size() is checked, not the connections per address.  *)
(* It ends when the hub stops, or when the peer reset the connection it has  *)
(* just accepted, for remote_endpoint() throws out of the loop: then Accept   *)
(* does not happen any more, which nothing here obliges it to.               *)

Accept(a) ==
    /\ alive /\ is_open /\ ticker # "off" /\ ~Suspended({"kInbound"}) /\ ~size_full
    /\ AsyncSend([address |-> a, type |-> "kInbound"])
    /\ UNCHANGED <<control, workers, requests, need, needed, counters, connected, sessions>>

-----------------------------------------------------------------------------
(* address_book_selector_work: as many addresses as are needed when it wakes. *)

SelectorWakes ==
    /\ alive /\ ~selector.ended /\ selector.todo = 0 /\ is_open /\ need
    /\ need' = FALSE
    /\ selector' = [selector EXCEPT !.todo = needed]
    /\ UNCHANGED <<control, factory, connector, processor, ticker, feed,
                   requests, needed, counters, connected, sessions>>

\* Whether a connection was sent or the feed was full is not looked at.
SelectorDraws(a) ==
    /\ alive /\ selector.todo > 0 /\ is_open /\ book
    /\ TrySend("connector", [address |-> a, type |-> "kOutbound"])
    /\ selector' = [selector EXCEPT !.todo = @ - 1]
    /\ UNCHANGED <<control, factory, connector, processor, ticker, requests,
                   need, needed, counters, connected, sessions>>

\* Bug: an address that was not found stays counted as needed.
SelectorFindsNone_uncounted ==
    /\ alive /\ selector.todo > 0 /\ is_open
    /\ selector' = [selector EXCEPT !.todo = @ - 1]
    /\ UNCHANGED <<control, factory, connector, processor, ticker,
                   queues, needed, counters, connected, sessions>>

SelectorFindsNone ==
    /\ alive /\ selector.todo > 0 /\ is_open
    /\ needed' = Dec(needed)
    /\ selector' = [selector EXCEPT !.todo = @ - 1]
    /\ UNCHANGED <<control, factory, connector, processor, ticker,
                   queues, counters, connected, sessions>>

-----------------------------------------------------------------------------
(* address_book_processor_work.                                              *)

ProcessorReceives ==
    /\ alive /\ processor = "receive" /\ is_open /\ requests # <<>>
    /\ requests' = Tail(requests)
    /\ UNCHANGED <<status, stopping, fed, workers, feed, need, needed, counters, connected, nodes, session>>

\* insert_or_update handles a refused address itself, so the handler of invalid_argument is not entered.
ProcessAddr ==
    /\ ProcessorReceives
    /\ book' \in {book, TRUE}
    /\ UNCHANGED process

\* With nothing to send, push_message(kNotFound) builds a payload whose assertion does not allow it.
ProcessGetAddr ==
    /\ ProcessorReceives
    /\ \/ book /\ UNCHANGED process
       \/ process' = "aborted"
    /\ UNCHANGED book

-----------------------------------------------------------------------------
(* The sessions.                                                             *)

\* Node::stop: posts on_stop_completed to the strand of a session that is started.
Stopped(ss) == [s \in Sessions |-> IF s \in ss /\ session[s].phase = "kStarted"
                                   THEN [session[s] EXCEPT !.phase = "kStopping"] ELSE session[s]]

\* The peer closes, breaks the protocol, or the session fails.
SessionStops(s) ==
    /\ alive /\ session[s].phase = "kStarted"
    /\ session' = Stopped({s})
    /\ UNCHANGED <<control, book, workers, queues, needed, counters, connected, nodes>>

\* on_node_received_message for addr and getaddr; the other types change nothing in the hub.
on_node_received_message(s) ==
    /\ alive /\ session[s].phase = "kStarted" /\ is_running
    /\ requests' = IF Len(requests) < ProcessorCapacity THEN Append(requests, s) ELSE requests
    /\ UNCHANGED <<control, workers, feed, need, needed, counters, connected, sessions>>

\* on_stop_completed closes the socket and calls on_node_disconnected, first for the address.
UncountAddress(s) ==
    /\ alive /\ session[s].phase = "kStopping"
    /\ LET a == session[s].connection.address
       IN  connected' = [connected EXCEPT ![a] = IF @ = 0 THEN 0 ELSE @ - 1]
    /\ session' = [session EXCEPT ![s].phase = "closed"]
    /\ UNCHANGED <<control, book, workers, queues, needed, counters, nodes>>

\* Bug: every session that ends is counted as outbound.
UncountConnection_outbound(s) ==
    /\ alive /\ session[s].phase = "closed"
    /\ active' = Dec(active) /\ outbound' = Dec(outbound)
    /\ session' = [session EXCEPT ![s].phase = "kNotStarted"]
    /\ UNCHANGED <<control, book, workers, queues, needed, inbound, connected, nodes>>

\* Then for the counters; set_stopped ends on_stop_completed.
UncountConnection(s) ==
    /\ alive /\ session[s].phase = "closed"
    /\ active' = Dec(active)
    /\ inbound' = DecIf(session[s].connection.type = "kInbound", inbound)
    /\ outbound' = DecIf(session[s].connection.type \in Outbounds, outbound)
    /\ session' = [session EXCEPT ![s].phase = "kNotStarted"]
    /\ UNCHANGED <<control, book, workers, queues, needed, connected, nodes>>

-----------------------------------------------------------------------------
(* on_service_timer_expired, its part under the lock and the rest.           *)

\* Bug: the references held by queued requests are not looked at.
Unreferenced_always(s) == TRUE

\* use_count() == 1: only the list refers to the session.
Unreferenced(s) == \A i \in DOMAIN requests : requests[i] # s

Erasable == {s \in nodes : session[s].phase = "kNotStarted" /\ Unreferenced(s)}

\* Erases what ended and stops some sessions: all when the hub stops, else those that are
\* idle or drawn at random.  At most 32 are stopped at a time, more than the sessions here.
Sweep(idle) ==
    /\ alive /\ ticker = "sweep"
    /\ IF is_running THEN idle \subseteq nodes ELSE idle = nodes
    /\ nodes' = nodes \ Erasable
    /\ session' = [s \in Sessions |-> IF s \in Erasable THEN NoSession ELSE Stopped(idle)[s]]
    /\ IF ~is_running /\ nodes' = {}
       THEN /\ ticker' = "off"
            /\ stopping' = IF stopping = "waiting" THEN "woken" ELSE stopping
       ELSE /\ ticker' = "ask"
            /\ UNCHANGED stopping
    /\ UNCHANGED <<status, process, fed, book, factory, connector,
                   selector, processor, queues, needed, counters, connected>>

CanAsk == outbound < min_outgoing_connections /\ book /\ needed = 0

Ask ==
    /\ alive /\ ticker = "ask"
    /\ IF CanAsk THEN needed' = min_outgoing_connections - outbound /\ need' = (need \/ is_open)
       ELSE UNCHANGED <<needed, need>>
    /\ ticker' = "sweep"
    /\ UNCHANGED <<control, factory, connector, selector, processor,
                   feed, requests, counters, connected, sessions>>

-----------------------------------------------------------------------------
(* NodeHub::stop: wait_for without a predicate, in a loop while it times out. *)

\* Closes the acceptor and the channels.  A coroutine that waits on one of them ends without further
\* effect.  Connections and notifications left in them are never received; requests left in theirs
\* still refer to their sessions.
Stop ==
    /\ alive /\ is_running /\ stopping = "no"
    /\ status' = "kStopping" /\ stopping' = "begun"
    /\ feed' = [factory |-> <<>>, connector |-> <<>>] /\ need' = FALSE
    /\ factory' = IF factory.pc = "receive" THEN Ended ELSE factory
    /\ connector' = IF connector.pc = "receive" THEN Ended ELSE connector
    /\ selector' = [ended |-> TRUE, todo |-> 0] /\ processor' = "ended"
    /\ UNCHANGED <<process, fed, ticker, requests, needed, counters, connected, sessions>>

Wait ==
    /\ alive /\ stopping = "begun"
    /\ stopping' = "waiting"
    /\ UNCHANGED <<status, process, fed, workers, queues, needed, counters, connected, sessions>>

WaitTimesOut ==
    /\ alive /\ stopping = "waiting"
    /\ stopping' = "begun"
    /\ UNCHANGED <<status, process, fed, workers, queues, needed, counters, connected, sessions>>

\* A wait may also end without a notification; the loop takes it for one.
WakesSpuriously ==
    /\ alive /\ stopping = "waiting"
    /\ stopping' = "woken"
    /\ UNCHANGED <<status, process, fed, workers, queues, needed, counters, connected, sessions>>

StopReturns ==
    /\ alive /\ stopping = "woken"
    /\ status' = "kNotStarted" /\ stopping' = "returned"
    /\ UNCHANGED <<process, fed, workers, queues, needed, counters, connected, sessions>>

-----------------------------------------------------------------------------
Factory == FactoryReceives \/ FactoryEnds \/ FactoryRejects \/ FactoryFails
           \/ FactoryCreates \/ CountAddress \/ CountConnection
Connector == ConnectorReceives \/ ConnectorEnds \/ ConnectFails \/ ConnectSucceeds
Acceptor == \E a \in Addresses : Accept(a)
Selector == SelectorWakes \/ (\E a \in Addresses : SelectorDraws(a)) \/ SelectorFindsNone
Processor == ProcessAddr \/ ProcessGetAddr
Strand(s) == UncountAddress(s) \/ UncountConnection(s)
Tick == (\E idle \in SUBSET nodes : Sweep(idle)) \/ Ask
Stopping == Wait \/ WaitTimesOut \/ WakesSpuriously \/ StopReturns

Next ==
    \/ Start \/ StartFails \/ Stop
    \/ Factory \/ Connector \/ Acceptor \/ Selector \/ Processor
    \/ Tick \/ Stopping
    \/ \E s \in Sessions : SessionStops(s) \/ Strand(s) \/ on_node_received_message(s)

Spec == Init /\ [][Next]_vars

\* The io_context runs every handler that is ready; the timer fires every 500 ms; a connection
\* attempt ends within its timeout.  Nothing is assumed of the peers, of start and of stop.
Fairness ==
    /\ WF_vars(Factory) /\ WF_vars(Connector) /\ WF_vars(Selector) /\ WF_vars(Processor)
    /\ WF_vars(Tick)
    /\ \A s \in Sessions : WF_vars(Strand(s))

FairSpec == Spec /\ Fairness

-----------------------------------------------------------------------------
(* Properties.                                                               *)

\* Sessions with an open socket.
Live == {s \in Sessions : session[s].phase \in {"kStarted", "kStopping"}}
\* Sessions whose end the counters have not recorded.
Uncounted == {s \in Sessions : session[s].phase \in {"kStarted", "kStopping", "closed"}}

\* settings.hpp: at most max_active_connections nodes are connected at any time, although size()
\* is read by two coroutines before the session it admits is counted.
MaxActive == Cardinality(Live) <= max_active_connections

\* node_hub.cpp 588-602 and 625-639: a session may end before it is counted, and the counters wrap
\* meanwhile; whenever no session is being registered they agree with the sessions there are.
CountersExact ==
    ~Registering =>
        /\ active = Cardinality(Uncounted)
        /\ inbound = Cardinality({s \in Uncounted : session[s].connection.type = "kInbound"})
        /\ outbound = Cardinality({s \in Uncounted : session[s].connection.type \in Outbounds})

\* node_hub.cpp 585 and 617-622: whenever no session is being registered, connected_addresses_
\* counts every connected session of an address, so the limit per address is never checked
\* against too small a count.
AddressesCovered ==
    ~Registering => \A a \in Addresses :
        connected[a] >= Cardinality({s \in Live : session[s].connection.address = a})

OutboundsIn(seq) == Cardinality({i \in DOMAIN seq : seq[i].type = "kOutbound"})
Holds(worker, pcs) == IF worker.pc \in pcs /\ worker.connection.type = "kOutbound" THEN 1 ELSE 0

\* node_hub.hpp:143: with no connection fed by the user or the seeds, needed_connections_count_ is the
\* number of connections that are being established, wherever they are on their way from the timer
\* to the factory.
NeededExact ==
    LET established == selector.todo + OutboundsIn(feed.connector) + Holds(connector, {"connect"})
                       + OutboundsIn(feed.factory) + Holds(factory, {"create"})
    IN  is_running /\ fed = <<>> =>
            IF need THEN established = 0 /\ needed <= min_outgoing_connections ELSE needed = established

\* node_hub.cpp 459-460 and 98-103: when the timer has seen no node left and stop has returned, no
\* session is left ("We MUST wait for all nodes to stop before returning otherwise this instance
\* falls out of scope").
AllStoppedOnReturn == stopping = "returned" /\ ticker = "off" => Uncounted = {}

\* node_hub.hpp:143: needed_connections_count_ is a number of connections to be established: the
\* timer never asks for more than min_outgoing_connections.
NeededInRange == needed <= min_outgoing_connections

\* node_hub.cpp 467-475: connections that were asked for are all dealt with, so that the timer can
\* ask again, as long as the hub runs and its factory has not been ended by an exception.
NeededServed ==
    (is_running /\ fed = <<>> /\ needed > 0)
        ~> (needed = 0 \/ ~is_running \/ factory.pc = "ended" \/ process = "aborted")

\* node_hub.cpp 433-435: a session that ended is erased from nodes_, even if it ended before
\* it was registered and while messages of it are queued.
EndedAreErased ==
    \A s \in Sessions : (session[s].phase = "kNotStarted")
        ~> (session[s].phase = "free" \/ ~is_running \/ process = "aborted")

\* A session as SessionContract sees it.
Phase(s) ==
    CASE session[s].phase = "free" -> "new"
      [] session[s].phase = "kStarted" -> "running"
      [] session[s].phase = "kNotStarted" -> "ended"
      [] OTHER -> "stopping"
Pending(s) == Cardinality({i \in DOMAIN requests : requests[i] = s})

Contract(s) == INSTANCE SessionContract WITH phase <- Phase(s), open <- Phase(s) # "ended", pending <- Pending(s)

\* For every session the hub keeps its side (SessionContract): an identity is reused only after the end
\* of its session was reported and when no queued request refers to it (node_hub.cpp:433).
KeepsContracts ==
    /\ \A s \in Sessions : Contract(s)!Init
    /\ [][\A s \in Sessions : Contract(s)!Next \/ UNCHANGED Contract(s)!vars]_vars
=============================================================================
