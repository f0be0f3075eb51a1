----------------------------- MODULE NodeSession -----------------------------
(***************************************************************************)
(* One session with a remote peer: class Node (node/network/node.cpp).      *)
(*                                                                          *)
(* The io_context runs handlers on several threads.  Jobs posted to         *)
(* io_strand_ run one at a time and in order (`strand`, `job`), but the     *)
(* completion handlers of reads, writes and the TLS handshake, the ping     *)
(* timer's callback and the hub's calls are not bound to the strand: they   *)
(* run beside it (`reader`, HandleWrite, `tls`, `pinger`, Stop).            *)
(*                                                                          *)
(* A handler is split where it reads shared state that another handler may  *)
(* change before it writes it back: between the load and the exchange of    *)
(* protocol_handshake_status_, between two messages it queues, and between  *)
(* queueing a ping and recording its nonce.                                 *)
(***************************************************************************)
EXTENDS MessageQueue, FiniteSets

CONSTANTS
    Connections,          \* connection types a session may have
    Transports,           \* a subset of {"plain", "tls"}
    Conforming,           \* whether the peer follows the protocol
    PeerMessages,         \* types of message the peer sends
    kMaxMessagesPerRead,  \* messages accepted from one read
    MaxReceived,          \* bound: messages the peer sends
    MaxPings              \* bound: pings sent by the node

MessageTypes == {"version", "badversion", "verack", "ping", "pong", "getaddr", "addr"}

ASSUME SessionAssumption ==
    /\ Connections \subseteq {"kInbound", "kOutbound"}
    /\ Transports \subseteq {"plain", "tls"}
    /\ Conforming \in BOOLEAN
    /\ PeerMessages \subseteq MessageTypes
    /\ MaxReceived \in Nat
    /\ {kMaxMessagesPerRead, MaxPings} \subseteq Nat \ {0}

VARIABLES
    connection,   \* connection_ptr_->type_ and whether ssl_context_ is set
    status,       \* Stoppable's component status
    is_open,      \* the socket is open
    strand,       \* jobs posted to io_strand_, oldest first
    job,          \* what the strand is in the middle of
    handshake,    \* protocol_handshake_status_, as the set of its flags
    queue,        \* outbound_messages_queue_, the vector under the heap
    barrel,       \* outbound_message_ and whether part of it is still to be written
    is_writing,   \* is_writing_
    writes,       \* asynchronous writes in flight
    reads,        \* asynchronous reads in flight
    reader,       \* progress of handle_read
    tls,          \* progress of the TLS handshake and its handler
    ping,         \* ping_meter_: whether a sample is pending, and the nonce
    timer,        \* ping_timer_ is running
    pinger,       \* nonce a ping timer callback has yet to record, 0 if none
    getaddrs,     \* inbound_message_metrics_[kGetAddr].count_
    requests,     \* getaddr messages the hub has yet to answer
    \* What happened so far, read by the bounds, the peer and the properties:
    sent,         \* messages handed to the socket
    received,     \* messages a conforming peer sent
    arrivals,     \* number of messages the peer sent
    accepted,     \* flags of the handshake messages that passed validation
    pings,        \* nonces drawn so far
    completions,  \* on_handshake_completed jobs posted
    disconnects,  \* calls of on_disconnected_
    fault         \* error for which a conforming peer is dropped, "none" if it is not

writing == <<queue, barrel, is_writing, writes, sent>>
reading == <<reads, reader, received, arrivals, getaddrs>>
pinging == <<ping, timer, pinger, pings>>
shaking == <<handshake, accepted, completions>>
ending == <<status, is_open, disconnects>>
vars == <<connection, strand, job, tls, requests, fault,
          writing, reading, pinging, shaking, ending>>

is_running == status = "kStarted"

-----------------------------------------------------------------------------
(* The protocol handshake.                                                   *)

Flag(direction, type) ==
    CASE type \in {"version", "badversion"} -> IF direction = "out" THEN "kVersionSent" ELSE "kVersionReceived"
      [] type = "verack" -> IF direction = "out" THEN "kVerAckSent" ELSE "kVerAckReceived"
      [] OTHER -> "none"

kCompleted == {"kVersionSent", "kVersionReceived", "kVerAckSent", "kVerAckReceived"}
kVersionExchanged == {"kVersionSent", "kVersionReceived"}

FlagValue(flags, flag, value) == IF flag \in flags THEN value ELSE 0
StatusValue(flags) == FlagValue(flags, "kVersionSent", 1) + FlagValue(flags, "kVersionReceived", 2)
                      + FlagValue(flags, "kVerAckSent", 4) + FlagValue(flags, "kVerAckReceived", 8)

\* validate_message_for_protocol_handshake on the status `current` it loaded.
validate(current, direction, type) ==
    LET flag == Flag(direction, type)
    IN  CASE current = {} /\ flag \notin kVersionExchanged -> "kInvalidProtocolHandShake"
          [] flag # "none" /\ flag \in current -> "kDuplicateProtocolHandShake"
          [] flag = "none" /\ StatusValue(current) < StatusValue(kVersionExchanged) -> "kInvalidProtocolHandShake"
          [] OTHER -> "success"

NoMessage == [type |-> "none", nonce |-> 0, priority |-> 0]
EmptyBarrel == [message |-> NoMessage, rest |-> FALSE]
Idle == [pc |-> "idle", message |-> NoMessage, seen |-> {}, parsed |-> 0]

Init ==
    /\ connection \in [type : Connections, transport : Transports]
    /\ status = "kNotStarted" /\ is_open = TRUE /\ disconnects = 0
    /\ strand = <<>> /\ job = Idle /\ tls = "none"
    /\ handshake = {} /\ accepted = {} /\ completions = 0
    /\ queue = <<>> /\ barrel = EmptyBarrel /\ is_writing = FALSE /\ writes = 0 /\ sent = {}
    /\ reads = 0 /\ reader = Idle /\ received = {} /\ arrivals = 0 /\ getaddrs = 0
    /\ ping = [pending |-> FALSE, nonce |-> 0] /\ timer = FALSE /\ pinger = 0 /\ pings = 0
    /\ requests = 0 /\ fault = "none"

-----------------------------------------------------------------------------
(* Posting to the strand, queueing a message, and stopping.                  *)

post(jobs) == strand' = strand \o jobs

\* Queues the message, if there is one, and posts the job that will write it.
push_message(messages) ==
    IF messages = <<>> THEN UNCHANGED <<queue, strand>>
    ELSE queue' = emplace(queue, Head(messages)) /\ post(<<"start_write">>)

\* The job of `jobs` for the handler that has just ended, once the strand dropped the job it ran.
finish(jobs) == /\ strand' = Tail(strand) \o jobs
                /\ job' = Idle

runs(name) == job.pc = "idle" /\ strand # <<>> /\ Head(strand) = name

(* Node::start: called once, by the hub, before any other operation. *)
Start ==
    /\ status = "kNotStarted" /\ disconnects = 0
    /\ status' = "kStarted"
    /\ IF connection.transport = "tls"
       THEN post(<<"start_ssl_handshake">>) /\ UNCHANGED queue
       ELSE IF connection.type = "kInbound"
       THEN post(<<"start_read">>) /\ UNCHANGED queue
       ELSE queue' = emplace(queue, Message("version", kNormal)) /\ post(<<"start_read", "start_write">>)
    /\ UNCHANGED <<connection, job, tls, requests, fault, barrel, is_writing, writes, sent,
                   reading, pinging, shaking, is_open, disconnects>>

\* Node::stop up to the post: what it does when the session is running, and nothing otherwise.
stopping == status' = IF is_running THEN "kStopping" ELSE status
\* Bug: a second stop completes as well.
stopped_jobs_again == <<"on_stop_completed">>

\* Bug: a stop is never completed.
stopped_jobs_never == <<>>

stopped_jobs == IF is_running THEN <<"on_stop_completed">> ELSE <<>>
stopped_timer == timer' = (timer /\ ~is_running)

(* Node::stop called by the hub: an idle peer, a refused address, the end of the program. *)
HubStop ==
    /\ is_running
    /\ stopping /\ stopped_timer /\ post(stopped_jobs)
    /\ UNCHANGED <<connection, job, tls, requests, fault, writing, reading, shaking,
                   ping, pinger, pings, is_open, disconnects>>

(* Node::stop posted to the strand by a handler that met an error. *)
StrandStop ==
    /\ runs("stop")
    /\ stopping /\ stopped_timer /\ finish(stopped_jobs)
    /\ UNCHANGED <<connection, tls, requests, fault, writing, reading, shaking,
                   ping, pinger, pings, is_open, disconnects>>

on_stop_completed ==
    /\ runs("on_stop_completed")
    /\ is_open' = FALSE
    /\ disconnects' = disconnects + 1
    /\ status' = "kNotStarted"
    /\ finish(<<>>)
    /\ UNCHANGED <<connection, tls, requests, fault, writing, reading, pinging, shaking>>

-----------------------------------------------------------------------------
(* The TLS handshake.                                                        *)

start_ssl_handshake ==
    /\ runs("start_ssl_handshake")
    /\ tls' = IF is_open THEN "pending" ELSE tls
    /\ finish(<<>>)
    /\ UNCHANGED <<connection, requests, fault, writing, reading, pinging, shaking, ending>>

(* handle_ssl_handshake, with or without an error; it starts the first read itself. *)
handle_ssl_handshake ==
    /\ tls = "pending"
    /\ \/ /\ post(<<"stop">>)
          /\ tls' = "none"
          /\ UNCHANGED reads
       \/ /\ reads' = IF is_open THEN reads + 1 ELSE reads
          /\ tls' = IF connection.type = "kInbound" THEN "none" ELSE "secured"
          /\ UNCHANGED strand
    /\ UNCHANGED <<connection, job, requests, fault, writing, reader, received, arrivals, getaddrs,
                   pinging, shaking, ending>>

PresentAfterTls ==
    /\ tls = "secured"
    /\ push_message(<<Message("version", kNormal)>>)
    /\ tls' = "none"
    /\ UNCHANGED <<connection, job, requests, fault, barrel, is_writing, writes, sent,
                   reading, pinging, shaking, ending>>

-----------------------------------------------------------------------------
(* Writing: start_write on the strand, handle_write beside it.               *)

\* A message wholly handed to the socket is at its end: the next start_write resets it.
begin_write(message, rest) ==
    /\ writes' = writes + 1
    /\ barrel' = IF rest THEN [message |-> message, rest |-> TRUE] ELSE EmptyBarrel
    /\ sent' = IF rest THEN sent ELSE sent \cup {[message EXCEPT !.priority = 0]}

(* start_write returns at once: socket closed, a write in progress, or nothing to write. *)
WriteNothing ==
    /\ runs("start_write")
    /\ \/ ~is_open \/ is_writing
       \/ ~barrel.rest /\ queue = <<>>
    /\ finish(<<>>)
    /\ UNCHANGED <<connection, tls, requests, fault, writing, reading, pinging, shaking, ending>>

\* Bug: a write may begin while another is in flight.
may_write_always == is_open

\* The socket is open and is_writing_ goes from false to true.
may_write == is_open /\ ~is_writing

(* start_write goes on with the message in the barrel. *)
WriteRest ==
    /\ runs("start_write") /\ may_write /\ barrel.rest
    /\ is_writing' = TRUE
    /\ begin_write(barrel.message, FALSE)
    /\ finish(<<>>)
    /\ UNCHANGED <<connection, tls, requests, fault, queue, reading, pinging, shaking, ending>>

(* start_write takes the top of the queue, and its validation loads the handshake status. *)
TakeMessage ==
    /\ runs("start_write") /\ may_write /\ ~barrel.rest /\ queue # <<>>
    /\ is_writing' = TRUE
    /\ queue' = pop(queue)
    /\ barrel' = [message |-> Head(queue), rest |-> FALSE]
    /\ job' = [Idle EXCEPT !.pc = "validate", !.seen = handshake]
    /\ UNCHANGED <<connection, strand, tls, requests, fault, writes, sent, reading, pinging, shaking, ending>>

\* Bug: the completion is posted whenever the new status is at least both versions.
exchange_status_early(seen, flag) ==
    /\ handshake' = IF flag = "none" THEN handshake ELSE seen \cup {flag}
    /\ accepted' = accepted \cup ({flag} \ {"none"})
    /\ completions' = completions + (IF flag # "none" /\ kVersionExchanged \subseteq seen \cup {flag} THEN 1 ELSE 0)

\* The exchange of the status a validated message sets, and the job for its completion.
exchange_status(seen, flag) ==
    /\ handshake' = IF flag = "none" THEN handshake ELSE seen \cup {flag}
    /\ accepted' = accepted \cup ({flag} \ {"none"})
    /\ completions' = completions + (IF flag # "none" /\ seen \cup {flag} = kCompleted THEN 1 ELSE 0)

completed_jobs == IF completions' = completions THEN <<>> ELSE <<"on_handshake_completed">>

(* The rest of start_write: a refused message ends the session, any other is written, *)
(* an `addr` possibly in two parts.                                                    *)
WriteMessage ==
    LET message == barrel.message
        verdict == validate(job.seen, "out", message.type)
    IN  /\ job.pc = "validate"
        /\ \/ /\ verdict # "success"
              /\ fault' = IF fault = "none" /\ Conforming THEN verdict ELSE fault
              /\ is_writing' = FALSE
              /\ barrel' = EmptyBarrel
              /\ finish(<<"stop">>)
              /\ UNCHANGED <<shaking, writes, sent, ping>>
           \/ /\ verdict = "success"
              /\ exchange_status(job.seen, Flag("out", message.type))
              /\ \E rest \in BOOLEAN : (rest => message.type = "addr") /\ begin_write(message, rest)
              /\ ping' = IF message.type = "ping" THEN [ping EXCEPT !.pending = TRUE] ELSE ping
              /\ finish(completed_jobs)
              /\ UNCHANGED <<fault, is_writing>>
    /\ UNCHANGED <<connection, tls, requests, queue, reading, timer, pinger, pings, ending>>

\* Bug: the end of a message does not start another write cycle.
written_quietly == UNCHANGED strand

\* What handle_write posts after the last byte.
written == post(<<"start_write">>)

(* handle_write; a call that leaves bytes in send_buffer_ only starts the next one. *)
HandleWrite ==
    /\ writes > 0
    /\ writes' = writes - 1
    /\ is_writing' = FALSE
    /\ \/ ~is_running /\ UNCHANGED strand
       \/ is_running /\ post(<<"stop">>)
       \/ is_running /\ written
    /\ UNCHANGED <<connection, job, tls, requests, fault, queue, barrel, sent,
                   reading, pinging, shaking, ending>>

-----------------------------------------------------------------------------
(* The peer.                                                                 *)

Knows(type) == \E m \in sent : m.type = type
Said(type) == \E m \in received : m.type = type

\* A peer that follows the protocol: it answers our `version` (or opens with its own when it
\* called us), acknowledges it once, and answers every ping once.
PeerFollowsProtocol(m) ==
    /\ m \notin received
    /\ CASE m.type = "version" -> connection.type = "kInbound" \/ Knows("version")
         [] m.type = "verack"  -> Knows("version") /\ Said("version")
         [] m.type = "pong"    -> PingPong("ping", m.nonce) \in sent
         [] m.type = "getaddr" -> connection.type = "kInbound" /\ Said("verack")
         [] m.type = "badversion" -> FALSE
         [] OTHER -> Said("verack")

PeerSends(m) ==
    /\ m.type \in PeerMessages /\ arrivals < MaxReceived
    /\ Conforming => PeerFollowsProtocol(m)
    /\ arrivals' = arrivals + 1
    /\ received' = IF Conforming THEN received \cup {m} ELSE received

Messages == {Message(t, 0) : t \in PeerMessages \ {"ping", "pong"}}
                \cup {PingPong(t, n) : t \in PeerMessages \cap {"ping", "pong"}, n \in 1..MaxPings}

-----------------------------------------------------------------------------
(* Reading: start_read on the strand, handle_read beside it.                 *)

start_read ==
    /\ runs("start_read")
    /\ reads' = IF is_open THEN reads + 1 ELSE reads
    /\ finish(<<>>)
    /\ UNCHANGED <<connection, tls, requests, fault, writing, reader, received, arrivals, getaddrs,
                   pinging, shaking, ending>>

(* handle_read with an error, or after the session was stopped. *)
ReadNothing ==
    /\ reads > 0
    /\ reads' = reads - 1
    /\ \/ ~is_running /\ UNCHANGED strand
       \/ is_running /\ post(<<"stop">>)
    /\ UNCHANGED <<connection, job, tls, requests, fault, writing, reader, received, arrivals, getaddrs,
                   pinging, shaking, ending>>

(* parse_messages completes a message, the first of a read or the next one in the buffer, *)
(* and its validation loads the handshake status.                                          *)
ReadMessage(m) ==
    /\ \/ reader.pc = "idle" /\ reads > 0 /\ is_running /\ is_open
       \/ reader.pc = "next"
    /\ PeerSends(m)
    /\ reads' = IF reader.pc = "idle" THEN reads - 1 ELSE reads
    /\ reader' = [reader EXCEPT !.pc = "validate", !.message = m, !.seen = handshake]
    /\ UNCHANGED <<connection, strand, job, tls, requests, fault, writing, getaddrs, pinging, shaking, ending>>

\* parse_messages fails with `error`: handle_read posts the stop and reads no more.
give_up(error) ==
    /\ reader' = Idle
    /\ fault' = IF fault = "none" /\ Conforming THEN error ELSE fault

\* Bug: one message too many is taken from a read.
flooded_late(parsed) == parsed > kMaxMessagesPerRead

flooded(parsed) == parsed + 1 > kMaxMessagesPerRead

(* The exchange of the handshake status, and the limit on the messages of one read. *)
AcceptMessage ==
    LET type    == reader.message.type
        verdict == validate(reader.seen, "in", type)
    IN  /\ reader.pc = "validate"
        /\ IF verdict # "success"
           THEN give_up(verdict) /\ post(<<"stop">>) /\ UNCHANGED shaking
           ELSE /\ exchange_status(reader.seen, Flag("in", type))
                /\ IF flooded(reader.parsed)
                   THEN give_up("kMessageFloodingDetected") /\ post(completed_jobs \o <<"stop">>)
                   ELSE /\ reader' = [reader EXCEPT !.pc = "process", !.seen = {}, !.parsed = @ + 1]
                        /\ post(completed_jobs)
                        /\ UNCHANGED fault
    /\ UNCHANGED <<connection, job, tls, requests, writing, reads, received, arrivals, getaddrs, pinging, ending>>

(* The data is not a message, or a validated message has no legal payload: parse_messages fails. *)
MalformedMessage ==
    /\ ~Conforming /\ reader.pc \in {"next", "process"}
    /\ give_up("malformed") /\ post(<<"stop">>)
    /\ UNCHANGED <<connection, job, tls, requests, writing, reads, received, arrivals, getaddrs, pinging, shaking, ending>>

\* Bug: our version is left to others to send.
answer_without_version(m) == IF m.type = "ping" THEN <<PingPong("pong", m.nonce)>> ELSE <<>>

\* Bug: our version is sent whether or not it was sent before.
answer_again(m) ==
    CASE m.type = "version" -> <<Message("version", kHigh)>>
      [] m.type = "ping" -> <<PingPong("pong", m.nonce)>>
      [] OTHER -> <<>>

\* What process_inbound_message answers before it acknowledges a version.
answer(m) ==
    CASE m.type = "version" /\ "kVersionSent" \notin handshake -> <<Message("version", kHigh)>>
      [] m.type = "ping" -> <<PingPong("pong", m.nonce)>>
      [] OTHER -> <<>>

refusal(m) ==
    CASE m.type = "badversion" -> "kInvalidProtocolVersion"
      [] m.type = "pong" /\ (~ping.pending \/ ping.nonce = 0) -> "kUnsolicitedPong"
      [] m.type = "pong" /\ m.nonce # ping.nonce -> "kInvalidPingPongNonce"
      [] OTHER -> "success"

NextMessage == [reader EXCEPT !.pc = "next", !.message = NoMessage]

(* process_inbound_message: a version is answered and then acknowledged (AcknowledgeVersion). *)
ProcessMessage ==
    LET m == reader.message
    IN  /\ reader.pc = "process"
        /\ \/ /\ refusal(m) # "success"
              /\ give_up(refusal(m)) /\ post(<<"stop">>)
              /\ UNCHANGED <<queue, ping>>
           \/ /\ refusal(m) = "success"
              /\ push_message(answer(m))
              /\ reader' = CASE m.type = "version" -> [reader EXCEPT !.pc = "verack"]
                             [] m.type \in {"verack", "ping", "pong"} -> NextMessage
                             [] OTHER -> [reader EXCEPT !.pc = "notify"]
              /\ ping' = IF m.type = "pong" THEN [pending |-> FALSE, nonce |-> 0] ELSE ping
              /\ UNCHANGED fault
    /\ UNCHANGED <<connection, job, tls, requests, barrel, is_writing, writes, sent, reads, received, arrivals,
                   getaddrs, timer, pinger, pings, shaking, ending>>

AcknowledgeVersion ==
    /\ reader.pc = "verack"
    /\ push_message(<<Message("verack", kHigh)>>)
    /\ reader' = [reader EXCEPT !.pc = "notify"]
    /\ UNCHANGED <<connection, job, tls, requests, fault, barrel, is_writing, writes, sent, reads, received, arrivals,
                   getaddrs, pinging, shaking, ending>>

\* Bug: the hub takes messages of a session that is not running any more.
told_late(type) == ~(type = "getaddr" /\ connection.type = "kInbound" /\ getaddrs > 1)

\* The message reaches the hub and the session still runs.
told(type) == is_running /\ ~(type = "getaddr" /\ connection.type = "kInbound" /\ getaddrs > 1)

(* on_message_, NodeHub::on_node_received_message: a version on a connection we opened is *)
(* answered with our address, a request for addresses goes to the hub's address processor. *)
NotifyHub ==
    LET type == reader.message.type
    IN  /\ reader.pc = "notify"
        /\ push_message(IF told(type) /\ type = "version" /\ connection.type # "kInbound"
                        THEN <<Message("addr", kNormal)>> ELSE <<>>)
        /\ requests' = IF told(type) /\ type = "getaddr" THEN requests + 1 ELSE requests
        /\ getaddrs' = IF type = "getaddr" THEN getaddrs + 1 ELSE getaddrs
        /\ reader' = NextMessage
        /\ UNCHANGED <<connection, job, tls, fault, barrel, is_writing, writes, sent, reads, received, arrivals,
                       pinging, shaking, ending>>

(* NodeHub::address_book_processor_work answers a request, unless the full feed dropped it.  That    *)
(* a book with no service to give ends the process (payloads.hpp:55) is outside this module.         *)
HubAnswer ==
    /\ requests > 0
    /\ requests' = requests - 1
    /\ \E reply \in {<<>>, <<Message("addr", kNormal)>>} : push_message(reply)
    /\ UNCHANGED <<connection, job, tls, fault, barrel, is_writing, writes, sent, reading, pinging, shaking, ending>>

(* The buffer holds no other message: handle_read posts the next read. *)
EndRead ==
    /\ reader.pc = "next"
    /\ reader' = Idle
    /\ post(<<"start_read">>)
    /\ UNCHANGED <<connection, job, tls, requests, fault, writing, reads, received, arrivals, getaddrs,
                   pinging, shaking, ending>>

-----------------------------------------------------------------------------
(* Pings.                                                                    *)

\* A ping may be queued: none awaits its answer, and the bound leaves room for one.
may_ping == is_running /\ ~ping.pending /\ pings < MaxPings

(* on_handshake_completed, first part: it queues a ping, unless one is pending, and records *)
(* its nonce; no write can begin in between, as this runs on the strand.                     *)
on_handshake_completed ==
    /\ runs("on_handshake_completed")
    /\ \/ /\ ~is_running
          /\ finish(<<>>) /\ UNCHANGED <<queue, ping, pings>>
       \/ /\ is_running /\ ping.pending
          /\ job' = [Idle EXCEPT !.pc = "completed"] /\ UNCHANGED <<strand, queue, ping, pings>>
       \/ /\ may_ping
          /\ job' = [Idle EXCEPT !.pc = "completed"]
          /\ push_message(<<PingPong("ping", pings + 1)>>)
          /\ ping' = [ping EXCEPT !.nonce = pings + 1]
          /\ pings' = pings + 1
    /\ UNCHANGED <<connection, tls, requests, fault, barrel, is_writing, writes, sent, reading, timer, pinger,
                   shaking, ending>>

(* on_handshake_completed, second part: it starts the timer and asks for addresses. *)
StartPinging ==
    LET asks == connection.type # "kInbound"
    IN  /\ job.pc = "completed"
        /\ timer' = TRUE
        /\ queue' = IF asks THEN emplace(queue, Message("getaddr", kNormal)) ELSE queue
        /\ finish(IF asks THEN <<"start_write">> ELSE <<>>)
        /\ UNCHANGED <<connection, tls, requests, fault, barrel, is_writing, writes, sent, reading, ping, pinger, pings,
                       shaking, ending>>

(* on_ping_timer_expired called by the timer, beside the strand: the ping is queued ... *)
PingTimerExpired ==
    /\ timer /\ pinger = 0 /\ may_ping
    /\ push_message(<<PingPong("ping", pings + 1)>>)
    /\ pings' = pings + 1
    /\ pinger' = pings + 1
    /\ UNCHANGED <<connection, job, tls, requests, fault, barrel, is_writing, writes, sent, reading, ping, timer,
                   shaking, ending>>

(* ... and only then its nonce is recorded. *)
RecordNonce ==
    /\ pinger # 0
    /\ ping' = [ping EXCEPT !.nonce = pinger]
    /\ pinger' = 0
    /\ UNCHANGED <<connection, strand, job, tls, requests, fault, writing, reading, timer, pings, shaking, ending>>

-----------------------------------------------------------------------------
StrandStep ==
    \/ StrandStop \/ on_stop_completed \/ start_ssl_handshake \/ start_read
    \/ WriteNothing \/ WriteRest \/ TakeMessage \/ WriteMessage
    \/ on_handshake_completed \/ StartPinging

ReaderStep == MalformedMessage \/ AcceptMessage \/ ProcessMessage \/ AcknowledgeVersion \/ NotifyHub \/ EndRead

Next ==
    \/ Start \/ HubStop \/ StrandStep \/ ReaderStep
    \/ handle_ssl_handshake \/ PresentAfterTls
    \/ HandleWrite \/ ReadNothing \/ HubAnswer
    \/ PingTimerExpired \/ RecordNonce
    \/ \E m \in Messages : ReadMessage(m)

Spec == Init /\ [][Next]_vars

\* The io_context keeps running what is posted to the strand and the handlers it has begun, a write
\* handed to the socket completes, and so does the TLS shutdown that stop() waits for.  Nothing is
\* assumed of what the peer sends, of the hub or of the timer.
FairSpec == Spec /\ WF_vars(StrandStep) /\ WF_vars(ReaderStep) /\ WF_vars(HandleWrite)

-----------------------------------------------------------------------------
Items == [type : MessageTypes \cup {"none"}, nonce : 0..MaxPings, priority : {kHigh, kNormal}]
JobNames == {"start_ssl_handshake", "start_read", "start_write", "stop", "on_stop_completed", "on_handshake_completed"}

\* Every variable has its type: the flags are flags of ProtocolHandShakeStatus, the strand holds
\* jobs of this session, and no read takes more than kMaxMessagesPerRead messages.
TypeOK ==
    /\ connection \in [type : Connections, transport : Transports]
    /\ status \in {"kNotStarted", "kStarted", "kStopping"} /\ is_open \in BOOLEAN
    /\ strand \in Seq(JobNames)
    /\ job \in [pc : {"idle", "validate", "completed"}, message : {NoMessage}, seen : SUBSET kCompleted, parsed : {0}]
    /\ reader \in [pc : {"idle", "validate", "process", "verack", "notify", "next"}, message : Items,
                   seen : SUBSET kCompleted, parsed : 0..kMaxMessagesPerRead]
    /\ handshake \subseteq kCompleted /\ accepted \subseteq kCompleted
    /\ queue \in Seq(Items) /\ barrel \in [message : Items, rest : BOOLEAN]
    /\ is_writing \in BOOLEAN /\ {writes, reads, disconnects, completions, getaddrs, requests} \subseteq Nat
    /\ tls \in {"none", "pending", "secured"}
    /\ ping \in [pending : BOOLEAN, nonce : 0..MaxPings] /\ timer \in BOOLEAN
    /\ pinger \in 0..MaxPings /\ pings \in 0..MaxPings /\ arrivals \in 0..MaxReceived

\* How many jobs of a name are on the strand.
posted(name) == Cardinality({i \in DOMAIN strand : strand[i] = name})

\* No two operations use the same buffer: at most one write is in flight, and only while
\* is_writing_ is set; at most one read is in flight, being handled, or posted.
OneOperationEach ==
    /\ writes <= 1 /\ (writes = 1 => is_writing)
    /\ reads + (IF reader.pc = "idle" THEN 0 ELSE 1) + posted("start_read") <= 1

\* No message is left behind: while the session runs, a queued message or the rest of one being
\* sent has a write in progress, a start_write posted, or a stop posted (node.cpp:239, 257).
WakeupPending ==
    is_running /\ is_open /\ (queue # <<>> \/ barrel.rest) /\ ~is_writing
        => \E i \in DOMAIN strand : strand[i] \in {"start_write", "stop"}

\* The hub is told of the end of a session exactly once, after the socket is closed, and a session
\* being stopped always has its one on_stop_completed still to run.
EndsOnce ==
    /\ disconnects <= 1
    /\ disconnects = 1 <=> ~is_open
    /\ posted("on_stop_completed") = (IF status = "kStopping" THEN 1 ELSE 0)

\* on_handshake_completed is posted at most once ("Happens only once per session", node.cpp:633),
\* whatever the peer sends and however the two validations interleave.
CompletedOnce == completions <= 1

\* With a peer that follows the protocol, the first thing this node writes is its version message.
\* Any other peer may have our `addr` overtake it in the queue, as the check of node.cpp:639-644
\* takes its version and verack for an exchange of both versions.
VersionGoesFirst == Conforming /\ sent # {} => Knows("version")

\* A peer that follows the protocol is never dropped for an error in the handshake.
HandshakeRespected ==
    Conforming => fault \notin {"kInvalidProtocolHandShake", "kDuplicateProtocolHandShake"}

\* A stop always ends: the socket is closed and the hub is told.
StopCompletes == (status = "kStopping") ~> (disconnects = 1)

\* Every queued message is written, unless the session stops.
QueueDrains == (queue # <<>>) ~> (queue = <<>> \/ ~is_running)

\* "At least the `version` message must be exchanged before any other message type" (node.cpp:639):
\* when a message that is not part of the handshake is processed, both versions passed validation.
VersionsExchangedFirst ==
    reader.pc \in {"process", "notify"} /\ Flag("in", reader.message.type) = "none"
        => kVersionExchanged \subseteq accepted

\* io_strand_ is the "Serialized execution of reads and writes" (node.hpp:194): outside a validation,
\* protocol_handshake_status_ holds the flag of every handshake message that passed one.
FlagsKept ==
    job.pc # "validate" /\ reader.pc # "validate" => accepted \subseteq handshake

\* The phase of the session as the hub sees it: Stoppable's status does not tell a session that has
\* ended from one that has not begun, the report of its end does.
phase ==
    CASE status = "kStarted" -> "running"
      [] status = "kStopping" -> "stopping"
      [] OTHER -> IF disconnects = 0 THEN "new" ELSE "ended"

Contract == INSTANCE SessionContract WITH open <- is_open, pending <- requests

\* The session implements what the hub relies on (SessionContract): it is started once, its end is
\* reported once and with the socket closed, however often and by whomever it is stopped
\* (node.cpp:100-136), it hands no request to the hub once stopped, and a stop completes.
KeepsContract == Contract!FairSpec
=============================================================================
