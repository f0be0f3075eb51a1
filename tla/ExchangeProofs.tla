--------------------------- MODULE ExchangeProofs ---------------------------
(***************************************************************************)
(* The exchange of the versions with a peer that keeps to the protocol:    *)
(* every message passes validation on both sides, and our version is the   *)
(* first message we send.  The invariant is that of HandshakeProofs; here  *)
(* are the steps that take part in the exchange, and the theorems.         *)
(***************************************************************************)
EXTENDS HandshakeProofs

-----------------------------------------------------------------------------
(* The last steps that have no part in the exchange.                       *)

\* The rest of an `addr` is written.
LEMMA RestStep ==
    ASSUME SessionTypes, Sizes, Courteous, WriteRest
    PROVE  Courteous'
<1> USE DEF reading, pinging, shaking, ending
<1>1. job.pc = "idle" /\ strand # <<>> /\ finish(<<>>) /\ barrel.rest
  BY DEF WriteRest, runs
<1>2. NoneNew /\ job' = Idle /\ Idle.pc = "idle"
  <2>1. NoneNew
    BY <1>1, NoneWatched
  <2> QED BY Zenon, <1>1, <2>1 DEF finish, Idle
<1>3. UNCHANGED <<connection, tls, fault, queue, reader, received, handshake, timer, requests>>
  BY DEF WriteRest
<1>4. barrel' = EmptyBarrel /\ sent' = sent \cup {[barrel.message EXCEPT !.priority = 0]}
  BY DEF WriteRest, begin_write
<1>5. ~barrel'.rest
  BY <1>4 DEF EmptyBarrel
<1> HIDE DEF reading, pinging, shaking, ending
<1>6. QuietRest
  BY <1>2, <1>3 DEF QuietRest, NoneNew, Watched, Courteous
<1>7. QuietReader /\ QuietQueue
  BY <1>3 DEF QuietReader, QuietQueue
<1>8. QuietJob /\ QuietBarrel
  BY <1>1, <1>2, <1>4, <1>5 DEF QuietJob, QuietBarrel
<1> QED BY <1>2, <1>3, <1>6, <1>7, <1>8, QuietTlsKept, QuietPolite

\* A message that is not a version is processed, and handed to the hub.
LEMMA ReaderSteps ==
    ASSUME SessionTypes, Sizes, Courteous,
           (ProcessMessage /\ reader.message.type # "version") \/ NotifyHub \/ EndRead
    PROVE  Courteous'
<1> USE DEF writing, reading, pinging, shaking, ending
<1>j. {"stop", "start_write", "start_read", "on_stop_completed"} \subseteq JobNames \ Watched
  BY DEF JobNames, Watched
<1>i. Idle.pc = "idle" /\ Idle.parsed = 0 /\ NextMessage.pc = "next" /\ NextMessage.parsed = reader.parsed
  BY ReaderFields
<1>t. InTurn
  BY DEF Courteous
<1>1. CASE ProcessMessage /\ reader.message.type # "version"
  <2>1. reader.pc = "process" /\ Known /\ Heard
    BY <1>1, <1>t DEF ProcessMessage, InTurn
  <2>2. \/ queue' = queue /\ post(<<"stop">>)
        \/ push_message(answer(reader.message))
    BY <1>1 DEF ProcessMessage
  <2>3. answer(reader.message) = <<>> \/ answer(reader.message) = <<PingPong("pong", reader.message.nonce)>>
    BY <1>1 DEF answer
  <2>4. reader.message.nonce \in 0 .. MaxPings
    BY DEF SessionTypes, Items
  <2>5. NoneNew /\ (queue' = queue \/ queue' = emplace(queue, PingPong("pong", reader.message.nonce)))
    <3>1. CASE queue' = queue /\ post(<<"stop">>)
      BY <1>j, <3>1, NoneWatched
    <3>2. CASE push_message(answer(reader.message))
      BY <2>3, <3>2, PushesOne
    <3> QED BY <2>2, <3>1, <3>2
  <2>6. QuietQueue
    BY <2>1, <2>4, <2>5, OtherItems DEF QuietQueue
  <2>7. UNCHANGED <<connection, job, tls, barrel, sent, received, handshake, timer, requests>>
    BY <1>1 DEF ProcessMessage
  <2>8. reader' = Idle \/ reader' = NextMessage \/ reader' = [reader EXCEPT !.pc = "notify"]
    BY <1>1 DEF ProcessMessage, give_up
  <2>9. QuietReader
    <3>1. [reader EXCEPT !.pc = "notify"].pc = "notify" /\ [reader EXCEPT !.pc = "notify"].message = reader.message
          /\ [reader EXCEPT !.pc = "notify"].parsed = reader.parsed
      BY ReaderFields
    <3> QED BY Zenon, <1>1, <1>i, <2>1, <2>8, <3>1 DEF QuietReader
  <2>10. fault' \notin {"kInvalidProtocolHandShake", "kDuplicateProtocolHandShake"}
    BY <1>1 DEF ProcessMessage, give_up, refusal, Courteous
  <2>11. QuietRest
    BY <2>5, <2>7, <2>10 DEF QuietRest, NoneNew, Watched
  <2>12. QuietJob /\ QuietBarrel
    BY <2>7 DEF QuietJob, QuietBarrel
  <2> QED BY <2>5, <2>6, <2>7, <2>9, <2>11, <2>12, QuietTlsKept, QuietPolite
<1>2. CASE NotifyHub
  <2> DEFINE type == reader.message.type
  <2>1. reader.pc = "notify" /\ reader.message \in received
    BY <1>2, <1>t DEF NotifyHub, InTurn
  <2>2. type = "version" /\ ~Inbound => Known /\ Heard
    <3>1. type = "version" => Said("version")
      BY <2>1 DEF Said
    <3> QED BY <1>t, <2>1, <3>1 DEF InTurn, Heard
  <2>3. type = "getaddr" => Known /\ Heard
    BY <1>t, <2>1 DEF InTurn
  <2>4. \/ push_message(<<>>)
        \/ push_message(<<Message("addr", kNormal)>>) /\ type = "version" /\ ~Inbound
    BY <1>2 DEF NotifyHub, Inbound
  <2>5. NoneNew /\ (queue' = queue \/ (Known /\ Heard /\ queue' = emplace(queue, Message("addr", kNormal))))
    <3>1. CASE push_message(<<>>)
      BY <3>1, PushesOne
    <3>2. CASE push_message(<<Message("addr", kNormal)>>) /\ type = "version" /\ ~Inbound
      BY <2>2, <3>2, PushesOne
    <3> QED BY <2>4, <3>1, <3>2
  <2>6. QuietQueue
    BY <2>5, OtherItems DEF QuietQueue
  <2>7. UNCHANGED <<connection, job, tls, barrel, sent, received, handshake, timer, fault>> /\ reader' = NextMessage
    BY <1>2 DEF NotifyHub
  <2>8. QuietReader
    BY <1>i, <2>1, <2>7 DEF QuietReader
  <2>9. requests' = requests \/ (Known /\ Heard)
    BY <1>2, <2>3 DEF NotifyHub
  <2>10. QuietRest
    BY <2>5, <2>7, <2>9 DEF QuietRest, NoneNew, Watched, Courteous
  <2>11. QuietJob /\ QuietBarrel
    BY <2>7 DEF QuietJob, QuietBarrel
  <2> QED BY <2>5, <2>6, <2>7, <2>8, <2>10, <2>11, QuietTlsKept, QuietPolite
<1>3. CASE EndRead
  <2>1. reader.pc = "next" /\ reader' = Idle /\ NoneNew
    BY <1>3, <1>j, NoneWatched DEF EndRead
  <2>2. UNCHANGED <<connection, job, tls, queue, barrel, sent, received, handshake, timer, fault, requests>>
    BY <1>3 DEF EndRead
  <2>3. QuietReader
    BY <1>i, <2>1 DEF QuietReader
  <2>4. QuietRest
    BY <2>1, <2>2 DEF QuietRest, NoneNew, Watched, Courteous
  <2>5. QuietJob /\ QuietBarrel /\ QuietQueue
    BY <2>2 DEF QuietJob, QuietBarrel, QuietQueue
  <2> QED BY <2>1, <2>2, <2>3, <2>4, <2>5, QuietTlsKept, QuietPolite
<1> QED BY <1>1, <1>2, <1>3

-----------------------------------------------------------------------------
(* The steps of the exchange, one by one.                                  *)

\* What we sent.
LEMMA SentKept == ASSUME UNCHANGED sent PROVE Known' <=> Known
  BY DEF Known, Knows
\* What the peer said.
LEMMA ReceivedKept == ASSUME UNCHANGED received PROVE \A t : Said(t)' <=> Said(t)
  BY DEF Said
\* What the reader is at.
LEMMA ReaderKept ==
    ASSUME UNCHANGED <<received, reader>>
    PROVE  (Heard' <=> Heard) /\ (Met' <=> Met) /\ (AckDue' <=> AckDue) /\ \A t : Checking(t)' <=> Checking(t)
  BY ReceivedKept DEF Heard, Met, AckDue, Checking
\* What the strand is at.
LEMMA JobKept == ASSUME UNCHANGED <<job, barrel>> PROVE \A t : Taken(t)' <=> Taken(t)
  BY DEF Taken
\* What is queued.
LEMMA QueueKept ==
    ASSUME UNCHANGED queue PROVE \A t : (Queued(t)' <=> Queued(t)) /\ (QueuedOnce(t)' <=> QueuedOnce(t))
  BY DEF Queued, QueuedOnce

\* A version is queued on an empty queue, by the node that calls.
LEMMA PresentsVersion ==
    ASSUME SessionTypes, Sizes, Courteous, ~Inbound, ~Known, ~Heard, queue = <<>>, job.pc # "validate",
           queue' = emplace(queue, Message("version", kNormal)),
           UNCHANGED <<connection, handshake, received, sent, reader, job, barrel, timer, requests, fault>>,
           NoneNew, tls' = "none", ~OnStrand("start_ssl_handshake")'
    PROVE  Courteous'
<1> DEFINE m == Message("version", kNormal)
<1>1. m \in Items /\ m.type = "version"
  BY MessageItems DEF Message, MessageTypes
<1> HIDE DEF m
<1>2. ~Queued("version") /\ ~Queued("verack") /\ \A t : ~Queued(t)
  BY DEF Queued
<1>3. QueuedOnce("verack")
  BY DEF QueuedOnce
<1>4. /\ \A t : Queued(t)' => t = "version"
      /\ QueuedOnce("version")' /\ QueuedOnce("verack")'
  <2>1. queue' = emplace(queue, m) /\ queue \in Seq(Items)
    BY DEF m, Sizes
  <2>2. /\ \A t : Queued(t)' => Queued(t) \/ t = m.type
        /\ \A t : QueuedOnce(t) /\ t # m.type => QueuedOnce(t)'
        /\ ~Queued(m.type) => QueuedOnce(m.type)'
    BY <1>1, <2>1, PushedTypes
  <2> QED BY <1>1, <1>2, <1>3, <2>2
<1>5. /\ ~Known' /\ ~Heard' /\ ~Inbound' /\ (Met' <=> Met) /\ (AckDue' <=> AckDue)
      /\ (\A t : Checking(t)' <=> Checking(t)) /\ (\A t : Taken(t)' <=> Taken(t)) /\ \A t : Said(t)' <=> Said(t)
  BY Zenon, SentKept, ReaderKept, ReceivedKept, JobKept DEF Inbound
<1>6. InTurn'
  <2>1. InTurn /\ (Messages)' = Messages
    BY DEF Courteous, Messages
  <2> QED BY <1>5, <2>1 DEF InTurn
<1>7. VersionFlags'
  BY <1>5 DEF Courteous, VersionFlags
<1>8. Silence' /\ Answering'
  BY <1>5 DEF Courteous, Silence, Answering
<1>9. Presented'
  BY <1>4, <1>5 DEF Courteous, Presented, Taken
<1>10. Acknowledged'
  <2>1. AckUnsent => AckUnsent'
    BY DEF AckUnsent
  <2> QED BY <1>4, <1>5, <2>1 DEF Courteous, Acknowledged
<1>11. AckAccepted'
  BY <1>5 DEF Courteous, AckAccepted
<1>12. Later'
  <2>1. Later
    BY DEF Courteous
  <2> QED BY <1>4, <1>5, <2>1 DEF Later, NoneNew, Watched
<1> QED BY <1>6, <1>7, <1>8, <1>9, <1>10, <1>11, <1>12 DEF Courteous

\* Node::start.
LEMMA StartPolite ==
    ASSUME SessionTypes, Sizes, Fresh, Courteous, Untouched, Start
    PROVE  Courteous'
<1> USE DEF reading, pinging, shaking
<1>1. /\ strand = <<>> /\ job.pc = "idle" /\ reader.pc = "idle" /\ tls = "none" /\ queue = <<>>
      /\ requests = 0 /\ sent = {} /\ received = {}
  BY DEF Start, Fresh, Untouched
<1>2. ~Known /\ ~Heard /\ \A x : ~OnStrand(x)
  BY <1>1 DEF Known, Knows, Heard, Said, OnStrand
<1>3. UNCHANGED <<connection, job, tls, requests, fault, barrel, sent, reader, received, timer, handshake>>
  BY DEF Start
<1>4. CASE connection.transport = "tls"
  <2>1. post(<<"start_ssl_handshake">>) /\ queue' = queue
    BY <1>4 DEF Start
  <2>2. \A x : OnStrand(x)' => x = "start_ssl_handshake"
    BY <1>1, <2>1 DEF post, OnStrand
  <2>3. /\ (Known' <=> Known) /\ (Heard' <=> Heard) /\ (Inbound' <=> Inbound) /\ (Met' <=> Met) /\ (AckDue' <=> AckDue)
        /\ (\A t : Checking(t)' <=> Checking(t)) /\ (\A t : Taken(t)' <=> Taken(t)) /\ (\A t : Said(t)' <=> Said(t))
        /\ \A t : (Queued(t)' <=> Queued(t)) /\ (QueuedOnce(t)' <=> QueuedOnce(t))
    BY <1>3, <2>1, SentKept, ReaderKept, ReceivedKept, JobKept, QueueKept DEF Inbound
  <2>4. \A t : ~Queued(t) /\ ~Taken(t)
    BY <1>1 DEF Queued, Taken
  <2>5. InTurn'
    <3>1. InTurn /\ (Messages)' = Messages
      BY DEF Courteous, Messages
    <3> QED BY <1>3, <2>3, <3>1 DEF InTurn
  <2>6. VersionFlags'
    BY <1>3, <2>3 DEF Courteous, VersionFlags
  <2>7. Silence' /\ Answering'
    BY Zenon, <1>2, <1>3, <2>1, <2>3 DEF Courteous, Silence, Answering
  <2>8. Presented'
    BY <1>1, <1>2, <1>3, <2>3, <2>4 DEF Courteous, Presented
  <2>9. Acknowledged'
    <3>1. AckUnsent => AckUnsent'
      BY <1>3 DEF AckUnsent
    <3> QED BY <2>3, <3>1 DEF Courteous, Acknowledged
  <2>10. AckAccepted'
    BY <1>3, <2>3 DEF Courteous, AckAccepted
  <2>11. Later'
    BY <1>1, <1>3, <2>2, <2>3 DEF Courteous, Later
  <2> QED BY <1>3, <2>5, <2>6, <2>7, <2>8, <2>9, <2>10, <2>11 DEF Courteous
<1>5. CASE connection.transport # "tls" /\ connection.type = "kInbound"
  <2>1. post(<<"start_read">>) /\ queue' = queue
    BY <1>5 DEF Start
  <2>2. \A x : OnStrand(x)' => x = "start_read"
    BY <1>1, <2>1 DEF post, OnStrand
  <2>3. NoneNew
    BY <2>2 DEF NoneNew, Watched
  <2>4. QuietRest
    BY <1>3, <2>3 DEF QuietRest, NoneNew, Watched, Courteous
  <2>5. QuietJob /\ QuietReader /\ QuietQueue /\ QuietBarrel
    BY <1>3, <2>1 DEF QuietJob, QuietReader, QuietQueue, QuietBarrel
  <2> QED BY <1>3, <2>3, <2>4, <2>5, QuietTlsKept, QuietPolite
<1>6. CASE connection.transport # "tls" /\ connection.type # "kInbound"
  <2>1. post(<<"start_read", "start_write">>) /\ queue' = emplace(queue, Message("version", kNormal))
    BY <1>6 DEF Start
  <2>2. \A x : OnStrand(x)' => x \in {"start_read", "start_write"}
    BY <1>1, <2>1 DEF post, OnStrand
  <2>3. NoneNew /\ ~OnStrand("start_ssl_handshake")'
    BY <2>2 DEF NoneNew, Watched
  <2>4. ~Inbound
    BY <1>6 DEF Inbound
  <2> QED BY <1>1, <1>2, <1>3, <2>1, <2>3, <2>4, PresentsVersion
<1> QED BY <1>4, <1>5, <1>6

\* The version of the node that called, once the transport is secured.
LEMMA PresentPolite ==
    ASSUME SessionTypes, Sizes, Courteous, PresentAfterTls
    PROVE  Courteous'
<1> USE DEF reading, pinging, shaking
<1>1. tls = "secured" /\ tls' = "none" /\ push_message(<<Message("version", kNormal)>>)
      /\ UNCHANGED <<connection, job, requests, fault, barrel, sent, reader, received, timer, handshake>>
  BY DEF PresentAfterTls
<1>2. /\ ~Inbound /\ ~OnStrand("start_ssl_handshake") /\ ~Known /\ ~Queued("version") /\ ~Taken("version")
      /\ (\A t \in Types : Queued(t) => t = "version") /\ job.pc # "validate"
  BY <1>1 DEF Courteous, Presented
<1>3. queue = <<>>
  BY <1>2, NothingQueued DEF Sizes
<1>4. ~Heard
  BY <1>2 DEF Courteous, InTurn, Heard
<1>5. NoneNew /\ queue' = emplace(queue, Message("version", kNormal))
  BY <1>1, PushesOne
<1>6. ~OnStrand("start_ssl_handshake")'
  BY <1>2, <1>5 DEF NoneNew, Watched
<1> QED BY <1>1, <1>2, <1>3, <1>4, <1>5, <1>6, PresentsVersion

\* start_write takes a message: the version of the node that was called comes before its verack.
LEMMA TakePolite ==
    ASSUME SessionTypes, Sizes, Courteous, TakeMessage
    PROVE  Courteous'
<1> USE DEF reading, pinging, shaking
<1> DEFINE top == Head(queue).type
<1>1. /\ job.pc = "idle" /\ queue # <<>> /\ queue' = pop(queue) /\ barrel' = [message |-> Head(queue), rest |-> FALSE]
      /\ job' = [Idle EXCEPT !.pc = "validate", !.seen = handshake]
      /\ UNCHANGED <<connection, strand, tls, requests, fault, sent, reader, received, timer, handshake>>
  BY DEF TakeMessage, runs
<1>2. job'.pc = "validate" /\ job'.seen = handshake /\ barrel'.message.type = top /\ ~barrel'.rest
  BY <1>1 DEF Idle
<1>3. /\ \A t : Queued(t)' => Queued(t)
      /\ \A t : QueuedOnce(t) => QueuedOnce(t)'
      /\ Queued(top) /\ top \in Types
      /\ \A t : t = top /\ QueuedOnce(t) => ~Queued(t)'
  BY <1>1, PoppedTypes DEF Sizes
<1>4. \A t : ~Taken(t) /\ (Taken(t)' <=> t = top)
  BY <1>1, <1>2 DEF Taken
<1>5. /\ (Known' <=> Known) /\ (Heard' <=> Heard) /\ (Inbound' <=> Inbound) /\ (Met' <=> Met) /\ (AckDue' <=> AckDue)
      /\ (\A t : Checking(t)' <=> Checking(t)) /\ (\A t : Said(t)' <=> Said(t)) /\ (\A x : OnStrand(x)' <=> OnStrand(x))
  <2>1. \A x : OnStrand(x)' <=> OnStrand(x)
    BY <1>1 DEF OnStrand
  <2> QED BY <1>1, <2>1, SentKept, ReaderKept, ReceivedKept DEF Inbound
<1>a. Answering'
  <2>0. OurVersion \in Items /\ OurVerack \in Items /\ OurVersion.type = "version"
    BY MessageItems DEF OurVersion, OurVerack, Message, MessageTypes
  <2>1. SUFFICES ASSUME Inbound, Heard, ~Known PROVE
           \/ reader'.pc = "verack" /\ queue' = <<>> /\ Taken("version")'
           \/ reader'.pc # "verack" /\ queue' = <<OurVerack>> /\ Taken("version")'
    <3>1. OurVerack' = OurVerack
      BY DEF OurVerack
    <3> QED BY <1>5, <3>1 DEF Answering
  <2>2. \/ reader.pc = "verack" /\ queue = <<OurVersion>>
        \/ reader.pc # "verack" /\ queue = <<OurVersion, OurVerack>>
    BY <1>1, <2>1 DEF Courteous, Answering, Taken
  <2>3. CASE reader.pc = "verack" /\ queue = <<OurVersion>>
    <3>1. top = "version"
      BY <2>0, <2>3
    <3>2. queue' = <<>>
      BY <1>1, <2>0, <2>3, PopOnly
    <3> QED BY <1>1, <1>4, <2>3, <3>1, <3>2
  <2>4. CASE reader.pc # "verack" /\ queue = <<OurVersion, OurVerack>>
    <3>1. top = "version"
      BY <2>0, <2>4
    <3>2. queue' = <<OurVerack>>
      BY <1>1, <2>0, <2>4, PopFirst
    <3> QED BY <1>1, <1>4, <2>4, <3>1, <3>2
  <2> QED BY <2>2, <2>3, <2>4
<1> HIDE DEF top, reading, pinging, shaking
<1>6. InTurn'
  <2>1. InTurn /\ (Messages)' = Messages
    BY DEF Courteous, Messages
  <2> QED BY <1>1, <1>5, <2>1 DEF InTurn
<1>7. VersionFlags'
  BY <1>1, <1>2, <1>5 DEF Courteous, VersionFlags
<1>8. Silence'
  <2>1. ~(~Heard /\ (Inbound \/ Known))
    BY <1>1 DEF Courteous, Silence
  <2> QED BY <1>1, <1>5, <2>1 DEF Courteous, Silence
<1>9. Presented'
  <2>1. Presented
    BY DEF Courteous
  <2> QED BY <1>1, <1>2, <1>3, <1>4, <1>5, <2>1 DEF Presented
<1>10. Acknowledged'
  <2>1. AckUnsent => AckUnsent'
    BY <1>1, <1>2 DEF AckUnsent
  <2> QED BY <1>3, <1>4, <1>5, <2>1 DEF Courteous, Acknowledged
<1>11. AckAccepted'
  BY <1>1, <1>2, <1>5 DEF Courteous, AckAccepted
<1>12. Later'
  <2>1. Later
    BY DEF Courteous
  <2> QED BY <1>1, <1>2, <1>3, <1>4, <1>5, <2>1 DEF Later
<1> QED BY <1>1, <1>a, <1>6, <1>7, <1>8, <1>9, <1>10, <1>11, <1>12 DEF Courteous

\* process_inbound_message answers the version of the peer: with ours, if it was not sent.
LEMMA ProcessVersionPolite ==
    ASSUME SessionTypes, Sizes, Courteous, ProcessMessage, reader.message.type = "version"
    PROVE  Courteous'
<1> USE DEF reading, pinging, shaking, ending
<1>1. reader.pc = "process" /\ refusal(reader.message) = "success"
  BY DEF ProcessMessage, refusal
<1>2. /\ push_message(answer(reader.message)) /\ reader' = [reader EXCEPT !.pc = "verack"]
      /\ UNCHANGED <<connection, job, tls, requests, fault, barrel, sent, received, timer, handshake>>
  BY <1>1 DEF ProcessMessage
<1> HIDE DEF reading, pinging, shaking, ending
<1>3. reader'.pc = "verack" /\ reader'.message = reader.message /\ reader'.parsed = reader.parsed
  BY <1>2, ReaderFields
<1>4. Said("version") /\ reader.message \in received /\ (Inbound \/ Known) /\ Met /\ ~Heard /\ AckDue
  <2>1. reader.message \in received
    BY <1>1 DEF Courteous, InTurn
  <2>2. Said("version")
    BY <2>1 DEF Said
  <2> QED BY <1>1, <2>1, <2>2 DEF Courteous, InTurn, Met, Heard, Checking, AckDue
<1>5. queue = <<>> /\ job.pc # "validate" /\ (Inbound <=> ~Known)
  BY <1>4 DEF Courteous, Silence
<1>6. /\ (Known' <=> Known) /\ Heard' /\ (Inbound' <=> Inbound) /\ Met' /\ AckDue'
      /\ (\A t : ~Checking(t)' /\ ~Checking(t)) /\ (\A t : Said(t)' <=> Said(t)) /\ \A t : ~Taken(t) /\ ~Taken(t)'
  <2>1. \A t : Said(t)' <=> Said(t)
    BY <1>2, ReceivedKept
  <2>2. Known' <=> Known
    BY <1>2, SentKept
  <2> QED BY <1>1, <1>2, <1>3, <1>4, <1>5, <2>1, <2>2 DEF Heard, Met, AckDue, Checking, Taken, Inbound
<1>7. /\ \A t : Queued(t)' => t = "version" /\ Inbound /\ ~Known
      /\ QueuedOnce("version")' /\ QueuedOnce("verack")' /\ NoneNew
      /\ Inbound => queue' = <<OurVersion>>
  <2>1. "kVersionSent" \in handshake <=> Known
    BY DEF Courteous, VersionFlags
  <2>2. CASE Known
    <3>1. answer(reader.message) = <<>>
      BY <2>1, <2>2 DEF answer
    <3>2. queue' = <<>> /\ NoneNew
      BY <1>2, <1>5, <3>1, PushesOne
    <3> QED BY <1>5, <2>2, <3>2 DEF Queued, QueuedOnce
  <2>3. CASE ~Known
    <3>1. answer(reader.message) = <<OurVersion>>
      BY <2>1, <2>3 DEF answer, OurVersion
    <3>2. OurVersion \in Items /\ OurVersion.type = "version"
      BY MessageItems DEF OurVersion, Message, MessageTypes
    <3>3. queue' = emplace(queue, OurVersion) /\ NoneNew
      BY <1>2, <3>1, PushesOne
    <3>4. queue' = <<OurVersion>>
      BY <1>5, <3>2, <3>3, EmplaceFirst
    <3> HIDE DEF OurVersion
    <3> QED BY <1>5, <2>3, <3>2, <3>3, <3>4 DEF Queued, QueuedOnce
  <2> QED BY <2>2, <2>3
<1>8. InTurn'
  <2>1. InTurn /\ (Messages)' = Messages
    BY DEF Courteous, Messages
  <2>2. \A m \in received : m.type = "version"
    BY <1>4, <2>1 DEF InTurn
  <2>3. \A m \in sent : m.type \in {"version", "verack"}
    BY <1>4, <2>1 DEF InTurn
  <2> QED BY <1>2, <1>3, <1>4, <1>6, <2>1, <2>2, <2>3 DEF InTurn
<1>9. VersionFlags'
  BY <1>2, <1>3, <1>4, <1>5, <1>6 DEF Courteous, VersionFlags
<1>10. Silence'
  BY <1>2, <1>6 DEF Courteous, Silence
<1>11. Answering'
  <2>1. OurVersion' = OurVersion
    BY DEF OurVersion
  <2> QED BY <1>2, <1>3, <1>5, <1>6, <1>7, <2>1 DEF Answering
<1>12. Presented'
  <2>1. Presented
    BY DEF Courteous
  <2> QED BY <1>2, <1>5, <1>6, <1>7, <2>1 DEF Presented, NoneNew, Watched
<1>13. Acknowledged'
  <2>1. AckUnsent => AckUnsent'
    BY <1>2, <1>3 DEF AckUnsent
  <2> QED BY <1>4, <1>6, <1>7, <2>1 DEF Courteous, Acknowledged
<1>14. AckAccepted'
  BY <1>2, <1>3, <1>6 DEF Courteous, AckAccepted
<1>15. Later'
  <2>1. Later
    BY DEF Courteous
  <2> QED BY <1>2, <1>4, <1>5, <1>6, <1>7, <2>1 DEF Later, NoneNew, Watched
<1> QED BY <1>2, <1>8, <1>9, <1>10, <1>11, <1>12, <1>13, <1>14, <1>15 DEF Courteous

\* ... and acknowledges it.
LEMMA AcknowledgePolite ==
    ASSUME SessionTypes, Sizes, Courteous, AcknowledgeVersion
    PROVE  Courteous'
<1> USE DEF pinging, shaking, ending
<1>1. /\ reader.pc = "verack" /\ push_message(<<Message("verack", kHigh)>>) /\ reader' = [reader EXCEPT !.pc = "notify"]
      /\ UNCHANGED <<connection, job, tls, requests, fault, barrel, sent, received, timer, handshake>>
  BY DEF AcknowledgeVersion
<1> HIDE DEF pinging, shaking, ending
<1>2. reader'.pc = "notify" /\ reader'.message = reader.message /\ reader'.parsed = reader.parsed
  BY <1>1, ReaderFields
<1>3. /\ reader.message \in received /\ reader.message.type = "version" /\ Said("version")
      /\ (Inbound \/ Known) /\ Met /\ Heard /\ AckDue
  <2>1. reader.message \in received /\ reader.message.type = "version"
    BY <1>1 DEF Courteous, InTurn
  <2>2. Said("version")
    BY <2>1 DEF Said
  <2> QED BY <1>1, <2>1, <2>2 DEF Courteous, InTurn, Met, Heard, Checking, AckDue
<1>4. /\ (Known' <=> Known) /\ Heard' /\ (Inbound' <=> Inbound) /\ Met' /\ ~AckDue'
      /\ (\A t : ~Checking(t)' /\ ~Checking(t)) /\ (\A t : Said(t)' <=> Said(t)) /\ \A t : Taken(t)' <=> Taken(t)
  <2>1. \A t : Said(t)' <=> Said(t)
    BY <1>1, ReceivedKept
  <2>2. Known' <=> Known
    BY <1>1, SentKept
  <2> QED BY <1>1, <1>2, <1>3, <2>1, <2>2 DEF Heard, Met, AckDue, Checking, Taken, Inbound
<1>5. ~Queued("verack") /\ ~Taken("verack") /\ AckUnsent
  BY <1>3 DEF Courteous, Acknowledged
<1>v. OurVersion \in Items /\ OurVerack \in Items /\ OurVersion.priority = OurVerack.priority /\ OurVerack.type = "verack"
  BY MessageItems DEF OurVersion, OurVerack, Message, MessageTypes
<1>6. queue' = emplace(queue, OurVerack) /\ NoneNew
  BY <1>1, PushesOne DEF OurVerack
<1>7. /\ \A t : Queued(t)' => Queued(t) \/ t = "verack"
      /\ QueuedOnce("version") => QueuedOnce("version")'
      /\ QueuedOnce("verack")'
  <2>1. queue \in Seq(Items)
    BY DEF Sizes
  <2>2. /\ \A t : Queued(t)' => Queued(t) \/ t = OurVerack.type
        /\ \A t : QueuedOnce(t) /\ t # OurVerack.type => QueuedOnce(t)'
        /\ ~Queued(OurVerack.type) => QueuedOnce(OurVerack.type)'
    BY <1>v, <1>6, <2>1, PushedTypes DEF OurVerack
  <2> QED BY <1>v, <1>5, <2>2
<1>8. InTurn'
  <2>1. InTurn /\ (Messages)' = Messages
    BY DEF Courteous, Messages
  <2> QED BY <1>1, <1>2, <1>3, <1>4, <2>1 DEF InTurn
<1>9. VersionFlags'
  BY <1>1, <1>2, <1>3, <1>4 DEF Courteous, VersionFlags
<1>10. Silence'
  BY <1>1, <1>4 DEF Courteous, Silence
<1>11. Answering'
  <2>1. SUFFICES ASSUME Inbound, ~Known PROVE
           \/ queue' = <<OurVersion, OurVerack>> /\ job.pc # "validate"
           \/ queue' = <<OurVerack>> /\ Taken("version")
    <3>1. OurVersion' = OurVersion /\ OurVerack' = OurVerack
      BY DEF OurVersion, OurVerack
    <3> QED BY <1>1, <1>2, <1>4, <3>1 DEF Answering
  <2>2. \/ queue = <<OurVersion>> /\ job.pc # "validate"
        \/ queue = <<>> /\ Taken("version")
    BY <1>1, <1>3, <2>1 DEF Courteous, Answering
  <2>3. CASE queue = <<OurVersion>> /\ job.pc # "validate"
    <3>1. emplace(<<OurVersion>>, OurVerack) = <<OurVersion, OurVerack>>
      BY <1>v, EmplaceSecond
    <3> QED BY <1>6, <2>3, <3>1
  <2>4. CASE queue = <<>> /\ Taken("version")
    <3>1. emplace(<<>>, OurVerack) = <<OurVerack>>
      BY <1>v, EmplaceFirst
    <3> QED BY <1>6, <2>4, <3>1
  <2> QED BY <2>2, <2>3, <2>4
<1>12. Presented'
  <2>1. Presented
    BY DEF Courteous
  <2> QED BY <1>1, <1>3, <1>4, <1>6, <1>7, <2>1 DEF Presented, NoneNew, Watched
<1>13. Acknowledged'
  <2>1. AckUnsent'
    BY <1>1, <1>2, <1>5 DEF AckUnsent
  <2> QED BY <1>4, <1>5, <1>7, <2>1 DEF Courteous, Acknowledged
<1>14. AckAccepted'
  BY <1>1, <1>2, <1>4 DEF Courteous, AckAccepted
<1>15. Later'
  <2>1. Later
    BY DEF Courteous
  <2> QED BY <1>1, <1>3, <1>4, <1>6, <1>7, <2>1 DEF Later, NoneNew, Watched
<1> QED BY <1>1, <1>8, <1>9, <1>10, <1>11, <1>12, <1>13, <1>14, <1>15 DEF Courteous

\* A conforming peer says nothing twice.
LEMMA SaidOnce ==
    ASSUME InTurn, NEW m \in Messages, m \notin received, m.type \in {"version", "verack"}
    PROVE  ~Said(m.type)
<1>1. \A a, b \in Messages : a.type \in {"version", "verack"} /\ a.type = b.type => a = b
  BY DEF Messages, Message, PingPong
<1> QED BY <1>1 DEF InTurn, Said

\* A message of the peer is parsed.
LEMMA ReadPolite ==
    ASSUME SessionTypes, Sizes, Courteous, Conforming, NEW m \in Messages, ReadMessage(m)
    PROVE  Courteous'
<1> USE DEF writing, pinging, shaking, ending
<1>1. /\ reader.pc \in {"idle", "next"} /\ PeerFollowsProtocol(m) /\ received' = received \cup {m}
      /\ reader' = [reader EXCEPT !.pc = "validate", !.message = m, !.seen = handshake]
      /\ UNCHANGED <<connection, strand, job, tls, requests, fault, queue, barrel, sent, timer, handshake>>
  BY DEF ReadMessage, PeerSends
<1> HIDE DEF writing, pinging, shaking, ending
<1>2. reader'.pc = "validate" /\ reader'.message = m /\ reader'.seen = handshake /\ reader'.parsed = reader.parsed
  BY <1>1, ReaderFields
<1>t. InTurn /\ (Messages)' = Messages
  BY DEF Courteous, Messages
<1>3. /\ (Known' <=> Known) /\ (Inbound' <=> Inbound) /\ (\A t : Taken(t)' <=> Taken(t))
      /\ (\A x : OnStrand(x)' <=> OnStrand(x))
      /\ \A t : (Queued(t)' <=> Queued(t)) /\ (QueuedOnce(t)' <=> QueuedOnce(t))
  <2>1. \A x : OnStrand(x)' <=> OnStrand(x)
    BY <1>1 DEF OnStrand
  <2> QED BY <1>1, <2>1, SentKept, JobKept, QueueKept DEF Inbound
<1>4. /\ \A t : Said(t)' <=> Said(t) \/ t = m.type
      /\ \A t : ~Checking(t) /\ (Checking(t)' <=> t = m.type)
      /\ (Heard <=> Said("version")) /\ (Met <=> Said("version")) /\ (AckDue <=> ~Said("version"))
  BY <1>1, <1>2 DEF Said, Checking, Heard, Met, AckDue
<1>5. m.type # "badversion"
  BY <1>1 DEF PeerFollowsProtocol
<1>o. OurVersion' = OurVersion /\ OurVerack' = OurVerack
  BY DEF OurVersion, OurVerack
<1>6. CASE m.type = "version"
  <2>1. ~Said("version") /\ (Inbound \/ Known)
    <3>1. ~Said("version")
      BY Zenon, <1>1, <1>6, <1>t, SaidOnce DEF PeerFollowsProtocol
    <3> QED BY <1>1, <1>6, <3>1 DEF PeerFollowsProtocol, Inbound, Known
  <2>2. ~Heard /\ ~Heard' /\ ~Met /\ ~Met' /\ AckDue /\ AckDue' /\ Said("version")'
    BY <1>2, <1>4, <1>6, <2>1 DEF Heard, Met, AckDue
  <2>3. InTurn'
    <3>1. \A n \in received' : n.type = "version"
      BY Zenon, <1>1, <1>6, <1>t, <2>2 DEF InTurn
    <3>2. ~Said("badversion")'
      BY <1>4, <1>5, <1>t DEF InTurn
    <3> QED BY <1>1, <1>2, <1>3, <1>6, <1>t, <2>1, <2>2, <3>1, <3>2 DEF InTurn
  <2>4. VersionFlags'
    BY <1>1, <1>2, <1>3, <2>2 DEF Courteous, VersionFlags
  <2>5. Silence' /\ Answering'
    BY <1>1, <1>3, <2>2 DEF Courteous, Silence, Answering
  <2>6. Presented'
    BY <1>1, <1>3 DEF Courteous, Presented
  <2>7. Acknowledged'
    <3>1. AckUnsent => AckUnsent'
      BY <1>1, <1>2 DEF AckUnsent
    <3> QED BY <1>3, <2>2, <3>1 DEF Courteous, Acknowledged
  <2>8. AckAccepted'
    BY <1>1, <1>2, <1>4, <1>6 DEF Courteous, AckAccepted
  <2>9. Later'
    BY <1>1, <1>3, <2>2 DEF Courteous, Later
  <2> QED BY <1>1, <2>3, <2>4, <2>5, <2>6, <2>7, <2>8, <2>9 DEF Courteous
<1>7. CASE m.type # "version"
  <2>1. Known /\ Said("version")
    <3>1. Said("verack") => Known /\ Heard
      BY <1>t DEF InTurn, Said
    <3>2. CASE m.type = "verack"
      BY <1>1, <3>2 DEF PeerFollowsProtocol, Known
    <3>3. CASE m.type = "pong"
      <4>1. PingPong("ping", m.nonce) \in sent /\ PingPong("ping", m.nonce).type = "ping"
        BY <1>1, <3>3 DEF PeerFollowsProtocol, PingPong
      <4> QED BY <1>4, <1>t, <4>1 DEF InTurn
    <3>4. CASE m.type \notin {"verack", "pong"}
      BY <1>1, <1>4, <1>5, <1>7, <3>1, <3>4 DEF PeerFollowsProtocol
    <3> QED BY <3>2, <3>3, <3>4
  <2>2. Heard /\ Heard' /\ Met /\ Met' /\ ~AckDue /\ ~AckDue'
    BY <1>2, <1>4, <1>7, <2>1 DEF Heard, Met, AckDue
  <2>3. InTurn'
    <3>1. ~Said("badversion")'
      BY <1>4, <1>5, <1>t DEF InTurn
    <3> QED BY <1>1, <1>2, <1>3, <1>t, <2>1, <2>2, <3>1 DEF InTurn
  <2>4. VersionFlags'
    BY <1>1, <1>2, <1>3, <2>2 DEF Courteous, VersionFlags
  <2>5. Silence' /\ Answering'
    BY <1>1, <1>3, <2>1, <2>2 DEF Courteous, Silence, Answering
  <2>6. Presented'
    BY <1>1, <1>3 DEF Courteous, Presented
  <2>7. Acknowledged'
    <3>1. AckUnsent => AckUnsent'
      BY <1>1, <1>2 DEF AckUnsent
    <3> QED BY <1>3, <2>2, <3>1 DEF Courteous, Acknowledged
  <2>8. AckAccepted'
    <3>1. AckAccepted
      BY DEF Courteous
    <3>2. CASE m.type = "verack"
      <4>1. ~Said("verack")
        BY <1>1, <1>t, <3>2, SaidOnce DEF PeerFollowsProtocol
      <4> QED BY <1>1, <1>2, <1>4, <3>1, <4>1 DEF AckAccepted
    <3>3. CASE m.type # "verack"
      BY <1>1, <1>2, <1>4, <3>1, <3>3 DEF AckAccepted
    <3> QED BY <3>2, <3>3
  <2>9. Later'
    BY Zenon, <1>1, <1>3, <2>2 DEF Courteous, Later
  <2> QED BY <1>1, <2>3, <2>4, <2>5, <2>6, <2>7, <2>8, <2>9 DEF Courteous
<1> QED BY <1>6, <1>7

\* A status with both versions lets any message pass that sets no flag.
LEMMA ExchangedValue ==
    ASSUME NEW seen \in SUBSET kCompleted, "kVersionSent" \in seen, "kVersionReceived" \in seen
    PROVE  ~(StatusValue(seen) < StatusValue(kVersionExchanged))
<1>1. StatusValue(kVersionExchanged) = 3
  BY DEF StatusValue, FlagValue, kVersionExchanged
<1>2. FlagValue(seen, "kVersionSent", 1) = 1 /\ FlagValue(seen, "kVersionReceived", 2) = 2
  BY DEF FlagValue
<1>3. FlagValue(seen, "kVerAckSent", 4) \in {0, 4} /\ FlagValue(seen, "kVerAckReceived", 8) \in {0, 8}
  BY DEF FlagValue
<1> QED BY <1>1, <1>2, <1>3 DEF StatusValue

\* The jobs that the exchange of the status posts.
LEMMA CompletedJobs ==
    /\ completed_jobs \in Seq(JobNames) /\ completed_jobs \o <<"stop">> \in Seq(JobNames)
    /\ \A i \in DOMAIN completed_jobs : completed_jobs[i] = "on_handshake_completed" /\ completions' # completions
    /\ \A i \in DOMAIN (completed_jobs \o <<"stop">>) :
          (completed_jobs \o <<"stop">>)[i] = "stop"
          \/ ((completed_jobs \o <<"stop">>)[i] = "on_handshake_completed" /\ completions' # completions)
<1>1. {"stop", "on_handshake_completed"} \subseteq JobNames
  BY DEF JobNames
<1>2. CASE completions' = completions
  <2>1. completed_jobs = <<>>
    BY <1>2 DEF completed_jobs
  <2> QED BY <1>1, <2>1
<1>3. CASE completions' # completions
  <2>1. completed_jobs = <<"on_handshake_completed">>
    BY <1>3 DEF completed_jobs
  <2>2. completed_jobs \in Seq(JobNames)
        /\ \A i \in DOMAIN completed_jobs : completed_jobs[i] = "on_handshake_completed"
    BY <1>1, <2>1
  <2>3. <<"stop">> \in Seq(JobNames) /\ \A i \in DOMAIN <<"stop">> : <<"stop">>[i] = "stop"
    BY <1>1
  <2> DEFINE a == completed_jobs
             b == <<"stop">>
  <2> HIDE DEF a, b
  <2>4. a \o b \in Seq(JobNames) /\ \A i \in DOMAIN (a \o b) : (a \o b)[i] \in {"stop", "on_handshake_completed"}
    <3>1. a \in Seq(JobNames) /\ b \in Seq(JobNames) /\ Len(a) \in Nat /\ Len(b) \in Nat
      BY <2>2, <2>3 DEF a, b
    <3>2. a \o b \in Seq(JobNames) /\ Len(a \o b) = Len(a) + Len(b)
      BY <3>1
    <3>3. \A i \in 1 .. Len(a) + Len(b) : (a \o b)[i] = IF i <= Len(a) THEN a[i] ELSE b[i - Len(a)]
      BY <3>1
    <3>4. (\A i \in 1 .. Len(a) : a[i] = "on_handshake_completed") /\ \A i \in 1 .. Len(b) : b[i] = "stop"
      BY <2>2, <2>3, <3>1 DEF a, b
    <3>5. \A i \in 1 .. Len(a) + Len(b) : i \in 1 .. Len(a) \/ i - Len(a) \in 1 .. Len(b)
      BY <3>1
    <3>6. \A i \in 1 .. Len(a) + Len(b) : (a \o b)[i] \in {"stop", "on_handshake_completed"}
      BY <3>1, <3>3, <3>4, <3>5
    <3> QED BY <3>2, <3>6
  <2> QED BY <1>3, <2>2, <2>4 DEF a, b
<1> QED BY <1>2, <1>3

\* The message of a conforming peer passes validation, and the status it sets is right.
LEMMA AcceptPolite ==
    ASSUME SessionTypes, Sizes, Courteous, AcceptMessage
    PROVE  Courteous'
<1> USE DEF writing, pinging, shaking, ending
<1> DEFINE type == reader.message.type
           flag == Flag("in", type)
<1>t. InTurn /\ (Messages)' = Messages
  BY DEF Courteous, Messages
<1>f. VersionFlags /\ Acknowledged /\ AckAccepted
  BY DEF Courteous
<1>1. /\ reader.pc = "validate" /\ reader.message \in received /\ reader.seen \in SUBSET kCompleted
      /\ Said("version") /\ (Inbound \/ Known) /\ type # "badversion"
  <2>1. reader.pc = "validate" /\ reader.message \in received /\ reader.seen \in SUBSET kCompleted
    BY <1>t DEF AcceptMessage, InTurn, SessionTypes
  <2>2. Said("version")
    BY <1>t, <2>1 DEF InTurn, Heard, Said
  <2>3. type # "badversion"
    BY Zenon, <1>t, <2>1 DEF InTurn, Said
  <2> QED BY <1>t, <2>1, <2>2, <2>3 DEF InTurn
<1>2. type # "version" => Known /\ Heard /\ Met
  BY <1>1, <1>t DEF InTurn, Heard, Met, Checking
<1>3. type = "version" => ~Met /\ ~Heard /\ AckDue /\ job.pc # "validate"
  BY <1>1 DEF Met, Checking, Heard, AckDue, Courteous, Silence
<1>4. ("kVersionSent" \in reader.seen <=> Known) /\ ("kVersionReceived" \in reader.seen <=> Met)
  BY <1>1, <1>f DEF VersionFlags
<1>g. flag = IF type = "version" THEN "kVersionReceived" ELSE IF type = "verack" THEN "kVerAckReceived" ELSE "none"
  BY <1>1 DEF Flag
<1>5. validate(reader.seen, "in", type) = "success"
  <2>1. CASE type = "version"
    BY <1>3, <1>4, <2>1 DEF validate, Flag, kVersionExchanged
  <2>2. CASE type = "verack"
    <3>1. "kVerAckReceived" \notin reader.seen
      BY <1>1, <1>f, <2>2 DEF AckAccepted, Checking
    <3> QED BY <1>2, <1>4, <2>2, <3>1 DEF validate, Flag
  <2>3. CASE type \notin {"version", "verack"}
    <3>1. ~(StatusValue(reader.seen) < StatusValue(kVersionExchanged))
      BY <1>1, <1>2, <1>4, <2>3, ExchangedValue
    <3>2. Flag("in", type) = "none"
      BY <1>1, <2>3 DEF Flag
    <3> QED BY <1>2, <1>4, <2>3, <3>1, <3>2 DEF validate
  <2> QED BY <2>1, <2>2, <2>3
<1>6. /\ exchange_status(reader.seen, flag)
      /\ UNCHANGED <<connection, job, tls, requests, queue, barrel, sent, received, timer>>
      /\ \/ /\ flooded(reader.parsed) /\ give_up("kMessageFloodingDetected") /\ post(completed_jobs \o <<"stop">>)
         \/ /\ reader' = [reader EXCEPT !.pc = "process", !.seen = {}, !.parsed = @ + 1]
            /\ post(completed_jobs) /\ fault' = fault
  BY <1>5 DEF AcceptMessage
<1> HIDE DEF writing, pinging, shaking, ending, type, flag
<1>7. reader'.pc \in {"idle", "process"} /\ (reader'.pc = "process" => reader'.message = reader.message)
      /\ (reader'.pc = "idle" => flooded(reader.parsed) /\ reader'.parsed = 0)
  BY Zenon, <1>6, ReaderFields DEF give_up
<1>8. type = "version" => reader'.pc = "process"
  <2>1. type = "version" => reader.parsed = 0
    BY <1>3, <1>t DEF InTurn
  <2>2. kMaxMessagesPerRead \in Nat /\ kMaxMessagesPerRead >= 1
    BY SessionAssumption
  <2> QED BY <1>7, <2>1, <2>2 DEF flooded
<1>9. fault' \notin {"kInvalidProtocolHandShake", "kDuplicateProtocolHandShake"}
  BY <1>6 DEF give_up, Courteous
<1>10. /\ (Known' <=> Known) /\ (Inbound' <=> Inbound) /\ (\A t : Taken(t)' <=> Taken(t))
       /\ (\A t : (Queued(t)' <=> Queued(t)) /\ (QueuedOnce(t)' <=> QueuedOnce(t)))
       /\ (\A t : Said(t)' <=> Said(t)) /\ (\A t : ~Checking(t)')
  BY <1>6, <1>7, SentKept, JobKept, QueueKept, ReceivedKept DEF Inbound, Checking
<1>11. Met' /\ (Heard' <=> Heard) /\ (AckDue' <=> AckDue)
  <2>1. Met'
    BY <1>1, <1>10 DEF Met
  <2>0. Said("version")'
    BY <1>1, <1>10
  <2>2. CASE type = "version"
    <3>1. reader'.pc = "process" /\ reader'.message.type = "version"
      BY <1>7, <1>8, <2>2 DEF type
    <3> QED BY <1>3, <2>1, <2>2, <3>1 DEF Heard, AckDue
  <2>3. CASE type # "version"
    <3>1. ~(reader'.pc \in {"validate", "process", "verack"} /\ reader'.message.type = "version")
      BY <1>7, <2>3 DEF type
    <3>2. ~(reader.pc \in {"validate", "process", "verack"} /\ reader.message.type = "version")
      BY <2>3 DEF type
    <3> QED BY <1>1, <2>0, <2>1, <3>1, <3>2 DEF Heard, AckDue
  <2> QED BY <2>1, <2>2, <2>3
<1>12. handshake' = IF flag = "none" THEN handshake ELSE reader.seen \cup {flag}
  BY <1>6 DEF exchange_status
<1>13. completions' # completions => Known /\ Heard
  <2>1. SUFFICES ASSUME completions' # completions PROVE Known /\ Heard
    OBVIOUS
  <2>2. reader.seen \cup {flag} = kCompleted
    <3>1. completions \in Nat
      BY DEF Sizes
    <3> QED BY <2>1, <3>1, <1>6 DEF exchange_status
  <2>3. "kVersionSent" \in reader.seen /\ "kVerAckSent" \in reader.seen
    BY <1>g, <2>2 DEF kCompleted
  <2>4. type # "version"
    BY <1>1, <1>3, <1>f, <2>3 DEF Acknowledged, AckUnsent
  <2> QED BY <1>2, <2>4
<1>14. \A x : OnStrand(x)' => OnStrand(x) \/ x = "stop" \/ (x = "on_handshake_completed" /\ Known /\ Heard)
  <2>1. CASE post(completed_jobs)
    BY <1>13, <2>1, CompletedJobs, StrandGrows
  <2>2. CASE post(completed_jobs \o <<"stop">>)
    <3> DEFINE jobs == completed_jobs \o <<"stop">>
    <3>1. jobs \in Seq(JobNames) /\ post(jobs)
          /\ \A i \in DOMAIN jobs : jobs[i] = "stop" \/ (jobs[i] = "on_handshake_completed" /\ completions' # completions)
      BY <2>2, CompletedJobs
    <3> HIDE DEF jobs
    <3> QED BY Zenon, <1>13, <3>1, StrandGrows
  <2> QED BY Zenon, <1>6, <2>1, <2>2
<1>15. InTurn'
  BY <1>1, <1>6, <1>7, <1>10, <1>11, <1>t DEF InTurn
<1>16. VersionFlags'
  <2>1. "kVersionSent" \in handshake' <=> Known
    BY Zenon, <1>4, <1>12, <1>f, <1>g DEF VersionFlags
  <2>2. "kVersionReceived" \in handshake'
    BY <1>2, <1>4, <1>12, <1>f, <1>g DEF VersionFlags
  <2>3. job.pc = "validate" => "kVersionReceived" \in job.seen
    BY <1>2, <1>3, <1>f DEF VersionFlags
  <2> QED BY <1>6, <1>7, <1>10, <1>11, <1>f, <2>1, <2>2, <2>3 DEF VersionFlags
<1>17. Silence'
  BY <1>6, <1>10, <1>11 DEF Courteous, Silence
<1>18. Answering'
  <2>1. OurVersion' = OurVersion /\ OurVerack' = OurVerack
    BY DEF OurVersion, OurVerack
  <2> QED BY <1>1, <1>6, <1>7, <1>10, <1>11, <2>1 DEF Courteous, Answering
<1>19. Presented'
  BY <1>6, <1>10, <1>14 DEF Courteous, Presented
<1>20. Acknowledged'
  <2>1. AckUnsent => AckUnsent'
    BY <1>1, <1>6, <1>7, <1>12, <1>g DEF AckUnsent
  <2> QED BY <1>10, <1>11, <1>f, <2>1 DEF Acknowledged
<1>21. AckAccepted'
  <2>1. type = "verack" => Said("verack")
    BY <1>1 DEF Said, type
  <2> QED BY <1>1, <1>6, <1>7, <1>10, <1>12, <1>f, <1>g, <2>1 DEF AckAccepted
<1>22. Later'
  BY Zenon, <1>6, <1>10, <1>11, <1>14 DEF Courteous, Later
<1> QED BY Zenon, <1>9, <1>15, <1>16, <1>17, <1>18, <1>19, <1>20, <1>21, <1>22 DEF Courteous

\* What this node writes to a conforming peer passes validation, and the status it sets is right.
LEMMA WritePolite ==
    ASSUME SessionTypes, Sizes, InJob, Courteous, WriteMessage
    PROVE  Courteous'
<1> USE DEF reading, shaking, ending
<1> DEFINE type == barrel.message.type
           flag == Flag("out", type)
<1>t. InTurn /\ (Messages)' = Messages
  BY DEF Courteous, Messages
<1>f. VersionFlags /\ Acknowledged /\ AckAccepted /\ Presented /\ Later /\ Silence /\ Answering
  BY DEF Courteous
<1>1. /\ job.pc = "validate" /\ job.seen \in SUBSET kCompleted /\ strand # <<>> /\ barrel.message \in Items
      /\ \A t : Taken(t) <=> t = type
  BY DEF WriteMessage, SessionTypes, InJob, Sizes, Taken
<1>2. type = "version" => ~Known
  BY <1>1, <1>f DEF Presented
<1>s. Said("version") => Heard /\ Met
  <2>1. Said("version") => Heard
    BY <1>1, <1>f, <1>t DEF InTurn, Silence
  <2> QED BY <2>1 DEF Heard, Met, Checking
<1>3. type = "verack" => Known /\ Heard /\ Met /\ ~AckDue /\ AckUnsent /\ ~Queued("verack")
  <2>1. SUFFICES ASSUME type = "verack" PROVE Known /\ Heard /\ Met /\ ~AckDue /\ AckUnsent /\ ~Queued("verack")
    OBVIOUS
  <2>2. ~AckDue /\ AckUnsent /\ ~Queued("verack")
    BY <1>1, <1>f, <2>1 DEF Acknowledged
  <2>3. Said("version")
    BY <2>2 DEF AckDue
  <2>4. Known
    BY <1>1, <1>s, <1>t, <1>f, <2>1, <2>3 DEF InTurn, Answering
  <2> QED BY <1>s, <2>2, <2>3, <2>4
<1>4. type \notin {"version", "verack"} => Known /\ Heard /\ Met /\ type # "badversion"
  BY <1>1, <1>f, <1>s DEF Later, Heard
<1>5. ("kVersionSent" \in job.seen <=> Known) /\ ("kVersionReceived" \in job.seen <=> Met)
  BY <1>1, <1>f DEF VersionFlags
<1>g. flag = IF type = "version" THEN "kVersionSent" ELSE IF type = "verack" THEN "kVerAckSent" ELSE "none"
  BY <1>4 DEF Flag
<1>6. validate(job.seen, "out", type) = "success"
  <2>1. CASE type = "version"
    BY <1>2, <1>5, <2>1 DEF validate, Flag, kVersionExchanged
  <2>2. CASE type = "verack"
    <3>1. "kVerAckSent" \notin job.seen
      BY <1>1, <1>3, <2>2 DEF AckUnsent
    <3> QED BY <1>3, <1>5, <2>2, <3>1 DEF validate, Flag
  <2>3. CASE type \notin {"version", "verack"}
    <3>1. ~(StatusValue(job.seen) < StatusValue(kVersionExchanged))
      BY <1>1, <1>4, <1>5, <2>3, ExchangedValue
    <3>2. Flag("out", type) = "none"
      BY <1>4, <2>3 DEF Flag
    <3> QED BY <1>4, <1>5, <2>3, <3>1, <3>2 DEF validate
  <2> QED BY <2>1, <2>2, <2>3
<1>7. /\ exchange_status(job.seen, flag)
      /\ \E rest \in BOOLEAN : (rest => type = "addr") /\ begin_write(barrel.message, rest)
      /\ finish(completed_jobs)
      /\ UNCHANGED <<connection, tls, requests, fault, queue, received, reader, timer>>
  BY <1>6 DEF WriteMessage
<1>8. /\ barrel'.rest => barrel'.message.type = "addr" /\ type = "addr"
      /\ sent' = sent \/ \E n : n.type = type /\ sent' = sent \cup {n}
      /\ type # "addr" => \E n : n.type = type /\ sent' = sent \cup {n}
  <2>1. PICK rest \in BOOLEAN : (rest => type = "addr") /\ begin_write(barrel.message, rest)
    BY <1>7
  <2>2. [barrel.message EXCEPT !.priority = 0].type = type
    BY <1>1 DEF Items
  <2>3. CASE rest
    BY <2>1, <2>3 DEF begin_write
  <2>4. CASE ~rest
    <3>1. barrel' = EmptyBarrel /\ sent' = sent \cup {[barrel.message EXCEPT !.priority = 0]}
      BY <2>1, <2>4 DEF begin_write
    <3>2. ~barrel'.rest
      BY Zenon, <3>1 DEF EmptyBarrel
    <3> QED BY Zenon, <2>2, <3>1, <3>2
  <2> QED BY Zenon, <2>3, <2>4
<1> HIDE DEF reading, shaking, ending, type, flag
<1>9. job'.pc = "idle" /\ \A t : ~Taken(t)'
  BY Zenon, <1>7 DEF finish, Idle, Taken
<1>10. /\ (Inbound' <=> Inbound) /\ (Heard' <=> Heard) /\ (Met' <=> Met) /\ (AckDue' <=> AckDue)
       /\ (\A t : (Queued(t)' <=> Queued(t)) /\ (QueuedOnce(t)' <=> QueuedOnce(t)))
       /\ (\A t : Said(t)' <=> Said(t)) /\ (\A t : Checking(t)' <=> Checking(t))
  BY <1>7, ReaderKept, QueueKept, ReceivedKept DEF Inbound
<1>11. Known' <=> Known \/ type = "version"
  <2>1. CASE type = "version"
    <3>1. PICK n : n.type = type /\ sent' = sent \cup {n}
      BY Zenon, <1>8, <2>1
    <3> QED BY Zenon, <2>1, <3>1 DEF Known, Knows
  <2>2. CASE type # "version"
    BY Zenon, <1>8, <2>2 DEF Known, Knows
  <2> QED BY <2>1, <2>2
<1>12. handshake' = IF flag = "none" THEN handshake ELSE job.seen \cup {flag}
  BY <1>7 DEF exchange_status
<1>13. type = "version" => reader.pc # "validate"
  <2>1. type = "version" /\ reader.pc = "validate" => reader.message \in received /\ reader.message.type = "version"
    BY Zenon, <1>2, <1>t DEF InTurn
  <2>2. type = "version" /\ reader.pc = "validate" => Said("version") /\ ~Heard
    BY <2>1 DEF Said, Heard
  <2> QED BY Zenon, <1>s, <2>2
<1>14. completions' # completions => Known' /\ Heard
  <2>1. SUFFICES ASSUME completions' # completions PROVE Known' /\ Heard
    OBVIOUS
  <2>2. job.seen \cup {flag} = kCompleted
    <3>1. completions \in Nat
      BY DEF Sizes
    <3> QED BY <2>1, <3>1, <1>7 DEF exchange_status
  <2>3. "kVersionReceived" \in job.seen
    BY <1>g, <2>2 DEF kCompleted
  <2>4. Said("version")
    BY Zenon, <1>5, <2>3 DEF Met
  <2>5. "kVersionSent" \in job.seen \/ type = "version"
    BY Zenon, <1>g, <2>2 DEF kCompleted
  <2> QED BY <1>5, <1>11, <1>s, <2>4, <2>5
<1>15. \A x : OnStrand(x)' => OnStrand(x) \/ (x = "on_handshake_completed" /\ Known' /\ Heard)
  BY <1>1, <1>7, <1>14, CompletedJobs, StrandGrows
<1>16. InTurn'
  <2>1. \A m \in sent' : m.type \notin {"version", "verack"} => Known /\ Heard
    BY <1>4, <1>8, <1>t DEF InTurn
  <2> QED BY ZenonT(30), <1>7, <1>10, <1>11, <1>t, <2>1 DEF InTurn
<1>17. VersionFlags'
  <2>1. "kVersionSent" \in handshake' <=> Known'
    BY <1>5, <1>11, <1>12, <1>f, <1>g DEF VersionFlags
  <2>2. "kVersionReceived" \in handshake' <=> Met
    BY <1>5, <1>12, <1>f, <1>g DEF VersionFlags
  <2> QED BY <1>7, <1>9, <1>10, <1>11, <1>13, <1>f, <2>1, <2>2 DEF VersionFlags
<1>18. Silence'
  <2>1. ~Heard => queue = <<>>
    <3>1. SUFFICES ASSUME ~Heard PROVE queue = <<>>
      OBVIOUS
    <3>2. ~Inbound /\ ~Known
      BY Zenon, <1>1, <1>f, <3>1 DEF Silence
    <3>3. type = "version" /\ \A t \in Types : Queued(t) => t = "version"
      BY Zenon, <1>1, <1>f, <3>2 DEF Presented
    <3>4. ~Queued("version")
      BY Zenon, <1>1, <1>f, <3>3 DEF Presented
    <3> QED BY <3>3, <3>4, NothingQueued DEF Sizes
  <2>2. ~Known' => sent' = {}
    BY <1>3, <1>4, <1>11
  <2>3. ~Heard => ~Inbound
    BY Zenon, <1>1, <1>f DEF Silence
  <2> QED BY Zenon, <1>7, <1>9, <1>10, <2>1, <2>2, <2>3 DEF Silence
<1>19. Answering'
  <2>1. ~(Inbound /\ Heard /\ ~Known')
    BY <1>3, <1>4, <1>11
  <2> QED BY <1>10, <2>1 DEF Answering
<1>20. Presented'
  <2>1. Known' => Known \/ Taken("version")
    BY Zenon, <1>1, <1>11
  <2>2. QueuedOnce("version")' /\ (Queued("version")' => ~Known') /\ ~Taken("version")'
    BY Zenon, <1>9, <1>10, <1>f, <2>1 DEF Presented
  <2>3. (OnStrand("start_ssl_handshake")' => OnStrand("start_ssl_handshake")) /\ tls' = tls
    BY <1>7, <1>15
  <2>4. ~Inbound' /\ (OnStrand("start_ssl_handshake")' \/ tls' # "none") => ~Queued("version")' /\ ~Known'
    BY Zenon, <1>10, <1>f, <2>1, <2>3 DEF Presented
  <2>5. (tls' # "none" => ~OnStrand("start_ssl_handshake")') /\ (tls' = "secured" => ~Inbound')
    BY <1>10, <1>f, <2>3 DEF Presented
  <2>6. ~Inbound' /\ ~Known' => (\A t \in Types : Queued(t)' => t = "version") /\ job'.pc # "validate"
    BY <1>9, <1>10, <1>11, <1>f DEF Presented
  <2> QED BY <2>2, <2>4, <2>5, <2>6 DEF Presented
<1>21. Acknowledged'
  <2>1. type # "verack" /\ AckUnsent => AckUnsent'
    BY Zenon, <1>1, <1>7, <1>9, <1>12, <1>g DEF AckUnsent
  <2> QED BY <1>3, <1>9, <1>10, <1>f, <2>1 DEF Acknowledged
<1>22. AckAccepted'
  BY ZenonT(30), <1>1, <1>7, <1>9, <1>10, <1>12, <1>f, <1>g DEF AckAccepted
<1>23. Later'
  <2>1. barrel'.rest => barrel'.message.type = "addr" /\ Known /\ Heard
    BY <1>4, <1>8
  <2> QED BY <1>7, <1>9, <1>10, <1>11, <1>15, <1>f, <2>1 DEF Later
<1> QED BY <1>7, <1>16, <1>17, <1>18, <1>19, <1>20, <1>21, <1>22, <1>23 DEF Courteous

-----------------------------------------------------------------------------
(* The theorems.                                                           *)

\* Nothing is sent or received before Node::start.
LEMMA NextUntouched == ASSUME IInv, Untouched, [Next]_vars PROVE Untouched'
<1> USE DEF writing, reading, pinging, shaking, ending
<1>1. status' = "kNotStarted" /\ disconnects' = 0 => status = "kNotStarted" /\ disconnects = 0
  <2>1. disconnects \in Nat
    BY DEF IInv, SessionTypes
  <2>2. disconnects' = disconnects \/ disconnects' = disconnects + 1
    BY ZenonT(30) DEF Next, StrandStep, ReaderStep, Start, HubStop, StrandStop, on_stop_completed, start_read, WriteNothing,
           start_ssl_handshake, handle_ssl_handshake, HandleWrite, ReadNothing, RecordNonce, vars, PresentAfterTls,
           WriteRest, TakeMessage, WriteMessage, on_handshake_completed, StartPinging, MalformedMessage, EndRead,
           AcceptMessage, ProcessMessage, AcknowledgeVersion, NotifyHub, HubAnswer, PingTimerExpired, ReadMessage
  <2>3. status' = status \/ status' # "kNotStarted" \/ disconnects' = disconnects + 1
    BY ZenonT(30) DEF Next, StrandStep, ReaderStep, Start, HubStop, StrandStop, on_stop_completed, start_read, WriteNothing,
           start_ssl_handshake, handle_ssl_handshake, HandleWrite, ReadNothing, RecordNonce, vars, PresentAfterTls,
           WriteRest, TakeMessage, WriteMessage, on_handshake_completed, StartPinging, MalformedMessage, EndRead,
           AcceptMessage, ProcessMessage, AcknowledgeVersion, NotifyHub, HubAnswer, PingTimerExpired, ReadMessage,
           stopping, is_running
  <2> HIDE DEF writing, reading, pinging, shaking, ending
  <2> QED BY <2>1, <2>2, <2>3
<1>2. sent' = sent \/ strand # <<>> \/ job.pc = "validate"
  BY ZenonT(30) DEF Next, StrandStep, ReaderStep, Start, HubStop, StrandStop, on_stop_completed, start_read, WriteNothing,
         start_ssl_handshake, handle_ssl_handshake, HandleWrite, ReadNothing, RecordNonce, vars, PresentAfterTls,
         WriteRest, TakeMessage, WriteMessage, on_handshake_completed, StartPinging, MalformedMessage, EndRead,
         AcceptMessage, ProcessMessage, AcknowledgeVersion, NotifyHub, HubAnswer, PingTimerExpired, ReadMessage, runs
<1>3. received' = received \/ reader.pc = "next" \/ reads > 0
  BY Zenon DEF Next, StrandStep, ReaderStep, Start, HubStop, StrandStop, on_stop_completed, start_read, WriteNothing,
         start_ssl_handshake, handle_ssl_handshake, HandleWrite, ReadNothing, RecordNonce, vars, PresentAfterTls,
         WriteRest, TakeMessage, WriteMessage, on_handshake_completed, StartPinging, MalformedMessage, EndRead,
         AcceptMessage, ProcessMessage, AcknowledgeVersion, NotifyHub, HubAnswer, PingTimerExpired, ReadMessage
<1> HIDE DEF writing, reading, pinging, shaking, ending
<1> QED BY <1>1, <1>2, <1>3 DEF IInv, Fresh, Untouched

\* Every step keeps the order of the exchange with a conforming peer.
LEMMA NextCourteous ==
    ASSUME IInv, IInv', Sizes, Untouched, Courteous, Conforming, [Next]_vars PROVE Courteous'
<1>1. SessionTypes /\ InJob /\ Fresh /\ SessionTypes' /\ Reading'
  BY DEF IInv
<1>2. ~MalformedMessage
  BY DEF MalformedMessage
<1>3. CASE HubStop \/ StrandStop \/ on_stop_completed \/ start_read \/ WriteNothing \/ HandleWrite \/ ReadNothing
           \/ RecordNonce \/ UNCHANGED vars
  BY <1>1, <1>3, PlainSteps
<1>4. CASE start_ssl_handshake \/ handle_ssl_handshake
  BY <1>1, <1>4, TlsSteps
<1>5. CASE HubAnswer \/ PingTimerExpired \/ on_handshake_completed \/ StartPinging
  BY <1>1, <1>5, PushingSteps
<1>6. CASE WriteRest
  BY Zenon, <1>1, <1>6, RestStep
<1>7. CASE ProcessMessage \/ NotifyHub \/ EndRead
  BY <1>1, <1>7, ReaderSteps, ProcessVersionPolite
<1>8. CASE Start
  BY <1>1, <1>8, StartPolite
<1>9. CASE PresentAfterTls
  BY <1>1, <1>9, PresentPolite
<1>10. CASE TakeMessage
  BY <1>1, <1>10, TakePolite
<1>11. CASE WriteMessage
  BY <1>1, <1>11, WritePolite
<1>12. CASE AcceptMessage
  BY <1>1, <1>12, AcceptPolite
<1>13. CASE AcknowledgeVersion
  BY <1>1, <1>13, AcknowledgePolite
<1>14. ASSUME NEW m \in Messages, ReadMessage(m) PROVE Courteous'
  BY <1>1, <1>14, ReadPolite
<1> QED BY <1>2, <1>3, <1>4, <1>5, <1>6, <1>7, <1>8, <1>9, <1>10, <1>11, <1>12, <1>13, <1>14
        DEF Next, StrandStep, ReaderStep

\* A session that was only constructed is courteous.
LEMMA InitCourteous == Init => Untouched /\ Courteous
<1> SUFFICES ASSUME Init PROVE Untouched /\ Courteous
  BY Zenon
<1>1. /\ sent = {} /\ received = {} /\ strand = <<>> /\ queue = <<>> /\ job.pc = "idle" /\ reader.pc = "idle"
      /\ reader.parsed = 0 /\ ~barrel.rest /\ ~timer /\ requests = 0 /\ handshake = {} /\ tls = "none" /\ fault = "none"
  BY ZenonT(30) DEF Init, Idle, EmptyBarrel
<1>2. /\ ~Known /\ ~Heard /\ ~Met /\ AckDue
      /\ \A t : ~Said(t) /\ ~Queued(t) /\ QueuedOnce(t) /\ ~Taken(t) /\ ~Checking(t) /\ ~OnStrand(t)
  <2>1. ~Known /\ \A t : ~Said(t)
    BY Zenon, <1>1 DEF Known, Knows, Said
  <2>2. \A t : ~Queued(t) /\ QueuedOnce(t) /\ ~OnStrand(t)
    BY <1>1 DEF Queued, QueuedOnce, OnStrand
  <2>3. \A t : ~Taken(t) /\ ~Checking(t)
    BY Zenon, <1>1 DEF Taken, Checking
  <2>4. ~Heard /\ ~Met /\ AckDue
    BY Zenon, <2>1 DEF Heard, Met, AckDue
  <2> QED BY <2>1, <2>2, <2>3, <2>4
<1>3. InTurn /\ VersionFlags /\ Silence /\ Answering /\ Presented
  BY ZenonT(30), <1>1, <1>2 DEF InTurn, VersionFlags, Silence, Answering, Presented
<1>4. Acknowledged /\ AckAccepted /\ Later
  <2>1. AckUnsent
    BY Zenon, <1>1 DEF AckUnsent
  <2>2. Acknowledged
    BY Zenon, <1>2, <2>1 DEF Acknowledged
  <2>3. AckAccepted
    BY <1>1, <1>2 DEF AckAccepted
  <2>4. Later
    BY <1>1, <1>2 DEF Later
  <2> QED BY <2>2, <2>3, <2>4
<1> QED BY <1>1, <1>3, <1>4 DEF Untouched, Courteous

\* What the invariant of a session with a conforming peer adds to that of any session.
Exchanging == Sizes /\ Untouched /\ (Conforming => Courteous)

\* The exchange of the versions with a conforming peer goes by the book in every reachable state, whatever
\* the hub, the timer and the transport do meanwhile.
THEOREM ExchangeInvariant == Spec => []Exchanging
<1>1. Init => Exchanging
  BY InitSizes, InitCourteous DEF Exchanging
<1>2. IInv /\ IInv' /\ Exchanging /\ [Next]_vars => Exchanging'
  <2> SUFFICES ASSUME IInv, IInv', Exchanging, [Next]_vars PROVE Exchanging'
    OBVIOUS
  <2>1. Sizes'
    BY NextSizes DEF IInv, Exchanging
  <2>2. Untouched'
    BY NextUntouched DEF Exchanging
  <2>3. Conforming => Courteous'
    BY NextCourteous DEF Exchanging
  <2> QED BY <2>1, <2>2, <2>3 DEF Exchanging
<1> QED BY <1>1, <1>2, SessionInvariant, PTL DEF Spec

\* A peer that keeps to the protocol is never disconnected for a message out of turn or sent twice: neither
\* its messages nor ours to it fail the validation of the handshake (node.cpp, validate_message_for_protocol_handshake).
THEOREM ConformingPeersPass == Spec => []HandshakeRespected
<1>1. Exchanging => HandshakeRespected
  BY DEF Exchanging, Courteous, HandshakeRespected
<1> QED BY <1>1, ExchangeInvariant, PTL

\* Whatever a node sends to a conforming peer, its version was sent before it: an answer never overtakes the
\* version in the queue of messages (node.cpp, push_message and start_write).
THEOREM VersionIsSentFirst == Spec => []VersionGoesFirst
<1>1. Exchanging => VersionGoesFirst
  BY DEF Exchanging, Courteous, Silence, Known, VersionGoesFirst
<1> QED BY <1>1, ExchangeInvariant, PTL
=============================================================================
