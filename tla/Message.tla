------------------------------- MODULE Message -------------------------------
(***************************************************************************)
(* net::Message: a message is pushed by its sender and reassembled by its  *)
(* receiver from the chunks the socket happens to return.  The receiver    *)
(* validates what it has after every chunk: the header as soon as its 24   *)
(* bytes are there, the size of a vector as soon as it can be read, the    *)
(* duplicates and the checksum once the payload is complete.               *)
(***************************************************************************)
EXTENDS Payloads

CONSTANTS network_magic,  \* the four bytes of the network
          Digest(_),      \* first four bytes of the double SHA-256 (external)
          ChunkSizes,     \* bound: how many bytes one read may return
          Pushed,         \* payloads a sender may push
          Crafted,        \* other byte strings a peer may send
          Following       \* what follows the message on the wire

VARIABLES sent,      \* what was put on the wire: [bytes, payload]
          wire,      \* bytes not yet returned by the socket
          input,     \* bytes returned and not yet taken by Message::write
          message,   \* the receiver's Message
          result,    \* what the last iteration of write made of it
          received   \* the payload read from the complete message

vars == <<sent, wire, input, message, result, received>>

kMessageHeaderLength == 24

Header == <<array(4), array(12), uint(4), array(4)>>

no_header == [magic |-> Zeroes(4), command |-> Zeroes(12), length |-> 0, checksum |-> Zeroes(4),
              type |-> "kMissingOrUnknown"]

fresh == [header |-> no_header, stream |-> stream_of(<<>>),
          header_validated |-> FALSE, payload_validated |-> FALSE]

pristine(h) == h = no_header

is_complete(m) == m.header_validated /\ m.payload_validated

outcome(e, m) == [error |-> e, message |-> m]

-----------------------------------------------------------------------------
(* MessageHeader::validate.  No definition of the table bounds the         *)
(* protocol version.                                                       *)

in_range(n, d) ==
    /\ n >= d.min_payload_length
    /\ n <= IF d.max_payload_length = None THEN kMaxProtocolMessageLength ELSE d.max_payload_length

header_error(h) ==
    CASE h.magic # network_magic -> "kMessageHeaderInvalidMagic"
      [] h.type = "kMissingOrUnknown" -> "kMessageHeaderIllegalCommand"
      [] h.length > kMaxProtocolMessageLength -> "kMessageHeaderIllegalPayloadLength"
      [] ~in_range(h.length, definition(h.type)) -> "kMessageHeaderIllegalPayloadLength"
      [] h.length = 0 /\ h.checksum # Digest(<<>>) -> "kMessageHeaderInvalidChecksum"
      [] OTHER -> "none"

header_of(v) == [magic |-> v[1], command |-> v[2], length |-> v[3], checksum |-> v[4],
                 type |-> message_type_from_command(v[2])]

header_checked(m, e) ==
    outcome(e, [m EXCEPT !.header_validated = (e = "none"), !.payload_validated = (e = "none" /\ m.header.length = 0)])

header_read(m, r) ==
    LET h == header_of(r.value)
    IN IF failed(r) THEN outcome(r.error, [m EXCEPT !.stream = r.stream])
       ELSE header_checked([m EXCEPT !.header = h, !.stream = r.stream], header_error(h))

validate_header(m) ==
    IF m.header_validated THEN outcome("none", m)
    ELSE IF size(m.stream) < kMessageHeaderLength THEN outcome("kMessageHeaderIncomplete", m)
    ELSE header_read(m, deserialize(m.stream, Header))

-----------------------------------------------------------------------------
(* The payload.                                                            *)

chunk(data, n, i) == SubSeq(data, (i - 1) * n + 1, i * n)

count_duplicate_data_chunks(data, chunk_size, max_count) ==
    LET repeated == {i \in 1 .. Len(data) \div chunk_size :
                        \E j \in 1 .. i - 1 : chunk(data, chunk_size, j) = chunk(data, chunk_size, i)}
    IN IF max_count = 0 THEN Cardinality(repeated) ELSE minimum(Cardinality(repeated), max_count)

\* The stop hash of getheaders counts as one more item.
expected_size(type, n, d) ==
    LET items == IF type = "kGetHeaders" THEN n + 1 ELSE n
    IN items * d.vector_item_size + ser_compact_sizeof(n)

\* n: the size of the vector as read after the header and, for getheaders, a version.
vector_outcome(m, d, n, offset) ==
    LET most == IF d.max_vector_items = None THEN kMaxSerializedCompactSize ELSE d.max_vector_items
    IN IF n.error = "kReadOverflow" THEN outcome("kMessageBodyIncomplete", m)
       ELSE IF failed(n) THEN outcome(n.error, m)
       ELSE IF vector_error(n.value, most) # "none" THEN outcome(vector_error(n.value, most), m)
       ELSE IF /\ d.vector_item_size # None
               /\ m.header.length # expected_size(m.header.type, n.value, d) + offset
           THEN outcome("kMessagePayloadLengthMismatchesVectorSize", m)
       ELSE outcome("none", [m EXCEPT !.stream = n.stream])

validate_payload_vector(m, d) ==
    LET offset == IF m.header.type = "kGetHeaders" THEN 4 ELSE 0
        s == seekg(m.stream, kMessageHeaderLength + offset)
    IN IF s.read_position # kMessageHeaderLength + offset \/ avail(s) < 1 THEN outcome("kMessageBodyIncomplete", m)
       ELSE vector_outcome(m, d, read_compact(s), offset)

repeats(m, d) ==
    /\ d.vector_item_size # None
    /\ count_duplicate_data_chunks(unread(m.stream), d.vector_item_size, 1) > 0

\* v: the outcome of the vector, of which a message without one has none.
payload_outcome(m, d, v) ==
    LET incomplete == avail(m.stream) # m.header.length
    IN IF failed(v) THEN v.error
       ELSE IF incomplete THEN "kMessageBodyIncomplete"
       ELSE IF d.is_vectorized /\ repeats(v.message, d) THEN "kMessagePayloadDuplicateVectorItems"
       ELSE IF Digest(unread(m.stream)) # m.header.checksum THEN "kMessageHeaderInvalidChecksum"
       ELSE "none"

payload_error(m) ==
    LET d == definition(m.header.type)
    IN payload_outcome(m, d, IF d.is_vectorized THEN validate_payload_vector(m, d) ELSE outcome("none", m))

payload_checked(m, e) == outcome(e, [m EXCEPT !.payload_validated = (e = "none")])

validate_payload(m) ==
    IF m.payload_validated THEN outcome("none", m)
    ELSE IF ~m.header_validated THEN outcome("kMessageHeaderIncomplete", m)
    ELSE payload_checked(m, payload_error(m))

\* Whatever the outcome of the payload, the stream is left at its beginning.
payload_after(h) ==
    then(h, [validate_payload(h.message) EXCEPT !.message.stream = seekg(@, kMessageHeaderLength)])

validate(m) ==
    IF size(m.stream) > kMaxProtocolMessageLength THEN outcome("kMessageSizeOverflow", m)
    ELSE IF is_complete(m) THEN outcome("none", m)
    ELSE payload_after(validate_header(m))

-----------------------------------------------------------------------------
(* Message::push on the sender's side: the payload is written after a      *)
(* header whose length and checksum are filled in afterwards, and the      *)
(* whole is validated as a receiver would.                                 *)

set_type(h, type) == IF pristine(h) THEN [h EXCEPT !.command = pad(label(type)), !.type = type] ELSE h

header_bytes(h) == serialize(stream_of(<<>>), Header, <<h.magic, h.command, h.length, h.checksum>>).stream.buffer

with_body(h, body) == [h EXCEPT !.length = Len(body), !.checksum = Digest(body)]

pushed(m, h, w) ==
    LET body == SubSeq(w.stream.buffer, kMessageHeaderLength + 1, size(w.stream))
        filled == with_body(h, body)
    IN IF failed(w) THEN outcome(w.error, [m EXCEPT !.header = h, !.stream = w.stream])
       ELSE validate([m EXCEPT !.header = filled, !.stream = stream_of(header_bytes(filled) \o body)])

push(m, p) ==
    LET h == [set_type(m.header, p.type) EXCEPT !.magic = network_magic]
    IN IF ~pristine(m.header) THEN outcome("kMessagePushNotPermitted", m)
       ELSE IF p.type = "kMissingOrUnknown" THEN outcome("kMessageUnknownCommand", m)
       ELSE pushed(m, h, serialize_payload(stream_of(header_bytes(h)), p))

-----------------------------------------------------------------------------
(* One iteration of the loop of Message::write: as many bytes as complete  *)
(* the header, or the message, are taken from the input.                   *)

\* Mutant of bytes_to_read: the bytes of the payload already there are
\* forgotten.
bytes_to_read_all(m) ==
    IF m.stream.read_position < kMessageHeaderLength
        THEN kMessageHeaderLength - avail(m.stream)
        ELSE m.header.length

bytes_to_read(m) ==
    IF m.stream.read_position < kMessageHeaderLength
        THEN kMessageHeaderLength - avail(m.stream)
        ELSE m.header.length - avail(m.stream)

Incomplete == {"kMessageHeaderIncomplete", "kMessageBodyIncomplete"}

Nothing == payload("kMissingOrUnknown", <<>>, <<>>)

Sendable == {p \in Pushed : push(fresh, p).error = "none"}

Init == /\ \/ \E p \in Sendable : sent = [bytes |-> push(fresh, p).message.stream.buffer, payload |-> p]
           \/ \E b \in Crafted : sent = [bytes |-> b, payload |-> Nothing]
        /\ \E f \in Following : wire = sent.bytes \o f
        /\ input = <<>>
        /\ message = fresh
        /\ result = "kMessageHeaderIncomplete"
        /\ received = Nothing

\* The socket returns some of the bytes in flight.
Read == /\ result \in Incomplete
        /\ input = <<>> /\ wire # <<>>
        /\ \E n \in {minimum(c, Len(wire)) : c \in ChunkSizes} :
               /\ input' = SubSeq(wire, 1, n)
               /\ wire' = SubSeq(wire, n + 1, Len(wire))
        /\ UNCHANGED <<sent, message, result, received>>

\* The next iteration of write: it ends the loop on success and on an error
\* that more bytes do not cure.
Write == /\ input # <<>>
         /\ result \in Incomplete
         /\ LET n == minimum(bytes_to_read(message), Len(input))
                w == write(message.stream, SubSeq(input, 1, n))
                v == validate([message EXCEPT !.stream = w.stream])
            IN /\ input' = IF failed(w) THEN input ELSE SubSeq(input, n + 1, Len(input))
               /\ result' = IF failed(w) THEN w.error ELSE v.error
               /\ message' = IF failed(w) THEN message ELSE v.message
         /\ UNCHANGED <<sent, wire, received>>

\* The complete message is deserialized and its object made ready for the
\* next one.
Deserialize ==
    /\ is_complete(message)
    /\ from_type(message.header.type) # "nullptr"
    /\ LET r == deserialize_payload(message.stream, message.header.type)
       IN /\ result' = IF failed(r) THEN r.error ELSE "processed"
          /\ received' = IF failed(r) THEN received ELSE r.value
    /\ message' = fresh
    /\ UNCHANGED <<sent, wire, input>>

Next == Read \/ Write \/ Deserialize

Spec == Init /\ [][Next]_vars

-----------------------------------------------------------------------------
(* What a byte string is, read as a whole.                                 *)

Field(b, from, n) == SubSeq(b, from + 1, from + n)

SentType(b) == message_type_from_command(Field(b, 4, 12))

SentLength(b) == Number(Field(b, 16, 4))

Body(b) == Field(b, kMessageHeaderLength, SentLength(b))

\* A vector: the shortest encoding of its size, then that many different
\* items (one more for getheaders) and nothing else.
VectorWellFormed(type, body) ==
    LET d == definition(type)
        offset == IF type = "kGetHeaders" THEN 4 ELSE 0
    IN \E n \in 1 .. d.max_vector_items :
          LET count == write_compact(stream_of(<<>>), n).stream.buffer
              items == SubSeq(body, offset + Len(count) + 1, Len(body))
              m == IF type = "kGetHeaders" THEN n + 1 ELSE n
          IN /\ Field(body, offset, minimum(Len(count), Len(body) - offset)) = count
             /\ d.vector_item_size # None =>
                   /\ Len(items) = m * d.vector_item_size
                   /\ Cardinality({chunk(items, d.vector_item_size, i) : i \in 1 .. m}) = m

WellFormed(b) ==
    /\ Len(b) >= kMessageHeaderLength
    /\ Field(b, 0, 4) = network_magic
    /\ SentType(b) \in Types
    /\ in_range(SentLength(b), definition(SentType(b)))
    /\ kMessageHeaderLength + SentLength(b) <= kMaxProtocolMessageLength
    /\ Len(b) >= kMessageHeaderLength + SentLength(b)
    /\ Digest(Body(b)) = Field(b, 20, 4)
    /\ definition(SentType(b)).is_vectorized => VectorWellFormed(SentType(b), Body(b))

-----------------------------------------------------------------------------
(* Properties.                                                             *)

\* write has given up on the message.
Refused == result \notin Incomplete /\ message # fresh /\ ~is_complete(message)

(* Framing does not depend on how the bytes arrive: a message becomes      *)
(* complete exactly when its bytes, read as a whole, are well formed, the  *)
(* receiver has then taken exactly the header and the payload it declares, *)
(* and a message that is well formed is never left waiting for more.       *)
FramingIsExact ==
    /\ is_complete(message) =>
          /\ WellFormed(sent.bytes)
          /\ size(message.stream) = kMessageHeaderLength + SentLength(sent.bytes)
          /\ message.stream.buffer = SubSeq(sent.bytes, 1, size(message.stream))
    /\ Refused => ~WellFormed(sent.bytes)
    /\ wire = <<>> /\ input = <<>> /\ result \in Incomplete => ~WellFormed(sent.bytes)

(* What a reader of a payload gives back of it: the version of getheaders  *)
(* is the stream's, and the code of a reject message is not kept.          *)
AsRead(p) ==
    CASE p.type = "kGetHeaders" -> [p EXCEPT !.fields[1] = ProtocolVersion]
      [] p.type = "kReject" -> [p EXCEPT !.fields[2] = kOk]
      [] OTHER -> p

(* Payloads that do not survive the trip: a locator longer than the limit  *)
(* the reader applies.                                                     *)
Unreadable(p) == p.type = "kGetHeaders" /\ Len(p.items) > kMaxHeadersItems

(* Whatever a sender's push accepts reaches the other side: once the       *)
(* message has been processed the payload read is the payload pushed, and  *)
(* the bytes that follow it are still there for the next message.          *)
PushedIsReceived ==
    sent.payload # Nothing /\ message = fresh /\ result \notin Incomplete =>
        IF Unreadable(sent.payload)
            THEN result = "kMessagePayloadOversizedVector"
            ELSE /\ result = "processed"
                 /\ received = AsRead(sent.payload)
                 /\ input \o wire \in Following
=============================================================================
