------------------------------ MODULE Payloads ------------------------------
(***************************************************************************)
(* The message types, the table of what each may carry, and the payloads   *)
(* themselves: how each is written to and read from a stream.  A payload   *)
(* is [type, fields, items]: the values of its members and, when it is     *)
(* vectorized, its items.                                                  *)
(***************************************************************************)
EXTENDS Serialization, FiniteSets

CONSTANTS kMaxProtocolMessageLength,  \* 4 MiB in the program
          kMaxInvItems,               \* 50'000
          kMaxAddrItems,              \* 1'000
          kMaxGetHeadersItems,        \* 2'000
          kMaxHeadersItems,           \* 160
          kMaxReasonSize,             \* 256
          ProtocolVersion,            \* version of the streams, 170'002
          RejectionCodes              \* the enumerators of RejectionCode

None == -1

kInvItemSize == 36
kAddrItemSize == 30
kBlockHeaderSerializedSize == 140

MessageTypes == <<"kVersion", "kVerAck", "kInv", "kAddr", "kPing", "kPong", "kGetHeaders",
                  "kHeaders", "kGetAddr", "kMemPool", "kReject", "kGetData", "kNotFound">>

Types == ToSet(MessageTypes)

\* The label of a type: distinct for each, with no zero byte in it.
label(type) == LET i == SelectInSeq(MessageTypes, LAMBDA t : t = type)
               IN <<1 + (i % (Base - 1)), 1 + (i \div (Base - 1))>>

kMessageHeaderCommandLength == 12

pad(name) == name \o Zeroes(kMessageHeaderCommandLength - Len(name))

message_type_from_command(command) ==
    IF \E t \in Types : pad(label(t)) = command
        THEN CHOOSE t \in Types : pad(label(t)) = command
        ELSE "kMissingOrUnknown"

is_known_command(name) ==
    /\ name # <<>>
    /\ Len(name) <= kMessageHeaderCommandLength
    /\ message_type_from_command(pad(name)) # "kMissingOrUnknown"

-----------------------------------------------------------------------------
(* kMessageDefinitions.  An absent optional is None.                       *)

plain(least, most) ==
    [is_vectorized |-> FALSE, max_vector_items |-> None, vector_item_size |-> None,
     min_payload_length |-> least, max_payload_length |-> most]

vectorized(items, item_size, least, most) ==
    [is_vectorized |-> TRUE, max_vector_items |-> items, vector_item_size |-> item_size,
     min_payload_length |-> least, max_payload_length |-> most]

inventory_definition ==
    vectorized(kMaxInvItems, kInvItemSize, 1 + kInvItemSize,
               ser_compact_sizeof(kMaxInvItems) + kMaxInvItems * kInvItemSize)

definition(type) ==
    CASE type = "kVersion" -> plain(46, 1024)
      [] type \in {"kVerAck", "kGetAddr", "kMemPool"} -> plain(0, 0)
      [] type \in {"kPing", "kPong"} -> plain(8, 8)
      [] type = "kReject" -> plain(3, 12 + 1 + kMaxReasonSize + 32)
      [] type \in {"kInv", "kGetData", "kNotFound"} -> inventory_definition
      [] type = "kAddr" ->
             vectorized(kMaxAddrItems, kAddrItemSize, 1 + kAddrItemSize,
                        ser_compact_sizeof(kMaxAddrItems) + kMaxAddrItems * kAddrItemSize)
      [] type = "kGetHeaders" ->
             vectorized(kMaxGetHeadersItems, 32, 4 + 1 + 2 * 32,
                        4 + ser_compact_sizeof(kMaxGetHeadersItems) + 32 * (kMaxGetHeadersItems + 1))
      [] type = "kHeaders" ->
             vectorized(kMaxHeadersItems, None, 1 + kBlockHeaderSerializedSize, None)

-----------------------------------------------------------------------------
(* Payloads.                                                               *)

payload(type, fields, items) == [type |-> type, fields |-> fields, items |-> items]

Version == <<uint(4), uint(8), uint(8)>> \o VersionNodeService \o VersionNodeService
           \o <<uint(8), string, uint(4), bool>>

PingPong == <<uint(8)>>

Reject == <<string, enumerator(1, RejectionCodes), string>>

\* The class from_type makes for a message; there is none for kHeaders.
from_type(type) ==
    CASE type = "kVersion" -> "MsgVersionPayload"
      [] type \in {"kPing", "kPong"} -> "MsgPingPongPayload"
      [] type = "kGetHeaders" -> "MsgGetHeadersPayload"
      [] type = "kAddr" -> "MsgAddrPayload"
      [] type \in {"kInv", "kGetData", "kNotFound"} -> "MsgInventoryPayload"
      [] type = "kReject" -> "MsgRejectPayload"
      [] type \in {"kVerAck", "kMemPool", "kGetAddr"} -> "MsgNullPayload"
      [] OTHER -> "nullptr"

vector_error(n, limit) ==
    CASE n = 0 -> "kMessagePayloadEmptyVector"
      [] n > limit -> "kMessagePayloadOversizedVector"
      [] OTHER -> "none"

write_vector(s, items, layout, limit) ==
    LET refused == vector_error(Len(items), limit)
    IN IF refused # "none" THEN failure(s, refused)
       ELSE FoldLeft(LAMBDA r, item : then(r, serialize(r.stream, layout, item)),
                     write_compact(s, Len(items)), items)

read_items(n, layout, limit) ==
    then(n, IF vector_error(n.value, limit) # "none" THEN failure(n.stream, vector_error(n.value, limit))
            ELSE FoldLeft(LAMBDA r, i : then(r, collected(r, deserialize(r.stream, layout))),
                          success(n.stream, <<>>), Zeroes(n.value)))

read_vector(s, layout, limit) == read_items(read_compact(s), layout, limit)

-----------------------------------------------------------------------------
(* getheaders writes the version of the stream, the locator and the stop   *)
(* hash.  Its reader bounds the locator by the limit of a headers message. *)

write_locator(v, p) == then(v, write_vector(v.stream, p.items, <<h256>>, kMaxGetHeadersItems))
write_stop(w, p) == then(w, serialize(w.stream, <<h256>>, <<p.fields[2]>>))

serialize_getheaders(s, p) == write_stop(write_locator(write_data(s, ProtocolVersion, 4), p), p)

read_getheaders(version, locator, stop) ==
    then(stop, success(stop.stream, payload("kGetHeaders", <<version, stop.value>>, locator)))
read_stop(version, w) == then(w, read_getheaders(version, w.value, bind_read(w.stream, h256)))
read_locator(v) == then(v, read_stop(v.value, read_vector(v.stream, <<h256>>, kMaxHeadersItems)))

deserialize_getheaders(s) == read_locator(read_data(s, 4))

\* reject: an optional hash follows when there is one.
serialize_reject(s, p) ==
    IF ~is_known_command(p.fields[1]) THEN failure(s, "kUnknownRejectedCommand")
    ELSE IF Len(p.fields[3]) > kMaxReasonSize THEN failure(s, "kStringTooBig")
    ELSE serialize(s, IF Len(p.fields) = 4 THEN Append(Reject, h256) ELSE Reject, p.fields)

\* The code that was read is checked and not stored: rejection_code_ keeps
\* the value of a new payload.
kOk == 0

\* The command, then code and reason, then the hash if there are enough bytes for one.
reject_extra(command, reason, extra) ==
    then(extra, success(extra.stream, payload("kReject", <<command, kOk, reason>> \o extra.value, <<>>)))

reject_reason(command, body) ==
    then(body, IF Len(body.value[2]) > kMaxReasonSize THEN failure(body.stream, "kStringTooBig")
               ELSE reject_extra(command, body.value[2],
                                 deserialize(body.stream, IF avail(body.stream) >= 32 THEN <<h256>> ELSE <<>>)))

reject_command(c) ==
    then(c, IF is_known_command(c.value) THEN reject_reason(c.value, deserialize(c.stream, Tail(Reject)))
            ELSE failure(c.stream, "kUnknownRejectedCommand"))

deserialize_reject(s) == reject_command(bind_read(s, Reject[1]))

serialize_payload(s, p) ==
    LET class == from_type(p.type)
    IN CASE class = "MsgVersionPayload" -> serialize(s, Version, p.fields)
         [] class = "MsgPingPongPayload" -> serialize(s, PingPong, p.fields)
         [] class = "MsgGetHeadersPayload" -> serialize_getheaders(s, p)
         [] class = "MsgAddrPayload" -> write_vector(s, p.items, NodeService, kMaxAddrItems)
         [] class = "MsgInventoryPayload" -> write_vector(s, p.items, InventoryItem, kMaxInvItems)
         [] class = "MsgRejectPayload" -> serialize_reject(s, p)
         [] class = "MsgNullPayload" -> success(s, <<>>)

with_fields(r, type) == then(r, [r EXCEPT !.value = payload(type, @, <<>>)])
with_items(r, type) == then(r, [r EXCEPT !.value = payload(type, <<>>, @)])

\* The code tests the two signs before it looks at the outcome of the binds: a version that is cut
\* short after a negative time is refused either way, with another error.
\* Time and height are looked at even when a later member failed.
read_negative(r, i, width) == Len(r.value) >= i /\ negative(r.value[i], width)

version_checked(r) ==
    IF read_negative(r, 3, 8) THEN failure(r.stream, "kMessagePayloadInvalidTimestamp")
    ELSE IF read_negative(r, 12, 4) THEN failure(r.stream, "kMessagePayloadInvalidLastBlockHeight")
    ELSE with_fields(r, "kVersion")

deserialize_version(s) == version_checked(deserialize(s, Version))

deserialize_payload(s, type) ==
    LET class == from_type(type)
    IN CASE class = "MsgVersionPayload" -> deserialize_version(s)
         [] class = "MsgPingPongPayload" -> with_fields(deserialize(s, PingPong), type)
         [] class = "MsgGetHeadersPayload" -> deserialize_getheaders(s)
         [] class = "MsgAddrPayload" -> with_items(read_vector(s, NodeService, kMaxAddrItems), type)
         [] class = "MsgInventoryPayload" -> with_items(read_vector(s, InventoryItem, kMaxInvItems), type)
         [] class = "MsgRejectPayload" -> deserialize_reject(s)
         [] class = "MsgNullPayload" -> success(s, payload(type, <<>>, <<>>))
=============================================================================
