-------------------------------- MODULE Wire --------------------------------
(***************************************************************************)
(* The data layer: messages in transit (Message), a client of a DataStream *)
(* that mixes all its operations, and the pure conversions, each applied   *)
(* to every one of a set of samples.  A behaviour is of one of the three;  *)
(* they share no state in the program either.                              *)
(***************************************************************************)
EXTENDS Message

CONSTANTS MaxBuffer,  \* longest buffer of the stream client
          MaxBytes,   \* number of bytes it writes
          Samples     \* records [of, ...], the inputs of the conversions

CONSTANTS V4Bits, ByteBits, V6Bytes, Loopback, V4GroupPrefix, V6GroupPrefix

CONSTANTS HexBase, Base58, kMaxInput, kCheckSumLength, Sha256(_), kCoinMaxDecimals, kCoinMaxSupply, UINT16_MAX

VARIABLES stream,  \* the client's stream; its bytes are 1, 2, 3, ...
          next,    \* the next byte it writes, 0: no client
          sample

N == INSTANCE Subnets
T == INSTANCE Encodings

messageVars == <<sent, wire, input, message, result, received>>
vars_wire == <<sent, wire, input, message, result, received, stream, next, sample>>

NoSample == [of |-> "none"]

NoMessage ==
    /\ sent = [bytes |-> <<>>, payload |-> Nothing]
    /\ wire = <<>>
    /\ input = <<>>
    /\ message = fresh
    /\ result = "idle"
    /\ received = Nothing

InitWire ==
    /\ stream = stream_of(<<>>)
    /\ \/ Init /\ next = 0 /\ sample = NoSample
       \/ NoMessage /\ next = 1 /\ sample = NoSample
       \/ NoMessage /\ next = 0 /\ sample \in Samples

-----------------------------------------------------------------------------
(* The client of a stream.                                                 *)

Positions == 0 .. size(stream)

Client(after) == next > 0 /\ stream' = after /\ UNCHANGED <<messageVars, sample>>

Room == size(stream) < MaxBuffer /\ next <= MaxBytes

\* What it writes is new: a byte is one place of the buffer.
StreamWrites == Room /\ Client(write(stream, <<next>>).stream) /\ next' = next + 1

\* No operation of the stream places an inserted byte before the read
\* position without making its neighbour unread; the program has no caller.
StreamInserts ==
    /\ Room
    /\ \E pos \in stream.read_position .. size(stream) : Client(insert(stream, pos, next))
    /\ next' = next + 1

StreamErases ==
    /\ \E pos \in Positions, count \in 0 .. MaxBuffer + 1 :
           Client(IF count = 1 THEN erase_one(stream, pos) ELSE erase(stream, pos, count))
    /\ UNCHANGED next

StreamConsumes == (\E pos \in 0 .. MaxBuffer + 1 : Client(consume(stream, pos))) /\ UNCHANGED next

\* The stream is moved into another one, which holds some bytes already.
StreamMoves ==
    /\ LET moved == get_clear(stream, stream_of(<<>>)) IN Client(moved.value)
    /\ UNCHANGED next

\* resize leaves the read position where it is, the client keeps it inside.
StreamShrinks ==
    /\ \E count \in stream.read_position .. size(stream) : Client(resize(stream, count).stream)
    /\ UNCHANGED next

StreamSeeks ==
    /\ \E count \in 0 .. MaxBuffer + 1 :
           \/ Client(read(stream, count).stream)
           \/ Client(ignore(stream, count))
           \/ Client(seekg(stream, count))
           \/ Client(rewind(stream, count))
           \/ Client(rewind_all(stream))
    /\ UNCHANGED next

StreamEdits ==
    \/ StreamWrites
    \/ StreamInserts
    \/ StreamErases
    \/ StreamConsumes
    \/ StreamMoves
    \/ StreamShrinks

-----------------------------------------------------------------------------
MessageStep == Next /\ UNCHANGED <<stream, next, sample>>

NextWire ==
    \/ MessageStep
    \/ StreamWrites
    \/ StreamInserts
    \/ StreamErases
    \/ StreamConsumes
    \/ StreamMoves
    \/ StreamShrinks
    \/ StreamSeeks

SpecWire == InitWire /\ [][NextWire]_vars_wire

-----------------------------------------------------------------------------
(* Properties.                                                             *)

consumed(s) == SubSeq(s.buffer, 1, s.read_position)

Subsequence(short, long) == short = SelectSeq(long, LAMBDA b : Contains(short, b))

\* DataStream: no edit moves a byte across the read position.  The read
\* position stays inside the buffer, what was read keeps its order and
\* nothing unread joins it, and what was not read keeps its order and stays
\* unread, whichever of write, insert, both erases, consume, get_clear and
\* resize the client mixes (stream.cpp 44-143).
EditsKeepSides ==
    [][StreamEdits => /\ stream'.read_position <= size(stream')
                      /\ Subsequence(consumed(stream'), consumed(stream))
                      /\ Subsequence(SelectSeq(unread(stream'), LAMBDA b : b < next), unread(stream))]_vars_wire

\* read_compact_size: a byte string is read as n exactly when it starts with
\* the bytes write_compact_size gives n, and n is not over the limit; that
\* many bytes are consumed.  One size, one encoding, at every boundary of
\* the four forms (serialize.hpp 86-112, 164-196).
CompactIsCanonical ==
    sample.of = "compact" =>
        LET r == read_compact(stream_of(sample.bytes))
            written(n) == write_compact(stream_of(<<>>), n).stream.buffer
            starts == {n \in 0 .. kMaxSerializedCompactSize : IsPrefix(written(n), sample.bytes)}
        IN /\ starts = IF failed(r) THEN {} ELSE {r.value}
           /\ ~failed(r) => r.stream.read_position = Len(written(r.value))

\* Subnets and groups: the mask arithmetic of the base address, of
\* membership and of the address book's groups agree with each other and
\* with "shares the first p bits", across both address families, at every
\* prefix length, whole bytes and not; netmasks read back as their length;
\* no address is in two reserved blocks (addresses.cpp 60-184, 315-474).
AddressesPartitioned ==
    /\ sample.of = "subnet" => N!SubnetExact(sample.a, sample.b, sample.p) /\ N!GroupExact(sample.a, sample.b)
    /\ sample.of = "netmask" => N!NetmaskExact(sample.p)
    /\ sample.of = "octets" => N!ReservationExact(sample.octets)

\* Hex, base58, amounts and endpoints: what is printed is read back, what is
\* read is what would be printed, leading zeroes, odd lengths, prefixes and
\* checksums included (hex.cpp 78-174, base58.cpp 36-122, amounts.cpp
\* 58-114, addresses.cpp 246-276).
TextRoundTrips ==
    /\ sample.of = "bytes" => T!HexRoundTrips(sample.bytes) /\ T!Base58RoundTrips(sample.bytes)
    /\ sample.of = "hex" => T!HexTextRoundTrips(sample.text)
    /\ sample.of = "base58" => T!Base58TextRoundTrips(sample.text)
    /\ sample.of = "amount" => T!AmountRoundTrips(sample.value)
    /\ sample.of = "endpoint" => T!EndpointRoundTrips(sample.endpoint)
=============================================================================
