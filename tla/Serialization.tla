--------------------------- MODULE Serialization ---------------------------
(***************************************************************************)
(* ser::SDataStream: the bind overloads that compute the size of, write    *)
(* and read one member, and the objects made of such members.  A member is *)
(* a field [kind, width, allowed]; a serializable class is the sequence of *)
(* its fields (its layout) and an object the sequence of their values.     *)
(***************************************************************************)
EXTENDS Stream

field(kind, width, allowed) == [kind |-> kind, width |-> width, allowed |-> allowed]

uint(width) == field("uint", width, {})
array(width) == field("array", width, {})
enumerator(width, values) == field("enum", width, values)
string == field("string", 0, {})
bool == field("bool", 1, {})
address == field("address", 16, {})
port == field("port", 2, {})
big(width) == field("big", width, {})
rest == field("rest", 0, {})

-----------------------------------------------------------------------------
(* IP addresses travel as IPv6; an IPv4 one as its mapped address.         *)

v4(bytes) == [version |-> 4, bytes |-> bytes]
v6(bytes) == [version |-> 6, bytes |-> bytes]

Zeroes(n) == [i \in 1 .. n |-> 0]

v4_mapped(bytes) == Zeroes(10) \o <<Base - 1, Base - 1>> \o bytes

address_bytes(a) == IF a.version = 4 THEN v4_mapped(a.bytes) ELSE a.bytes

\* Mutant of address_from: the address is taken from the wrong four bytes.
address_from_shifted(bytes) ==
    IF SubSeq(bytes, 1, 8) = Zeroes(8) THEN v4(SubSeq(bytes, 12, 15)) ELSE v6(bytes)

\* Only the first eight bytes are looked at.
address_from(bytes) ==
    IF SubSeq(bytes, 1, 8) = Zeroes(8) THEN v4(SubSeq(bytes, 13, 16)) ELSE v6(bytes)

-----------------------------------------------------------------------------
(* Wide unsigned integers: their bytes without leading zeroes, most        *)
(* significant first.  export_bits writes these from the start of the      *)
(* array and import_bits reads the whole array.                            *)

Significant(bytes) ==
    LET first == SelectInSeq(bytes, LAMBDA b : b # 0)
    IN IF first = 0 THEN <<>> ELSE SubSeq(bytes, first, Len(bytes))

exported(v, width) == v \o Zeroes(width - Len(v))

-----------------------------------------------------------------------------
(* One member: its computed size, its serialization, its deserialization.  *)
(* A port is byte swapped around its bind.                                 *)

bind_size(f, v) ==
    CASE f.kind = "string" -> ser_compact_sizeof(Len(v)) + Len(v)
      [] f.kind = "rest" -> Len(v)
      [] OTHER -> f.width

\* The bytes of a string follow its size, in either direction.
write_after(w, v) == then(w, write(w.stream, v))
read_after(n) == then(n, read(n.stream, n.value))

bind_write(s, f, v) ==
    CASE f.kind \in {"uint", "enum"} -> write_data(s, v, f.width)
      [] f.kind = "port" -> write(s, Reverse(LittleEndian(v, 2)))
      [] f.kind \in {"array", "rest"} -> write(s, v)
      [] f.kind = "big" -> write(s, exported(v, f.width))
      [] f.kind = "bool" -> success(push_back(s, IF v THEN 1 ELSE 0), <<>>)
      [] f.kind = "address" -> write(s, address_bytes(v))
      [] f.kind = "string" -> write_after(write_compact(s, Len(v)), v)

\* The number of bytes to read, what they mean, and whether that is allowed.
bind_length(s, f) ==
    CASE f.kind = "string" -> read_compact(s)
      [] f.kind = "rest" -> success(s, avail(s))
      [] OTHER -> success(s, f.width)

decoded(f, bytes) ==
    CASE f.kind \in {"uint", "enum"} -> Number(bytes)
      [] f.kind = "port" -> Number(Reverse(bytes))
      [] f.kind \in {"array", "string", "rest"} -> bytes
      [] f.kind = "big" -> Significant(bytes)
      [] f.kind = "bool" -> bytes[1] = 1
      [] f.kind = "address" -> address_from(bytes)

\* kInvalidInventoryType and kInvalidRejectionCode are one error here.
bind_value(r, f) ==
    then(r, IF f.kind = "enum" /\ Number(r.value) \notin f.allowed THEN failure(r.stream, "kInvalidEnumerator")
            ELSE [r EXCEPT !.value = decoded(f, @)])

bind_read(s, f) == bind_value(read_after(bind_length(s, f)), f)

-----------------------------------------------------------------------------
(* Objects: the members one after the other, up to the first failure.      *)

serialized_size(layout, values) ==
    FoldLeftDomain(LAMBDA sum, i : sum + bind_size(layout[i], values[i]), 0, layout)

\* After r, what was written or read so far, one member more.  The members
\* read before a failure keep their values.
write_member(r, f, v) == then(r, bind_write(r.stream, f, v))
collected(r, next) == [next EXCEPT !.value = IF failed(next) THEN r.value ELSE Append(r.value, @)]
read_member(r, f) == then(r, collected(r, bind_read(r.stream, f)))

serialize(s, layout, values) ==
    LET written[i \in 0 .. Len(layout)] ==
            IF i = 0 THEN success(s, <<>>) ELSE write_member(written[i - 1], layout[i], values[i])
    IN written[Len(layout)]

deserialize(s, layout) ==
    LET members[i \in 0 .. Len(layout)] ==
            IF i = 0 THEN success(s, <<>>) ELSE read_member(members[i - 1], layout[i])
    IN members[Len(layout)]

h256 == array(32)

IPEndpoint == <<address, port>>

\* The times are cut to 32 bits on the way out.
NodeService == <<uint(4), uint(8)>> \o IPEndpoint

VersionNodeService == <<uint(8)>> \o IPEndpoint

NodeServiceInfo == NodeService \o <<string, address, uint(4), uint(4), uint(4), uint(4)>>

BlockHeader == <<uint(4), h256, h256, h256, uint(4), uint(4), big(32), rest>>

InventoryTypes == 0 .. 3

InventoryItem == <<enumerator(4, InventoryTypes), h256>>
=============================================================================
