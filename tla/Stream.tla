------------------------------- MODULE Stream -------------------------------
(***************************************************************************)
(* ser::DataStream, the byte buffer with a read position every message,    *)
(* payload and record is written to and read from, and the lowest level of *)
(* the serialization: integers, compact sizes, strings, arrays and IP      *)
(* addresses.  Everything here is a pure operator on a stream, a record of *)
(* the class's two members; an operation that can fail returns a result,   *)
(* [error, stream, value].                                                 *)
(*                                                                         *)
(* A byte is a number below Base (256 in the program).  Every encoding is  *)
(* written in terms of Base, so that a small Base lets all values of a     *)
(* compact size be enumerated, with the same number of bytes for each of   *)
(* its forms as in the program.                                            *)
(***************************************************************************)
EXTENDS Integers, Sequences, SequencesExt

CONSTANTS Base,                      \* number of values of a byte (256)
          kMaxStreamSize,            \* 512 MiB in the program
          kMaxSerializedCompactSize  \* 0x02000000 in the program

Bytes(n) == [1 .. n -> 0 .. Base - 1]

success(s, v) == [error |-> "none", stream |-> s, value |-> v]
failure(s, e) == [error |-> e, stream |-> s, value |-> <<>>]
failed(r) == r.error # "none"

\* What every caller does with a result: return the error, or go on.
then(r, next) == IF failed(r) THEN r ELSE next

-----------------------------------------------------------------------------
(* The stream.                                                             *)

stream_of(data) == [buffer |-> data, read_position |-> 0]

size(s) == Len(s.buffer)

avail(s) == size(s) - s.read_position

eof(s) == s.read_position >= size(s)

unread(s) == SubSeq(s.buffer, s.read_position + 1, size(s))

minimum(a, b) == IF a < b THEN a ELSE b

write(s, data) ==
    IF size(s) + Len(data) > kMaxStreamSize
        THEN failure(s, "kInputTooLarge")
        ELSE success([s EXCEPT !.buffer = @ \o data], <<>>)

push_back(s, byte) == [s EXCEPT !.buffer = Append(@, byte)]

\* What resize adds is zeroed; the read position stays where it is.
resize(s, new_size) ==
    IF new_size > kMaxStreamSize
        THEN failure(s, "kInputTooLarge")
        ELSE success([s EXCEPT !.buffer = [i \in 1 .. new_size |-> IF i <= Len(@) THEN @[i] ELSE 0]], <<>>)

insert(s, pos, item) == [s EXCEPT !.buffer = InsertAt(@, pos + 1, item)]

rewind_all(s) == [s EXCEPT !.read_position = 0]

rewind(s, count) == IF count <= s.read_position THEN [s EXCEPT !.read_position = @ - count] ELSE s

Without(data, pos, count) == SubSeq(data, 1, pos) \o SubSeq(data, pos + count + 1, Len(data))

erase_one(s, pos) ==
    IF pos = size(s) THEN s
    ELSE LET back == IF s.read_position > pos THEN s.read_position - 1 ELSE s.read_position
         IN [buffer |-> Without(s.buffer, pos, 1), read_position |-> minimum(back, size(s) - 1)]

\* Mutant of erase: the read position is not moved back.
erase_unmoved(s, pos, count) ==
    IF count = 0 \/ pos >= size(s) THEN s
    ELSE LET n == minimum(count, size(s) - pos)
         IN [buffer |-> Without(s.buffer, pos, n), read_position |-> minimum(s.read_position, size(s) - n)]

erase(s, pos, count) ==
    IF count = 0 \/ pos >= size(s) THEN s
    ELSE LET n == minimum(count, size(s) - pos)
             back == IF s.read_position > pos THEN minimum(s.read_position - pos, n) ELSE 0
         IN [buffer |-> Without(s.buffer, pos, n), read_position |-> s.read_position - back]

read(s, count) ==
    IF count > avail(s)
        THEN failure(s, "kReadOverflow")
        ELSE success([s EXCEPT !.read_position = @ + count],
                     SubSeq(s.buffer, s.read_position + 1, s.read_position + count))

ignore(s, count) == [s EXCEPT !.read_position = @ + minimum(count, avail(s))]

seekg(s, position) == [s EXCEPT !.read_position = minimum(position, size(s))]

consume(s, pos) ==
    LET count == minimum(s.read_position, pos)
    IN [buffer |-> Without(s.buffer, 0, count), read_position |-> s.read_position - count]

clear(s) == stream_of(<<>>)

\* get_clear: the unread bytes go to dst; s is cleared only when they fit.
get_clear(s, dst) ==
    LET w == write(dst, unread(s))
    IN [error |-> w.error, stream |-> IF failed(w) THEN s ELSE clear(s), value |-> w.stream]

-----------------------------------------------------------------------------
(* Integers: the bytes of the little endian machine the program is built   *)
(* for.                                                                    *)

LittleEndian(n, width) == [i \in 1 .. width |-> (n \div Base ^ (i - 1)) % Base]

Number(bytes) ==
    LET sum[i \in 0 .. Len(bytes)] == IF i = 0 THEN 0 ELSE sum[i - 1] + bytes[i] * Base ^ (i - 1)
    IN sum[Len(bytes)]

write_data(s, n, width) == write(s, LittleEndian(n, width))

as_number(r) == then(r, [r EXCEPT !.value = Number(@)])

read_data(s, width) == as_number(read(s, width))

\* A two's complement integer of that width is negative.
negative(n, width) == 2 * n >= Base ^ width

-----------------------------------------------------------------------------
(* Compact sizes: one byte below the three prefixes, otherwise a prefix    *)
(* and two, four or eight bytes.                                           *)

ser_compact_sizeof(n) ==
    CASE n < Base - 3 -> 1
      [] n >= Base - 3 /\ n < Base ^ 2 -> 3
      [] n >= Base ^ 2 /\ n < Base ^ 4 -> 5
      [] OTHER -> 9

prefix_of(bytes) == CASE bytes = 3 -> Base - 3 [] bytes = 5 -> Base - 2 [] bytes = 9 -> Base - 1

write_compact(s, n) ==
    LET bytes == ser_compact_sizeof(n)
    IN IF bytes = 1
           THEN success(push_back(s, n), <<>>)
           ELSE write_data(push_back(s, prefix_of(bytes)), n, bytes - 1)

\* Width of the integer after a prefix, and the least value that needs it.
compact_width(prefix) == CASE prefix = Base - 3 -> 2 [] prefix = Base - 2 -> 4 [] prefix = Base - 1 -> 8

\* Mutant of compact_least: the two byte form is accepted from zero.
compact_least_zero(prefix) == CASE prefix = Base - 3 -> 0 [] prefix = Base - 2 -> Base ^ 2 [] prefix = Base - 1 -> Base ^ 4

compact_least(prefix) == CASE prefix = Base - 3 -> Base - 3 [] prefix = Base - 2 -> Base ^ 2 [] prefix = Base - 1 -> Base ^ 4

\* r: the value, of which a prefix says the least it may be.
compact_checked(r, least) ==
    then(r, CASE r.value < least -> failure(r.stream, "kNonCanonicalCompactSize")
              [] r.value >= least /\ r.value > kMaxSerializedCompactSize -> failure(r.stream, "kCompactSizeTooBig")
              [] OTHER -> r)

compact_after(p) ==
    then(p, IF p.value < Base - 3 THEN compact_checked(p, 0)
            ELSE compact_checked(read_data(p.stream, compact_width(p.value)), compact_least(p.value)))

read_compact(s) == compact_after(read_data(s, 1))
=============================================================================
