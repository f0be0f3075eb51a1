------------------------------ MODULE Subnets ------------------------------
(***************************************************************************)
(* IP addresses and subnets: which addresses are usable, the reserved      *)
(* blocks, the base address of a subnet, membership, netmasks and the      *)
(* groups of addresses the address book hashes on.  Pure operators.        *)
(*                                                                         *)
(* The mask arithmetic is in terms of the widths, so that small ones can   *)
(* be enumerated; the value of an address is the sequence of its words,    *)
(* one for IPv4 and V6Bytes for IPv6.  Reserved blocks and netmasks are    *)
(* tested on real octets.                                                  *)
(***************************************************************************)
EXTENDS Integers, Sequences, FiniteSets, SequencesExt, Bitwise

CONSTANTS V4Bits,      \* 32
          ByteBits,    \* CHAR_BIT
          V6Bytes,     \* 16
          Loopback,    \* addresses asio takes for loopback (external)
          V4GroupPrefix, V6GroupPrefix  \* kIPv4SubnetGroupsPrefix, kIPv6SubnetGroupsPrefix

ip(family, value) == [family |-> family, value |-> value]

V4Addresses == {ip(4, <<n>>) : n \in 0 .. 2 ^ V4Bits - 1}
V6Addresses == {ip(6, b) : b \in [1 .. V6Bytes -> 0 .. 2 ^ ByteBits - 1]}

bits(family) == IF family = 4 THEN V4Bits ELSE V6Bytes * ByteBits

is_unspecified(a) == \A i \in DOMAIN a.value : a.value[i] = 0

is_loopback(a) == a \in Loopback

\* is_any and is_unspecified ask the same.
is_valid(a) == ~is_unspecified(a)

-----------------------------------------------------------------------------
(* Masks.  Shifting a 32 bit word by 32 is undefined: a build gives all    *)
(* ones (the count is taken modulo 32) or zero.                            *)

v4_masks(p) == IF p = 0 THEN {0, 2 ^ V4Bits - 1} ELSE {2 ^ V4Bits - 2 ^ (V4Bits - p)}

\* Mutant of v6_mask: the partial byte is masked from its low end.
v6_mask_low(p) ==
    [i \in 1 .. V6Bytes |->
        IF i <= p \div ByteBits THEN 2 ^ ByteBits - 1
        ELSE IF i = p \div ByteBits + 1 THEN 2 ^ (p % ByteBits) - 1
        ELSE 0]

v6_mask(p) ==
    [i \in 1 .. V6Bytes |->
        IF i <= p \div ByteBits THEN 2 ^ ByteBits - 1
        ELSE IF i = p \div ByteBits + 1 THEN 2 ^ ByteBits - 2 ^ (ByteBits - (p % ByteBits))
        ELSE 0]

\* The possible outcomes of calculate_subnet_base_address.
calculate_subnet_base_address(a, p) ==
    IF is_unspecified(a) \/ p > bits(a.family) THEN {}
    ELSE IF a.family = 4 THEN {ip(4, <<a.value[1] & mask>>) : mask \in v4_masks(p)}
    ELSE {ip(6, [i \in 1 .. V6Bytes |-> a.value[i] & v6_mask(p)[i]])}

subnet(base, p) == [base_address |-> base, prefix_length |-> p]

subnet_is_valid(s) ==
    is_valid(s.base_address) /\ s.prefix_length > 0 /\ s.prefix_length <= bits(s.base_address.family)

contains(s, a) ==
    /\ subnet_is_valid(s)
    /\ ~is_unspecified(a) /\ ~is_loopback(a)
    /\ s.base_address.family = a.family
    /\ IF a.family = 4
           THEN \A mask \in v4_masks(s.prefix_length) : a.value[1] & mask = s.base_address.value[1]
           ELSE \A i \in 1 .. V6Bytes : a.value[i] & v6_mask(s.prefix_length)[i] = s.base_address.value[i]

\* AddressBook::compute_group, for a routable address.
compute_group(a) ==
    {<<1, a.family, base.value>> :
        base \in calculate_subnet_base_address(a, IF a.family = 4 THEN V4GroupPrefix ELSE V6GroupPrefix)}

-----------------------------------------------------------------------------
(* parse_prefix_length of a dotted netmask: the number of ones.            *)

Ones(octet) == Cardinality({i \in 0 .. 7 : (octet \div 2 ^ i) % 2 = 1})

Netmasks == {0, 128, 192, 224, 240, 248, 252, 254, 255}

zero_found(octets, i) == \E j \in 1 .. i - 1 : octets[j] = 0

parse_prefix_length(octets) ==
    IF \E i \in 1 .. 4 : octets[i] \notin Netmasks \/ (octets[i] # 0 /\ zero_found(octets, i))
        THEN -1
        ELSE Ones(octets[1]) + Ones(octets[2]) + Ones(octets[3]) + Ones(octets[4])

-----------------------------------------------------------------------------
(* Reserved blocks.  The tests are made one after the other and the last   *)
(* one that holds gives the answer.                                        *)

v4_blocks(b) ==
    << [type |-> "kRFC1918", holds |-> \/ b[1] = 10
                                       \/ b[1] = 172 /\ b[2] \in 16 .. 31
                                       \/ b[1] = 192 /\ b[2] = 168],
       [type |-> "kRFC2544", holds |-> b[1] = 192 /\ b[2] \in {18, 19}],
       [type |-> "kRFC6598", holds |-> b[1] = 100 /\ b[2] \in 64 .. 127],
       [type |-> "kRFC5737", holds |-> SubSeq(b, 1, 3) \in {<<192, 0, 2>>, <<198, 51, 100>>, <<203, 0, 113>>}],
       [type |-> "kRFC3927", holds |-> b[1] = 169 /\ b[2] = 254] >>

v6_blocks(b) ==
    << [type |-> "kRFC3849", holds |-> SubSeq(b, 1, 4) = <<32, 1, 13, 184>>],
       [type |-> "kRFC3964", holds |-> SubSeq(b, 1, 2) = <<32, 2>>],
       [type |-> "kRFC4193", holds |-> b[1] \in {252, 253}],
       [type |-> "kRFC4380", holds |-> SubSeq(b, 1, 4) = <<32, 1, 0, 0>>],
       [type |-> "kRFC4843", holds |-> SubSeq(b, 1, 3) = <<32, 1, 0>> /\ b[4] \div 16 = 1],
       [type |-> "kRFC4862", holds |-> SubSeq(b, 1, 2) = <<254, 128>>],
       [type |-> "kRFC6052", holds |-> SubSeq(b, 1, 4) = <<0, 100, 255, 155>>],
       [type |-> "kRFC6145", holds |-> b = <<0, 0, 255, 255>> \o [i \in 1 .. 12 |-> 0]] >>

blocks(octets) == IF Len(octets) = 4 THEN v4_blocks(octets) ELSE v6_blocks(octets)

address_reservation(octets) ==
    LET last == SelectLastInSeq(blocks(octets), LAMBDA block : block.holds)
    IN IF last = 0 THEN "kNotReserved" ELSE blocks(octets)[last].type

NotRoutable == {"kRFC1918", "kRFC2544", "kRFC3927", "kRFC4862", "kRFC6598", "kRFC5737",
                "kRFC4193", "kRFC4843", "kRFC3849"}

Zero(octets) == \A i \in 1 .. Len(octets) : octets[i] = 0

\* What asio takes for loopback: 127.0.0.0/8 and ::1.
LoopbackOctets(octets) ==
    IF Len(octets) = 4 THEN octets[1] = 127 ELSE Zero(Front(octets)) /\ Last(octets) = 1

is_routable(octets) ==
    ~Zero(octets) /\ ~LoopbackOctets(octets) /\ address_reservation(octets) \notin NotRoutable

-----------------------------------------------------------------------------
(* References, and what the operators must be to them.                     *)

\* The value of an address as one number, and its first p bits.
Value(a) == IF a.family = 4 THEN a.value[1]
            ELSE FoldLeft(LAMBDA n, byte : n * 2 ^ ByteBits + byte, 0, a.value)

SharePrefix(a, b, p) ==
    a.family = b.family /\ Value(a) \div 2 ^ (bits(a.family) - p) = Value(b) \div 2 ^ (bits(a.family) - p)

\* The dotted netmask of p ones.
Netmask(p) == [i \in 1 .. 4 |-> 256 - 2 ^ (8 - (IF p >= 8 * i THEN 8 ELSE IF p <= 8 * (i - 1) THEN 0 ELSE p - 8 * (i - 1)))]

\* The subnet of p bits around a holds the usable addresses that share
\* these bits with a; an all zero base makes no subnet.
SubnetExact(a, b, p) ==
    \A base \in calculate_subnet_base_address(a, p) :
        contains(subnet(base, p), b) <=>
            is_valid(base) /\ ~is_unspecified(b) /\ ~is_loopback(b) /\ SharePrefix(a, b, p)

\* Two addresses are of one group when they share the prefix of groups.
GroupExact(a, b) ==
    ~is_unspecified(a) /\ ~is_unspecified(b) =>
        (compute_group(a) = compute_group(b) <=>
            SharePrefix(a, b, IF a.family = 4 THEN V4GroupPrefix ELSE V6GroupPrefix))

NetmaskExact(p) == parse_prefix_length(Netmask(p)) = p

\* No address is in two blocks, so the order of the tests is immaterial,
\* and a usable address is routable when no private block holds it.
ReservationExact(octets) ==
    LET held == {i \in DOMAIN blocks(octets) : blocks(octets)[i].holds}
    IN /\ Cardinality(held) <= 1
       /\ ~Zero(octets) /\ ~LoopbackOctets(octets) =>
             is_routable(octets) = \A i \in held : blocks(octets)[i].type \notin NotRoutable
=============================================================================
