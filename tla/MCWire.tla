------------------------------- MODULE MCWire -------------------------------
EXTENDS Wire

MCMagic == <<1, 2, 3, 4>>

MCDigest(data) ==
    LET unit(i) == IF data = <<>> THEN 0 ELSE data[1 + (i % Len(data))]
    IN <<1 + (Len(data) % (Base - 1)), unit(0), unit(40), unit(77)>>

Same(b, n) == [i \in 1 .. n |-> b]

v6_far == v6(<<3>> \o Same(1, 15))

Service(t, a) == <<t, 1, a, 7>>
Host(a) == <<1, a, 7>>
Item(t, h) == <<t, Same(h, 32)>>

Services == <<Service(3, v4(<<1, 2, 3, 4>>)), Service(4, v6_far), Service(3, v4(<<0, 0, 0, 1>>))>>
Items == <<Item(1, 2), Item(2, 2), Item(2, 3)>>
Hashes == <<<<Same(1, 32)>>, <<Same(2, 32)>>, <<Same(3, 32)>>>>

MCPushed ==
    {payload("kVersion", <<2, 1, t>> \o Host(v4(<<1, 2, 3, 4>>)) \o Host(v6_far) \o <<3, ua, 3, TRUE>>, <<>>) :
        t \in {0, 400}, ua \in {<<>>, <<1>>, <<1, 2, 3>>}}
    \cup {payload(t, <<n>>, <<>>) : t \in {"kPing", "kPong"}, n \in {0, 624}}
    \cup {payload(t, <<>>, <<>>) : t \in {"kVerAck", "kGetAddr", "kMemPool"}}
    \cup {payload("kAddr", <<>>, SubSeq(Services, 1, n)) : n \in 0 .. 3}
    \cup {payload("kInv", <<>>, SubSeq(Items, 1, n)) : n \in 0 .. 3}
    \cup {payload("kGetData", <<>>, <<Items[1], Items[1]>>)}
    \cup {payload("kGetHeaders", <<0, Same(s, 32)>>, SubSeq(Hashes, 1, n)) : n \in 0 .. 3, s \in {0, 2}}
    \cup {payload("kReject", <<label("kVersion"), c, Same(1, n)>> \o x, <<>>) :
             c \in {0, 2}, n \in {0, 2, 4, 5}, x \in {<<>>, <<Same(2, 32)>>}}

Bodies == LET body(p) == serialize_payload(stream_of(<<>>), p).stream.buffer
          IN {body(p) : p \in MCPushed}
             \cup {<<1>> \o Same(1, 72), <<0>> \o Same(2, 36), <<2, 1, 0>> \o Same(1, 36), <<2, 2, 0>> \o Same(1, 72),
                   <<2, 3, 0>> \o Same(1, 108), <<1>> \o Same(2, 140), <<3, 0, 0, 1, 0>> \o Same(1, 140),
                   <<1>> \o Same(2, 150)}

Craft(magic, command, length, checksum, body) ==
    magic \o command \o LittleEndian(length, 4) \o checksum \o body

MCCrafted ==
    {Craft(MCMagic, pad(label(t)), Len(b), MCDigest(b), b) : t \in Types, b \in Bodies}
    \cup {Craft(<<1, 2, 3, 3>>, pad(label(t)), Len(b), MCDigest(b), b) : t \in {"kPing"}, b \in Bodies}
    \cup {Craft(MCMagic, pad(<<1>>), Len(b), MCDigest(b), b) : b \in Bodies}
    \cup {Craft(MCMagic, pad(label(t)), Len(b) + d, MCDigest(b), b) : t \in Types, b \in Bodies, d \in {1}}
    \cup {Craft(MCMagic, pad(label(t)), Len(b), <<0, 0, 0, 0>>, b) : t \in Types, b \in Bodies}

MCFollowing == {<<>>, <<1, 2, 3>>}

-----------------------------------------------------------------------------
Strings(alphabet, n) == UNION {[1 .. k -> alphabet] : k \in 0 .. n}

MCLoopback == {[family |-> 4, value |-> <<9>>], [family |-> 6, value |-> <<0, 0, 1>>]}

MCSha256(bytes) == <<(Len(bytes) + 1) % 4, IF bytes = <<>> THEN 0 ELSE (bytes[1] + 3 * Last(bytes)) % 4>>

CompactSamples ==
    {[of |-> "compact", bytes |-> b] : b \in Strings(0 .. Base - 1, 5) \cup {<<Base - 1>> \o b : b \in [1 .. 8 -> {0, 1}]}}

SubnetSamples ==
    {[of |-> "subnet", a |-> a, b |-> b, p |-> p] : a, b \in N!V4Addresses, p \in 1 .. V4Bits}
    \cup {[of |-> "subnet", a |-> a, b |-> b, p |-> p] : a, b \in N!V6Addresses, p \in 1 .. V6Bytes * ByteBits}
    \cup {[of |-> "subnet", a |-> a, b |-> b, p |-> 2] : a \in N!V4Addresses, b \in N!V6Addresses}
    \cup {[of |-> "netmask", p |-> p] : p \in 0 .. 32}

OctetSamples ==
    {[of |-> "octets", octets |-> o] :
        o \in {9, 10, 100, 127, 169, 172, 192, 198, 203} \X {0, 15, 16, 18, 19, 31, 32, 51, 63, 64, 127, 128, 168, 254}
              \X {0, 2, 100, 113} \X {1}}
    \cup {[of |-> "octets", octets |-> <<a, b, c, d>> \o Same(e, 12)] :
              a \in {0, 32, 252, 253, 254}, b \in {0, 1, 2, 100, 128}, c \in {0, 13, 255}, d \in {0, 16, 31, 155, 184, 255}, e \in {0, 1}}

TextSamples ==
    {[of |-> "bytes", bytes |-> b] : b \in Strings(0 .. HexBase * HexBase - 1, 3)}
    \cup {[of |-> "hex", text |-> s] : s \in Strings(0 .. HexBase + 1, 5)}
    \cup {[of |-> "base58", text |-> s] : s \in Strings(0 .. Base58, 4)}
    \cup {[of |-> "amount", value |-> v] : v \in -250 .. 1250}
    \cup {[of |-> "endpoint", endpoint |-> [family |-> f, mapped |-> m, host |-> h, port |-> p]] :
              f \in {"v4", "v6"}, m \in BOOLEAN, h \in {1, 2}, p \in {0, 1, 15, 16}}

MCSamples == CompactSamples \cup SubnetSamples \cup OctetSamples
             \cup {s \in TextSamples : s.of = "endpoint" => (s.endpoint.mapped => s.endpoint.family = "v6")}
=============================================================================
