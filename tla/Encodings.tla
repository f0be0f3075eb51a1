----------------------------- MODULE Encodings -----------------------------
(***************************************************************************)
(* The text forms of bytes, amounts and endpoints: hex, base58 with and    *)
(* without checksum, coin amounts, "address:port".  Pure operators; a      *)
(* character is the number of the digit it stands for.  The radixes are    *)
(* parameters, so that all short inputs can be enumerated.                 *)
(***************************************************************************)
EXTENDS Integers, Sequences, SequencesExt

CONSTANTS HexBase,           \* 16
          Base58,            \* 58
          kMaxInput,         \* longest input of base58 encode, 1 KiB
          kCheckSumLength,   \* 4
          Sha256(_),         \* a digest, at least that long (external)
          kCoinMaxDecimals,  \* 8
          kCoinMaxSupply,    \* 21'000'000
          UINT16_MAX

ByteValues == HexBase * HexBase

Error == <<-1>>

\* The least number of digits of n in a radix; zero has none.
Length(n, radix) == CHOOSE k \in 0 .. 12 : radix ^ k > n /\ (k = 0 \/ radix ^ (k - 1) <= n)

Digits(n, radix) == LET k == Length(n, radix) IN [i \in 1 .. k |-> (n \div radix ^ (k - i)) % radix]

ValueOf(digits, radix) == FoldLeft(LAMBDA n, d : n * radix + d, 0, digits)

Leading(s, c) == LET other == SelectInSeq(s, LAMBDA d : d # c) IN IF other = 0 THEN Len(s) ELSE other - 1

Repeat(c, n) == [i \in 1 .. n |-> c]

-----------------------------------------------------------------------------
(* Hex.  The character after the digits is the x of the prefix.            *)

X == HexBase

has_prefix(s) == Len(s) >= 2 /\ s[1] = 0 /\ s[2] = X

hex_encode(bytes, with_prefix) ==
    LET nibble(i) == LET b == bytes[(i + 1) \div 2] IN IF i % 2 = 1 THEN b \div HexBase ELSE b % HexBase
    IN (IF with_prefix THEN <<0, X>> ELSE <<>>) \o [i \in 1 .. 2 * Len(bytes) |-> nibble(i)]

stripped(s) == IF has_prefix(s) THEN SubSeq(s, 3, Len(s)) ELSE s

evened(s) == IF Len(s) % 2 = 1 THEN <<0>> \o s ELSE s

hex_decode(s) ==
    LET digits == evened(stripped(s))
    IN IF \E i \in 1 .. Len(digits) : digits[i] >= HexBase THEN Error
       ELSE [i \in 1 .. Len(digits) \div 2 |-> digits[2 * i - 1] * HexBase + digits[2 * i]]

\* Pairs from the last to the first; a lone first digit gets its zero.
reverse_hex(s) ==
    LET digits == evened(stripped(s))
        n == Len(digits)
    IN (IF has_prefix(s) THEN <<0, X>> ELSE <<>>)
       \o [i \in 1 .. n |-> IF i % 2 = 1 THEN digits[n - i] ELSE digits[n - i + 2]]

zeroless_view(bytes) == SubSeq(bytes, Leading(bytes, 0) + 1, Len(bytes))

\* An unsigned integer: its significant bytes, "00" when there are none.
hex_encode_integral(bytes) ==
    IF zeroless_view(bytes) = <<>> THEN <<0, 0>> ELSE hex_encode(zeroless_view(bytes), FALSE)

-----------------------------------------------------------------------------
(* Base58: the bytes as one number, and a first digit per leading zero.    *)

\* Mutant of base58_encode: leading zeroes are lost.
base58_encode_bare(input) ==
    IF Len(input) > kMaxInput THEN Error ELSE Digits(ValueOf(input, ByteValues), Base58)

base58_encode(input) ==
    IF Len(input) > kMaxInput THEN Error
    ELSE Repeat(0, Leading(input, 0)) \o Digits(ValueOf(input, ByteValues), Base58)

base58_decode(input) ==
    IF \E i \in 1 .. Len(input) : input[i] >= Base58 THEN Error
    ELSE Repeat(0, Leading(input, 0)) \o Digits(ValueOf(input, Base58), ByteValues)

checksum(bytes) == SubSeq(Sha256(bytes), 1, kCheckSumLength)

encode_check(input) == base58_encode(input \o checksum(input))

decode_check(input) ==
    LET decoded == base58_decode(input)
        n == Len(decoded) - kCheckSumLength
        original == SubSeq(decoded, 1, n)
    IN IF decoded = Error \/ n < 0 THEN Error
       ELSE IF checksum(original) # SubSeq(decoded, n + 1, Len(decoded)) THEN Error
       ELSE original

-----------------------------------------------------------------------------
(* Amounts.  A text is its minus signs, its whole digits, its decimals and *)
(* whether the currency follows: to_string always adds it, from_string     *)
(* refuses it.                                                             *)

kCoin == 10 ^ kCoinMaxDecimals
kMax == kCoinMaxSupply * kCoin

valid_money(value) == value >= 0 /\ value <= kMax

magnitude(n) == IF n < 0 THEN -n ELSE n

decimals(n) == LET d == Digits(n, 10) IN Repeat(0, kCoinMaxDecimals - Len(d)) \o d

\* Trailing zeroes are stripped.  The sign is printed, and the quotient
\* prints its own.
amount_to_string(value) ==
    LET quot == magnitude(value) \div kCoin
        all == decimals(magnitude(value) % kCoin)
        zeroes == Leading(Reverse(all), 0)
    IN [minus |-> IF value >= 0 THEN 0 ELSE IF quot > 0 THEN 2 ELSE 1,
        whole |-> IF quot = 0 THEN <<0>> ELSE Digits(quot, 10),
        fract |-> SubSeq(all, 1, Len(all) - zeroes),
        currency |-> TRUE]

amount_from_string(text) ==
    LET padded == text.fract \o Repeat(0, kCoinMaxDecimals - Len(text.fract))
        value == ValueOf(text.whole, 10) * kCoin + ValueOf(padded, 10)
    IN IF \/ text.minus > 0 \/ text.currency
          \/ Len(text.whole) > Len(Digits(kCoinMaxSupply, 10))
          \/ Len(text.fract) > kCoinMaxDecimals
          \/ ~valid_money(value)
           THEN -1
           ELSE value

-----------------------------------------------------------------------------
(* Endpoints.  The three patterns tried are an IPv4 address mapped into    *)
(* IPv6, which becomes an IPv4 one, an IPv4 and an IPv6 one; the port of   *)
(* the first is looked up in a group its pattern does not have.            *)

NoPort == -1

endpoint_to_string(e) == [form |-> IF e.mapped THEN "mapped" ELSE e.family, host |-> e.host, port |-> e.port]

endpoint_from_string(text) ==
    LET given == text.form # "mapped" /\ text.port # NoPort
    IN IF given /\ text.port >= UINT16_MAX THEN Error
       ELSE [family |-> IF text.form = "mapped" THEN "v4" ELSE text.form, mapped |-> FALSE,
             host |-> text.host, port |-> IF given THEN text.port ELSE 0]

-----------------------------------------------------------------------------
(* References: what the two directions must be to each other.              *)

HexRoundTrips(bytes) ==
    /\ \A prefix \in BOOLEAN : hex_decode(hex_encode(bytes, prefix)) = bytes
    /\ zeroless_view(hex_decode(hex_encode_integral(bytes))) = zeroless_view(bytes)

HexTextRoundTrips(s) ==
    /\ hex_decode(s) # Error <=> \A i \in 1 .. Len(stripped(s)) : stripped(s)[i] < HexBase
    /\ hex_decode(s) # Error => /\ hex_encode(hex_decode(s), FALSE) = evened(stripped(s))
                                /\ hex_decode(reverse_hex(s)) = Reverse(hex_decode(s))

Base58RoundTrips(bytes) ==
    /\ base58_decode(base58_encode(bytes)) = bytes
    /\ decode_check(encode_check(bytes)) = bytes

Base58TextRoundTrips(s) == base58_decode(s) # Error => base58_encode(base58_decode(s)) = s

AmountRoundTrips(value) ==
    amount_from_string([amount_to_string(value) EXCEPT !.currency = FALSE]) = IF valid_money(value) THEN value ELSE -1

EndpointRoundTrips(e) ==
    ~e.mapped => endpoint_from_string(endpoint_to_string(e)) = IF e.port < UINT16_MAX THEN e ELSE Error
=============================================================================
