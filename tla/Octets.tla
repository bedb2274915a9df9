------------------------------- MODULE Octets -------------------------------
(***************************************************************************)
(* What the parsers and serialisers of the program have in common: bytes,  *)
(* big-endian numbers of two bytes, and the loops that take items off a    *)
(* buffer (bytes::Buf).  A u32 or an IPv4 address is kept as its Word      *)
(* bytes, so that TLC may use shorter ones, and bytes have Bits bits.      *)
(***************************************************************************)
EXTENDS Integers, SequencesExt

CONSTANTS
    Bits,       \* bits of a byte, 8 in the program
    Word,       \* bytes of a u32 and of an IPv4 address, 4
    LongWord,   \* bytes of an IPv6 address, 16
    Err,        \* a parser returns Err
    Panic       \* a parser panics

ASSUME OctetsAssumption ==
    /\ Bits \in Nat /\ Bits >= 4
    /\ Word \in Nat \ {0} /\ LongWord \in Nat \ {0} /\ 2 + Word < 2^Bits

Byte == 2^Bits
Bytes == 0..(Byte - 1)
U16s  == 0..(Byte * Byte - 1)

\* put_u16(n as u16) and get_u16
U16(n)   == << (n \div Byte) % Byte, n % Byte >>
GetU16(b) == b[1] * Byte + b[2]

\* What is left of b after n bytes.
Rest(b, n) == SubSeq(b, n + 1, Len(b))

\* F of a parsed value, unless parsing failed: the ? of Rust.
Try(x, F(_)) == IF x \in {Err, Panic} THEN x ELSE F(x)

\* The items of b: as long as min bytes are left, Size says how many the next
\* item must have and Used how many of them it takes off the buffer.
Cut(b, min, Size(_), Used(_)) ==
    LET from[p \in 0..Len(b)] ==
          LET r == Rest(b, p)
          IN  IF Len(r) < min THEN <<>>
              ELSE IF Len(r) < Size(r) THEN Err
              ELSE Try(from[p + Used(r)],
                       LAMBDA items : << SubSeq(r, 1, Size(r)) >> \o items)
    IN  from[0]

\* Every whole item of w bytes in v; bytes after the last are ignored.
Items(v, w) == [i \in 1..(Len(v) \div w) |-> SubSeq(v, (i - 1) * w + 1, i * w)]
Words(v) == Items(v, Word)

-----------------------------------------------------------------------------
(* Prefixes: Prefix of message/update.rs, and MpPrefix of mp.rs *)

\* encoded_len
EncodedLen(prefix_len) == (prefix_len + Bits - 1) \div Bits

\* Mutant of ParsePrefixes: a single byte at the end is taken for padding.
ParsePrefixesLong(b, w) ==
    LET Size(r) == 1 + EncodedLen(r[1])
        Used(r) == IF Size(r) > 1 + w THEN 1 + w ELSE Size(r)
        Prefix(r) == [prefix_len |-> r[1],
                      address |-> [i \in 1..w |-> IF i < Size(r) THEN r[i + 1] ELSE 0]]
    IN  Try(Cut(b, 2, Size, Used),
            LAMBDA items : [i \in DOMAIN items |-> Prefix(items[i])])

\* Prefix::parse, MpPrefix::parse for addresses of w bytes: the length byte
\* may be anything, the address takes w bytes at most.
ParsePrefixes(b, w) ==
    LET Size(r) == 1 + EncodedLen(r[1])
        Used(r) == IF Size(r) > 1 + w THEN 1 + w ELSE Size(r)
        Prefix(r) == [prefix_len |-> r[1],
                      address |-> [i \in 1..w |-> IF i < Size(r) THEN r[i + 1] ELSE 0]]
    IN  Try(Cut(b, 1, Size, Used),
            LAMBDA items : [i \in DOMAIN items |-> Prefix(items[i])])

\* Prefix::serialize, MpPrefix::serialize; lengths beyond the address panic.
PrefixBytes(p) == <<p.prefix_len>> \o SubSeq(p.address, 1, EncodedLen(p.prefix_len))

SerializePrefixes(ps) == FlattenSeq([i \in DOMAIN ps |-> PrefixBytes(ps[i])])

\* The lengths that serialisation takes.
LegalPrefixes(ps) == \A i \in DOMAIN ps : EncodedLen(ps[i].prefix_len) <= Len(ps[i].address)

\* The addresses of w bytes, and the prefixes as they are on the wire: what
\* the length does not cover is zero.
AddressesOf(w) == [1..w -> Bytes]
PrefixesOf(w) ==
    {p \in [prefix_len : Bytes, address : AddressesOf(w)] :
       /\ EncodedLen(p.prefix_len) <= w
       /\ \A i \in 1..w : i > EncodedLen(p.prefix_len) => p.address[i] = 0}
=============================================================================
