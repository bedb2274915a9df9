----------------------------- MODULE Addresses ------------------------------
(***************************************************************************)
(* Addresses of Width bits (32 in the program, so that TLC can enumerate   *)
(* fewer of them) and the prefixes made of them (rib.rs, PrefixKey).  The  *)
(* bits of a prefix beyond its length may be set: the program keeps them.  *)
(***************************************************************************)
EXTENDS Integers

CONSTANT Width      \* number of bits of an address

ASSUME WidthAssumption == Width \in Nat \ {0}

Address   == 0 .. (2^Width - 1)
PrefixKey == [address : Address, prefix_len : 0..Width]

\* Reference: the addresses that share their first len bits with addr.
Block(addr, len) ==
    LET unit == 2^(Width - len)
    IN  {a \in Address : a \div unit = addr \div unit}
=============================================================================
