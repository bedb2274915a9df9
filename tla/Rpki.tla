------------------------------- MODULE Rpki ---------------------------------
(***************************************************************************)
(* Route origin validation (rpki.rs): how one route is judged against a    *)
(* table of ROAs.                                                          *)
(*                                                                         *)
(* The arithmetic is that of a release build: the amount of a shift is     *)
(* taken modulo Width, so that a shift by Width (a ROA for the default     *)
(* route) does not shift at all.                                           *)
(***************************************************************************)
EXTENDS Addresses

RpkiMode  == {"Disabled", "Loose", "Strict"}
RovState  == {"Valid", "Invalid", "NotFound"}

\* Roa
RoaOf(ases) ==
    [prefix : Address, prefix_len : 0..Width, max_length : 0..Width,
     origin_as : ases]

\* (x >> bits << bits), the network part of an address.
Network(x, bits) ==
    LET shift == bits % Width
    IN  (x \div 2^shift) * 2^shift

\* Mutant of Covers: the max-length is exclusive.
CoversExclusive(roa, k) ==
    /\ k.prefix_len >= roa.prefix_len
    /\ k.prefix_len < roa.max_length
    /\ Network(roa.prefix, Width - roa.prefix_len)
         = Network(k.address, Width - roa.prefix_len)

\* Roa::covers
Covers(roa, k) ==
    /\ k.prefix_len >= roa.prefix_len
    /\ k.prefix_len <= roa.max_length
    /\ Network(roa.prefix, Width - roa.prefix_len)
         = Network(k.address, Width - roa.prefix_len)

\* Mutant of Validate: every covering ROA must name the origin AS.
ValidateAll(mode, roas, k, origin_as) ==
    LET covering == {roa \in roas : Covers(roa, k)}
    IN  IF mode = "Disabled" \/ covering = {} THEN "NotFound"
        ELSE IF \A roa \in covering : roa.origin_as = origin_as THEN "Valid"
        ELSE "Invalid"

\* RpkiValidator::validate
Validate(mode, roas, k, origin_as) ==
    LET covering == {roa \in roas : Covers(roa, k)}
    IN  IF mode = "Disabled" \/ covering = {} THEN "NotFound"
        ELSE IF \E roa \in covering : roa.origin_as = origin_as THEN "Valid"
        ELSE "Invalid"

\* RpkiValidator::should_reject
ShouldReject(mode, rov) == mode = "Strict" /\ rov = "Invalid"
=============================================================================
