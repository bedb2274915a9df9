--------------------------- MODULE RpkiValidator ----------------------------
(***************************************************************************)
(* The ROA table of the RPKI validator as it grows (rpki.rs,               *)
(* RpkiValidator), and its verdicts compared with what a ROA means as a    *)
(* set of addresses.                                                       *)
(***************************************************************************)
EXTENDS Rpki, FiniteSets

CONSTANTS
    Mode,       \* RpkiValidator.mode
    ASes,       \* AS numbers that ROAs and routes name
    MaxRoas     \* bound: number of distinct ROAs in the table

ASSUME RpkiValidatorAssumption ==
    /\ Mode \in RpkiMode
    /\ ASes \subseteq Nat
    /\ MaxRoas \in Nat

VARIABLE roas   \* the Vec of ROAs: neither order nor multiplicity is read

RpkiInit == roas = {}

\* add_roa
AddRoa(roa) ==
    /\ Cardinality(roas \cup {roa}) <= MaxRoas
    /\ roas' = roas \cup {roa}

RpkiNext == \E roa \in RoaOf(ASes) : AddRoa(roa)

RpkiSpec == RpkiInit /\ [][RpkiNext]_roas

-----------------------------------------------------------------------------
(* Reference definition *)

\* The addresses of k are among those the ROA speaks about.
Contains(roa, k) ==
    Block(k.address, k.prefix_len) \subseteq Block(roa.prefix, roa.prefix_len)

-----------------------------------------------------------------------------
(* Properties *)

\* The shifts in Roa::covers compute containment of address blocks, with the
\* max-length as an upper bound, for every ROA but those of length 0.
CoversIsContainment ==
    \A roa \in roas, k \in PrefixKey :
        roa.prefix_len > 0 =>
            (Covers(roa, k)
               <=> Contains(roa, k) /\ k.prefix_len <= roa.max_length)

\* A new ROA never takes a verdict back to NotFound and never takes Valid
\* away: only Invalid can turn to Valid.
VerdictsMonotone ==
    [][\A k \in PrefixKey, as \in ASes :
         LET before == Validate(Mode, roas, k, as)
             after  == Validate(Mode, roas', k, as)
         IN  /\ before = "Valid" => after = "Valid"
             /\ before = "Invalid" => after # "NotFound"
      ]_roas

\* rpki.rs:10-14: a route is Invalid when a ROA speaks about its prefix and
\* none authorises it, be it for the origin AS or for the max-length.
InvalidAsDocumented ==
    \A k \in PrefixKey, as \in ASes :
        LET speaking == {roa \in roas : /\ 0 < roa.prefix_len
                                        /\ roa.prefix_len <= roa.max_length
                                        /\ Contains(roa, k)}
        IN  (/\ Mode # "Disabled"
             /\ speaking # {}
             /\ \A roa \in speaking :
                  roa.origin_as # as \/ k.prefix_len > roa.max_length)
            => Validate(Mode, roas, k, as) = "Invalid"
=============================================================================
