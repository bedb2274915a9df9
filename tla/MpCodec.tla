------------------------------ MODULE MpCodec -------------------------------
(***************************************************************************)
(* Values of MP_REACH_NLRI and MP_UNREACH_NLRI (mp.rs).                    *)
(***************************************************************************)
EXTENDS Octets

\* Afi and Safi
Afi  == {1, 2}
Safi == {1, 2, 4}

\* Bytes of an address: IPv4 or IPv6.
AddressLen(afi) == IF afi = 1 THEN Word ELSE LongWord

\* MpReachNlri::parse.  Nothing makes sure that there is a byte behind the
\* next hops.
ParseMpReach(b) ==
    IF \/ Len(b) < 4 \/ GetU16(b) \notin Afi \/ b[3] \notin Safi
       \/ Len(b) < 4 + b[4]
    THEN Err
    ELSE IF Len(b) = 4 + b[4] THEN Panic
    ELSE LET w == AddressLen(GetU16(b))
         IN  Try(ParsePrefixes(Rest(b, 5 + b[4]), w),
                 LAMBDA nlri : [afi |-> GetU16(b), safi |-> b[3],
                                next_hops |-> Items(SubSeq(b, 5, 4 + b[4]), w),
                                nlri |-> nlri])

\* MpReachNlri::serialize
SerializeMpReach(m) ==
    LET hops == FlattenSeq(m.next_hops)
    IN  U16(m.afi) \o <<m.safi, Len(hops) % Byte>> \o hops \o <<0>>
          \o SerializePrefixes(m.nlri)

\* MpUnreachNlri::parse
ParseMpUnreach(b) ==
    IF Len(b) < 3 \/ GetU16(b) \notin Afi \/ b[3] \notin Safi THEN Err
    ELSE Try(ParsePrefixes(Rest(b, 3), AddressLen(GetU16(b))),
             LAMBDA ps : [afi |-> GetU16(b), safi |-> b[3], withdrawn |-> ps])

\* MpUnreachNlri::serialize
SerializeMpUnreach(m) == U16(m.afi) \o <<m.safi>> \o SerializePrefixes(m.withdrawn)

\* Values whose next hops are no longer than the length field tells, with the
\* addresses of their family.
MpReaches ==
    {m \in [afi : Afi, safi : Safi, next_hops : Seq(Seq(Bytes)),
            nlri : Seq([prefix_len : Bytes, address : Seq(Bytes)])] :
       /\ m.next_hops \in Seq(AddressesOf(AddressLen(m.afi)))
       /\ Len(FlattenSeq(m.next_hops)) < Byte
       /\ m.nlri \in Seq(PrefixesOf(AddressLen(m.afi)))}
MpUnreaches ==
    {m \in [afi : Afi, safi : Safi,
            withdrawn : Seq([prefix_len : Bytes, address : Seq(Bytes)])] :
       m.withdrawn \in Seq(PrefixesOf(AddressLen(m.afi)))}
=============================================================================
