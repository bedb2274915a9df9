----------------------------- MODULE AttrCodec ------------------------------
(***************************************************************************)
(* Path attributes on the wire (attr.rs, PathAttributes::parse and         *)
(* serialize).  A received attribute is its bytes: flags, type, a length   *)
(* of one byte or two, and the value.                                      *)
(***************************************************************************)
EXTENDS Octets, Option

\* FLAG_OPTIONAL, FLAG_TRANSITIVE, FLAG_EXTENDED_LEN
Optional    == 2^(Bits - 1)
Transitive  == 2^(Bits - 2)
ExtendedLen == 2^(Bits - 4)

IsExtended(flags) == (flags \div ExtendedLen) % 2 = 1

\* Bytes in front of the value, and bytes of the first attribute in r.
AttrHead(r) == IF IsExtended(r[1]) THEN 4 ELSE 3
AttrSize(r) ==
    IF Len(r) < AttrHead(r) THEN AttrHead(r)
    ELSE AttrHead(r) + IF IsExtended(r[1]) THEN GetU16(SubSeq(r, 3, 4)) ELSE r[3]

TypeCode(r) == r[2]
Value(r)    == Rest(r, AttrHead(r))

\* The attributes of raws whose type code is one of ts, in their order.
OfType(raws, ts) ==
    FlattenSeq([i \in DOMAIN raws |-> IF TypeCode(raws[i]) \in ts THEN <<raws[i]>> ELSE <<>>])

\* Segments of an AS_PATH: type, number of ASes, ASes.
Segments(v) ==
    LET Size(r) == 2 + r[2] * Word
    IN  Try(Cut(v, 2, Size, Size),
            LAMBDA items : [i \in DOMAIN items |->
                              [type |-> items[i][1], asns |-> Words(Rest(items[i], 2))]])

\* Nothing in the match over the type codes returns Err.
ValueOK(r) ==
    LET v == Value(r)
    IN  /\ TypeCode(r) = 1 => v # <<>> /\ v[1] \in 0..2
        /\ TypeCode(r) = 2 => /\ Segments(v) # Err
                              /\ \A i \in DOMAIN Segments(v) : Segments(v)[i].type \in {1, 2}
        /\ TypeCode(r) \in {3, 4, 5, 9} => Len(v) >= Word
        /\ TypeCode(r) = 7 => Len(v) >= 2 + Word

\* The values of the attributes of type t, and the one of the last of them.
Values(raws, t) ==
    LET of == OfType(raws, {t})
    IN  [i \in DOMAIN of |-> Value(of[i])]
LastValue(raws, t, n) ==
    IF Values(raws, t) = <<>> THEN None ELSE SubSeq(Last(Values(raws, t)), 1, n)

\* What PathAttributes::parse collects: of an attribute with one value the last
\* counts, lists grow, and what is unknown is kept as it came.
Collected(raws) ==
    LET all(t, Split(_)) ==
          FlattenSeq([i \in DOMAIN Values(raws, t) |-> Split(Values(raws, t)[i])])
        unknown == OfType(raws, Bytes \ 1..10)
    IN  [origin           |-> LastValue(raws, 1, 1),
         as_path          |-> all(2, Segments),
         next_hop         |-> LastValue(raws, 3, Word),
         multi_exit_disc  |-> LastValue(raws, 4, Word),
         local_pref       |-> LastValue(raws, 5, Word),
         atomic_aggregate |-> Values(raws, 6) # <<>>,
         aggregator       |-> LastValue(raws, 7, 2 + Word),
         communities      |-> all(8, Words),
         originator_id    |-> LastValue(raws, 9, Word),
         cluster_list     |-> all(10, Words),
         unknown          |-> [i \in DOMAIN unknown |->
                                 [flags |-> unknown[i][1],
                                  type_code |-> TypeCode(unknown[i]),
                                  value |-> Value(unknown[i])]]]

\* PathAttributes::parse
ParseAttributes(b) ==
    Try(Cut(b, 3, AttrSize, AttrSize),
        LAMBDA raws : IF \A i \in DOMAIN raws : ValueOK(raws[i]) THEN Collected(raws) ELSE Err)

\* PathAttributes::default; is_empty says that attributes are these.
NoAttributes ==
    [origin |-> None, as_path |-> <<>>, next_hop |-> None, multi_exit_disc |-> None,
     local_pref |-> None, atomic_aggregate |-> FALSE, aggregator |-> None,
     communities |-> <<>>, originator_id |-> None, cluster_list |-> <<>>,
     unknown |-> <<>>]

-----------------------------------------------------------------------------

\* Mutant of WriteAttr: a value of exactly Byte bytes gets a short length.
WriteAttrShort(flags, type_code, value) ==
    IF Len(value) > Byte
    THEN <<flags + (IF IsExtended(flags) THEN 0 ELSE ExtendedLen), type_code>>
           \o U16(Len(value)) \o value
    ELSE <<flags, type_code, Len(value) % Byte>> \o value

\* write_attr
WriteAttr(flags, type_code, value) ==
    IF Len(value) > Byte - 1
    THEN <<flags + (IF IsExtended(flags) THEN 0 ELSE ExtendedLen), type_code>>
           \o U16(Len(value)) \o value
    ELSE <<flags, type_code, Len(value)>> \o value

SegmentBytes(seg) == <<seg.type, Len(seg.asns) % Byte>> \o FlattenSeq(seg.asns)
SegmentsBytes(segs) == FlattenSeq([i \in DOMAIN segs |-> SegmentBytes(segs[i])])

\* PathAttributes::serialize
SerializeAttributes(attrs) ==
    LET Some(flags, t, v) == IF v = None THEN <<>> ELSE WriteAttr(flags, t, v)
        List(flags, t, vs, v) == IF vs = <<>> THEN <<>> ELSE WriteAttr(flags, t, v)
        unknown  == [i \in DOMAIN attrs.unknown |->
                       WriteAttr(attrs.unknown[i].flags, attrs.unknown[i].type_code,
                                 attrs.unknown[i].value)]
    IN  Some(Transitive, 1, attrs.origin)
        \o List(Transitive, 2, attrs.as_path, SegmentsBytes(attrs.as_path))
        \o Some(Transitive, 3, attrs.next_hop)
        \o Some(Optional, 4, attrs.multi_exit_disc)
        \o Some(Transitive, 5, attrs.local_pref)
        \o (IF attrs.atomic_aggregate THEN WriteAttr(Transitive, 6, <<>>) ELSE <<>>)
        \o Some(Optional + Transitive, 7, attrs.aggregator)
        \o List(Optional + Transitive, 8, attrs.communities, FlattenSeq(attrs.communities))
        \o Some(Optional, 9, attrs.originator_id)
        \o List(Optional, 10, attrs.cluster_list, FlattenSeq(attrs.cluster_list))
        \o FlattenSeq(unknown)

\* Attributes that fit the wire: segments and values are no longer than their
\* length fields tell, and the flags of an unknown attribute say which it has.
SegmentsOnWire == {s \in [type : {1, 2}, asns : Seq(AddressesOf(Word))] : Len(s.asns) < Byte}
UnknownOnWire ==
    {u \in [flags : Bytes, type_code : Bytes \ 1..10, value : Seq(Bytes)] :
       /\ Len(u.value) < Byte * Byte
       /\ IsExtended(u.flags) <=> Len(u.value) >= Byte}
AttributesOnWire ==
    {a \in [origin           : {None, <<0>>, <<1>>, <<2>>},
            as_path          : Seq(SegmentsOnWire),
            next_hop         : {None} \cup AddressesOf(Word),
            multi_exit_disc  : {None} \cup AddressesOf(Word),
            local_pref       : {None} \cup AddressesOf(Word),
            atomic_aggregate : BOOLEAN,
            aggregator       : {None} \cup AddressesOf(2 + Word),
            communities      : Seq(AddressesOf(Word)),
            originator_id    : {None} \cup AddressesOf(Word),
            cluster_list     : Seq(AddressesOf(Word)),
            unknown          : Seq(UnknownOnWire)] :
       /\ Len(SegmentsBytes(a.as_path)) < Byte * Byte
       /\ Len(FlattenSeq(a.communities)) < Byte * Byte
       /\ Len(FlattenSeq(a.cluster_list)) < Byte * Byte}
=============================================================================
