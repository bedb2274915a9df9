---------------------------- MODULE UpdateCodec -----------------------------
(***************************************************************************)
(* UPDATE messages on the wire (message/update.rs, UpdateMessage).         *)
(***************************************************************************)
EXTENDS AttrCodec

\* Mutant of ParseRoutes: attributes end where the message ends.
ParseRoutesClipped(withdrawn, b) ==
    LET attr_len == GetU16(b)
        body     == Rest(b, 2)
        end      == IF attr_len < Len(body) THEN attr_len ELSE Len(body)
    IN  IF Len(b) < 2 THEN Panic
        ELSE Try(ParseAttributes(SubSeq(body, 1, end)),
                 LAMBDA attrs :
                   Try(ParsePrefixes(Rest(body, attr_len), Word),
                       LAMBDA nlri : [withdrawn_routes |-> withdrawn,
                                      path_attributes |-> attrs, nlri |-> nlri]))

\* The second half of UpdateMessage::parse, on what follows the withdrawn
\* routes.  Nothing makes sure that the two bytes of the length are there.
ParseRoutes(withdrawn, b) ==
    LET attr_len == GetU16(b)
        body     == Rest(b, 2)
    IN  IF Len(b) < 2 THEN Panic
        ELSE IF Len(body) < attr_len THEN Err
        ELSE Try(ParseAttributes(SubSeq(body, 1, attr_len)),
                 LAMBDA attrs :
                   Try(ParsePrefixes(Rest(body, attr_len), Word),
                       LAMBDA nlri : [withdrawn_routes |-> withdrawn,
                                      path_attributes |-> attrs, nlri |-> nlri]))

\* UpdateMessage::parse
ParseUpdate(b) ==
    LET withdrawn_len == GetU16(b)
        body == Rest(b, 2)
    IN  IF Len(b) < 4 THEN Err
        ELSE IF Len(body) < withdrawn_len THEN Err
        ELSE Try(ParsePrefixes(SubSeq(body, 1, withdrawn_len), Word),
                 LAMBDA withdrawn : ParseRoutes(withdrawn, Rest(body, withdrawn_len)))

\* UpdateMessage::serialize, the body
SerializeUpdate(m) ==
    LET withdrawn == SerializePrefixes(m.withdrawn_routes)
        attrs     == SerializeAttributes(m.path_attributes)
    IN  U16(Len(withdrawn)) \o withdrawn \o U16(Len(attrs)) \o attrs
          \o SerializePrefixes(m.nlri)

\* UPDATEs whose parts are no longer than their length fields tell.
Updates ==
    {m \in [withdrawn_routes : Seq(PrefixesOf(Word)), path_attributes : AttributesOnWire,
            nlri : Seq(PrefixesOf(Word))] :
       /\ Len(SerializePrefixes(m.withdrawn_routes)) < Byte * Byte
       /\ Len(SerializeAttributes(m.path_attributes)) < Byte * Byte}
=============================================================================
