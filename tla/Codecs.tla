------------------------------- MODULE Codecs -------------------------------
(***************************************************************************)
(* The parsers and serialisers of all messages, side by side.  A body is   *)
(* either the serialised form of a message, which may then lose bytes at   *)
(* its end, or grows byte by byte from the fixed fields that every body of *)
(* its kind begins with.                                                   *)
(***************************************************************************)
EXTENDS UpdateCodec, OpenCodec, MpCodec

CONSTANTS
    Samples,    \* Samples[kind]: messages that are serialised
    Starts,     \* Starts[kind]: first bytes of bodies that are made up
    Letters,    \* Letters[kind]: bytes that they are continued with
    MaxBody,    \* MaxBody[kind]: bound, length of bodies that are made up
    NoMessage   \* a body is made up

Kinds == {"Attributes", "Update", "Open", "Notification", "RouteRefresh",
          "MpReach", "MpUnreach"}

VARIABLES kind, sent, body

codecVars == <<kind, sent, body>>

-----------------------------------------------------------------------------
(* Small messages *)

\* NotificationMessage::parse and serialize
ParseNotification(b) ==
    IF Len(b) < 2 THEN Err
    ELSE [error_code |-> b[1], error_subcode |-> b[2], data |-> Rest(b, 2)]
SerializeNotification(m) == <<m.error_code, m.error_subcode>> \o m.data

\* RouteRefresh::parse and serialize; parse returns None on a short body.
ParseRouteRefresh(b) == IF Len(b) < 4 THEN Err ELSE [afi |-> GetU16(b), safi |-> b[4]]
SerializeRouteRefresh(m) == U16(m.afi) \o <<0, m.safi>>

-----------------------------------------------------------------------------

Parse(k, b) ==
    CASE k = "Attributes"   -> ParseAttributes(b)
      [] k = "Update"       -> ParseUpdate(b)
      [] k = "Open"         -> ParseOpen(b)
      [] k = "Notification" -> ParseNotification(b)
      [] k = "RouteRefresh" -> ParseRouteRefresh(b)
      [] k = "MpReach"      -> ParseMpReach(b)
      [] k = "MpUnreach"    -> ParseMpUnreach(b)

Serialize(k, m) ==
    CASE k = "Attributes"   -> SerializeAttributes(m)
      [] k = "Update"       -> SerializeUpdate(m)
      [] k = "Open"         -> SerializeOpen(m)
      [] k = "Notification" -> SerializeNotification(m)
      [] k = "RouteRefresh" -> SerializeRouteRefresh(m)
      [] k = "MpReach"      -> SerializeMpReach(m)
      [] k = "MpUnreach"    -> SerializeMpUnreach(m)

\* The messages that can be sent.
MessagesOf(k) ==
    CASE k = "Attributes"   -> AttributesOnWire
      [] k = "Update"       -> Updates
      [] k = "Open"         -> Opens
      [] k = "Notification" -> [error_code : Bytes, error_subcode : Bytes, data : Seq(Bytes)]
      [] k = "RouteRefresh" -> [afi : U16s, safi : Bytes]
      [] k = "MpReach"      -> MpReaches
      [] k = "MpUnreach"    -> MpUnreaches

\* Samples are such messages, bodies are bytes, the attributes of an UPDATE are
\* as many bytes as two bytes can tell, and what parsers return when they fail
\* is nothing that they return when they do not.
ASSUME CodecsAssumption ==
    /\ \A k \in Kinds : \A m \in Samples[k] : m \in MessagesOf(k) /\ m # NoMessage
    /\ \A k \in Kinds : Starts[k] \in Seq(Bytes) /\ Letters[k] \subseteq Bytes
    /\ Len(Starts["Attributes"]) < Byte * Byte
    /\ MaxBody["Attributes"] \in Nat /\ MaxBody["Attributes"] < Byte * Byte
    /\ \A e \in {Err, Panic, None} :
         /\ e \notin Seq(Bytes) /\ e \notin Seq(Seq(Bytes))
         /\ e \notin Seq(SegmentsOnWire) /\ e \notin AttributesOnWire
         /\ \A w \in {Word, LongWord} : e \notin Seq(PrefixesOf(w))

CodecInit ==
    /\ kind \in Kinds
    /\ \/ sent \in Samples[kind] /\ body = Serialize(kind, sent)
       \/ sent = NoMessage /\ body = Starts[kind]

\* The header claims one byte less than the message has.  Attributes are no
\* message of their own: an UPDATE says how long they are.
Truncate ==
    /\ sent # NoMessage
    /\ kind # "Attributes"
    /\ body # <<>>
    /\ body' = Front(body)
    /\ UNCHANGED <<kind, sent>>

\* Another byte.
Extend(b) ==
    /\ sent = NoMessage
    /\ Len(body) < MaxBody[kind]
    /\ body' = Append(body, b)
    /\ UNCHANGED <<kind, sent>>

CodecNext == Truncate \/ \E b \in Letters[kind] : Extend(b)

CodecSpec == CodecInit /\ [][CodecNext]_codecVars

-----------------------------------------------------------------------------
(* Properties *)

\* The lists of prefixes of a parsed message.
PrefixLists(k, m) ==
    CASE k = "Update"    -> {m.withdrawn_routes, m.nlri}
      [] k = "MpReach"   -> {m.nlri}
      [] k = "MpUnreach" -> {m.withdrawn}
      [] OTHER           -> {}

\* The list at the end of a message, which has no length of its own.
LastList(k) ==
    CASE k \in {"Update", "MpReach"} -> "nlri"
      [] k = "MpUnreach"             -> "withdrawn"
      [] k = "Notification"          -> "data"
      [] OTHER                       -> "none"

\* Parsing takes back what serialising did, for every message: lengths of one
\* byte and of two, empty and full lists, addresses cut to their prefix.
RoundTrip ==
    (sent # NoMessage /\ body = Serialize(kind, sent)) => Parse(kind, body) = sent

\* A message that lost bytes at its end is either refused or is the message
\* without the end of its last list: no other route, withdrawal, attribute or
\* capability ever comes out of it.
TruncationSafe ==
    (sent # NoMessage /\ body # Serialize(kind, sent)) =>
        LET got == Parse(kind, body)
        IN  \/ got \in {Err, Panic}
            \/ /\ LastList(kind) \in DOMAIN sent
               /\ IsStrictPrefix(got[LastList(kind)], sent[LastList(kind)])
               /\ got = [sent EXCEPT ![LastList(kind)] = got[LastList(kind)]]

\* Unknown attributes that came with a long length for a short value: their
\* flags are kept, their length is not.
LongFlagKept(attrs) ==
    \E i \in DOMAIN attrs.unknown :
        IsExtended(attrs.unknown[i].flags) /\ Len(attrs.unknown[i].value) < Byte

\* What the daemon has read it can pass on: a message that is parsed,
\* serialised and parsed again is the same message, and no byte of its
\* prefixes was skipped.  The bytes it came from may be any that the parser
\* accepts but those with a prefix that is too long or a LongFlagKept.
ForwardsWhatItRead ==
    LET got == Parse(kind, body)
    IN  (/\ got \notin {Err, Panic}
         /\ \A ps \in PrefixLists(kind, got) : LegalPrefixes(ps)
         /\ kind = "Attributes" => ~LongFlagKept(got)
         /\ kind = "Update" => ~LongFlagKept(got.path_attributes))
        => /\ Parse(kind, Serialize(kind, got)) = got
           /\ LastList(kind) \in {"nlri", "withdrawn"}
                => IsSuffix(SerializePrefixes(got[LastList(kind)]), body)

\* The capabilities in the value of a parameter, which are cut as parameters
\* are: code, length, value.
CapabilitiesIn(value) ==
    LET cut == CutParams(value)
    IN  [i \in DOMAIN cut |-> ParseOne(cut[i][1], Rest(cut[i], 2))]

\* It does not matter how a peer spreads its capabilities over parameters, or
\* what other parameters are among them: the session knows those of each
\* parameter of type 2 in turn.
CapabilitiesInOrder ==
    LET got == Parse(kind, body)
        ps  == got.optional_params
    IN  (/\ kind = "Open" /\ got # Err
         /\ \A i \in DOMAIN ps : ps[i].param_type = 2 => CutParams(ps[i].value) # Err)
        => ParseFromOpenParams(ps)
             = FlattenSeq([i \in DOMAIN ps |->
                             IF ps[i].param_type = 2 THEN CapabilitiesIn(ps[i].value)
                             ELSE <<>>])

\* README.md:262: a parser answers malformed input with Err or None and never
\* panics.
UpdateNeverPanics == kind = "Update" => Parse(kind, body) # Panic
=============================================================================
