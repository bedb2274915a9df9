----------------------------- MODULE OpenCodec ------------------------------
(***************************************************************************)
(* OPEN messages and the capabilities in them on the wire (message/open.rs *)
(* and capabilities.rs), and the OPEN that a session sends (peer.rs,       *)
(* run_session).                                                           *)
(***************************************************************************)
EXTENDS Octets

CONSTANTS
    GracefulRestartCode,    \* 64 in the program
    FourOctetAsnCode,       \* 65
    RestartTime             \* restart time that the daemon announces, 120

ASSUME OpenCodecAssumption ==
    /\ GracefulRestartCode \in 3..(Byte - 1)
    /\ FourOctetAsnCode \in 3..(Byte - 1)
    /\ GracefulRestartCode # FourOctetAsnCode
    /\ RestartTime \in Nat

-----------------------------------------------------------------------------
(* Capabilities *)

\* The restart time has what is left of 16 bits after 4 bits of flags.
RestartTimes == 2^(2 * Bits - 4)

\* Capability::to_bytes.  The fields of a record tell which Capability it is:
\* data is that of Unknown.
CapabilityBytes(c) ==
    LET value == CASE "data" \in DOMAIN c -> c.data
                   [] "safi" \in DOMAIN c -> U16(c.afi) \o <<0, c.safi>>
                   [] "flags" \in DOMAIN c ->
                        U16((c.flags % 16) * RestartTimes + (c.restart_time % RestartTimes))
                   [] "asn" \in DOMAIN c -> c.asn
                   [] OTHER -> <<>>
    IN  <<c.code, Len(value) % Byte>> \o value

\* parse_one: what is too short for its code is unknown.
ParseOne(code, data) ==
    CASE code = 1 /\ Len(data) >= 4 -> [code |-> 1, afi |-> GetU16(data), safi |-> data[4]]
      [] code = 2 -> [code |-> 2]
      [] code = GracefulRestartCode /\ Len(data) >= 2 ->
           [code |-> code, flags |-> GetU16(data) \div RestartTimes,
            restart_time |-> GetU16(data) % RestartTimes]
      [] code = FourOctetAsnCode /\ Len(data) >= Word ->
           [code |-> code, asn |-> SubSeq(data, 1, Word)]
      [] OTHER -> [code |-> code, data |-> data]

ParamBytes(p) == <<p.param_type, Len(p.value) % Byte>> \o p.value
ParamsBytes(params) == FlattenSeq([i \in DOMAIN params |-> ParamBytes(params[i])])

\* Mutant of ParseOptionalParams: capabilities run on into the parameters
\* that follow theirs.
ParseOptionalParamsOn(data) ==
    LET n == Len(data)
        caps[q \in 0..n] ==
          IF q + 2 > n \/ q + 2 + data[q + 2] > n THEN <<>>
          ELSE LET stop == q + 2 + data[q + 2]
               IN  <<ParseOne(data[q + 1], SubSeq(data, q + 3, stop))>> \o caps[stop]
    IN  IF n < 2 \/ data[1] # 2 THEN <<>> ELSE caps[2]

\* The inner loop of parse_optional_params, which has come to q: a capability
\* is held against the end of the data, not of its parameter.
CapabilitiesUntil(end, data) ==
    LET n == Len(data)
        from[q \in 0..n] ==
          IF q + 2 > end \/ q + 2 > n \/ q + 2 + data[q + 2] > n THEN <<>>
          ELSE LET stop == q + 2 + data[q + 2]
               IN  <<ParseOne(data[q + 1], SubSeq(data, q + 3, stop))>> \o from[stop]
    IN  from

\* parse_optional_params: parameters of type 2 are lists of capabilities.
ParseOptionalParams(data) ==
    LET n == Len(data)
        params[p \in 0..n] ==
          IF p + 2 > n THEN <<>>
          ELSE LET end == p + 2 + data[p + 2]
               IN  (IF data[p + 1] = 2 THEN CapabilitiesUntil(end, data)[p + 2] ELSE <<>>)
                   \o (IF end > n THEN <<>> ELSE params[end])
    IN  params[0]

\* parse_from_open_params
ParseFromOpenParams(params) == ParseOptionalParams(ParamsBytes(params))

-----------------------------------------------------------------------------
(* OPEN *)

\* The loop over the optional parameters: type, length, value.
CutParams(b) ==
    LET Size(r) == 2 + r[2]
    IN  Cut(b, 2, Size, Size)

\* OpenMessage::parse.  What follows the optional parameters is ignored, and
\* so is a last parameter of one byte.
ParseOpen(b) ==
    LET fixed == 6 + Word
    IN  IF Len(b) < fixed \/ Len(b) < fixed + b[fixed] THEN Err
        ELSE Try(CutParams(SubSeq(b, fixed + 1, fixed + b[fixed])),
                 LAMBDA items :
                   [version   |-> b[1],
                    my_as     |-> GetU16(SubSeq(b, 2, 3)),
                    hold_time |-> GetU16(SubSeq(b, 4, 5)),
                    bgp_id    |-> SubSeq(b, 6, 5 + Word),
                    optional_params |->
                      [i \in DOMAIN items |->
                         [param_type |-> items[i][1], value |-> Rest(items[i], 2)]]])

\* OpenMessage::serialize, the body
SerializeOpen(m) ==
    LET params == ParamsBytes(m.optional_params)
    IN  <<m.version>> \o U16(m.my_as) \o U16(m.hold_time) \o m.bgp_id
          \o <<Len(params) % Byte>> \o params

\* OpenMessage::new_with_capabilities
NewWithCapabilities(my_as, hold_time, bgp_id, caps) ==
    [version |-> 4, my_as |-> my_as, hold_time |-> hold_time, bgp_id |-> bgp_id,
     optional_params |->
       IF caps = <<>> THEN <<>>
       ELSE << [param_type |-> 2,
                value |-> FlattenSeq([i \in DOMAIN caps |-> CapabilityBytes(caps[i])])] >>]

\* The bytes of a u32.
WordBytes(n) == [i \in 1..Word |-> (n \div Byte^(Word - i)) % Byte]

\* The OPEN of run_session: an AS number of more than 16 bits is the largest
\* one there, and in full in a capability.
LocalOpen(local_as, hold_time, router_id) ==
    LET caps == << [code |-> FourOctetAsnCode, asn |-> WordBytes(local_as)],
                   [code |-> 2],
                   [code |-> 1, afi |-> 1, safi |-> 1],
                   [code |-> GracefulRestartCode, flags |-> 0, restart_time |-> RestartTime] >>
        my_as == IF local_as > Byte^2 - 1 THEN Byte^2 - 1 ELSE local_as
    IN  NewWithCapabilities(my_as, hold_time, router_id, caps)

OptionalParams == [param_type : Bytes, value : Seq(Bytes)]

\* OPENs whose parameters are no longer than the length field tells.
Opens ==
    {m \in [version : Bytes, my_as : U16s, hold_time : U16s, bgp_id : AddressesOf(Word),
            optional_params : Seq(OptionalParams)] :
       Len(ParamsBytes(m.optional_params)) < Byte}
=============================================================================
