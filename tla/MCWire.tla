------------------------------- MODULE MCWire -------------------------------
(***************************************************************************)
(* Instance of Framing and of Codecs for TLC.  They share no variable, so  *)
(* either one moves, from the initial state of the other.  Bytes have 5    *)
(* bits, u32s and IPv4 addresses 3 of them and IPv6 addresses 4, so that   *)
(* lengths overflow a byte and AS numbers a u16 in short messages.         *)
(***************************************************************************)
EXTENDS Framing, Codecs

W(a) == <<a, 0, a>>
Pfx(len, a) == [prefix_len |-> len, address |-> a]

\* Every attribute is set.
Full == [origin           |-> <<2>>,
         as_path          |-> << [type |-> 2, asns |-> <<W(1), W(2)>>], [type |-> 1, asns |-> <<>>] >>,
         next_hop         |-> W(3),
         multi_exit_disc  |-> W(0),
         local_pref       |-> W(4),
         atomic_aggregate |-> TRUE,
         aggregator       |-> <<0, 1, 2, 3, 4>>,
         communities      |-> <<W(1), W(1)>>,
         originator_id    |-> W(5),
         cluster_list     |-> <<W(6)>>,
         unknown          |-> << [flags |-> 24, type_code |-> 12, value |-> <<7>>] >>]

\* Values around the largest length that one byte tells.
LongAttributes ==
    { [NoAttributes EXCEPT !.unknown = << [flags |-> IF n < 32 THEN 16 ELSE 18,
                                           type_code |-> 12, value |-> [i \in 1..n |-> i % 2]] >>] : n \in 31..33 }
    \cup { [NoAttributes EXCEPT !.communities = [i \in 1..n |-> W(i)]] : n \in {10, 11} }

\* Lists that are empty and not, what the daemon sends itself, capabilities
\* spread over parameters with another parameter in between.
MCSamples ==
    [k \in Kinds |->
       CASE k = "Attributes" -> {NoAttributes, Full} \cup LongAttributes
         [] k = "Update" ->
              [withdrawn_routes : {<<>>, <<Pfx(0, <<0, 0, 0>>), Pfx(5, <<1, 0, 0>>)>>},
               path_attributes : {NoAttributes, Full},
               nlri : {<<>>, <<Pfx(15, <<1, 2, 3>>), Pfx(6, <<1, 1, 0>>)>>}]
         [] k = "Open" ->
              { LocalOpen(as, 9, W(1)) : as \in {1023, 1024} }
              \cup { [NewWithCapabilities(1, 0, W(2), <<>>) EXCEPT !.optional_params = ps] :
                       ps \in { << [param_type |-> 2, value |-> <<2, 0>>],
                                   [param_type |-> 1, value |-> <<2, 0>>],
                                   [param_type |-> 2, value |-> <<2, 0, 1, 4, 0, 1, 0, 1>>] >>,
                                <<>> } }
         [] k = "Notification" -> [error_code : {4}, error_subcode : {0}, data : {<<>>, <<1, 2>>}]
         [] k = "RouteRefresh" -> [afi : {1, 2}, safi : {1}]
         [] k = "MpReach" ->
              { [afi |-> 1, safi |-> 1, next_hops |-> <<W(1)>>, nlri |-> <<Pfx(5, <<1, 0, 0>>)>>],
                [afi |-> 2, safi |-> 4, next_hops |-> <<<<1, 2, 3, 4>>, <<1, 0, 0, 0>>>>,
                 nlri |-> <<Pfx(20, <<1, 2, 3, 4>>), Pfx(1, <<1, 0, 0, 0>>)>>] }
         [] k = "MpUnreach" ->
              { [afi |-> 2, safi |-> 1, withdrawn |-> <<Pfx(0, <<0, 0, 0, 0>>), Pfx(11, <<1, 2, 3, 0>>)>>] }]

MCStarts ==
    [k \in Kinds |-> CASE k = "Open" -> <<4, 0, 1, 0, 3, 1, 1, 1>>
                       [] k \in {"Update", "MpReach", "MpUnreach"} -> <<0>>
                       [] OTHER -> <<>>]

MCLetters ==
    [k \in Kinds |-> CASE k = "Attributes"   -> {0, 1, 2, 3, 8, 12}
                       [] k = "Update"       -> {0, 1, 4, 16}
                       [] k = "Open"         -> {0, 2, 8}
                       [] k = "MpReach"      -> {0, 1, 3}
                       [] k = "MpUnreach"    -> {0, 1, 2, 21}
                       [] OTHER              -> {0, 1}]

MCMaxBody ==
    [k \in Kinds |-> CASE k = "Attributes"   -> 6
                       [] k = "Update"       -> 9
                       [] k = "Open"         -> 17
                       [] k = "MpReach"      -> 10
                       [] k = "MpUnreach"    -> 8
                       [] OTHER              -> 5]

FramingAtRest == stream = <<>> /\ ~closed /\ pc = "select"
CodecsAtRest  == kind = "Attributes" /\ sent = NoMessage /\ body = <<>>

WireInit == FramingInit /\ CodecInit

WireNext ==
    \/ FramingNext /\ CodecsAtRest /\ UNCHANGED codecVars
    \/ CodecNext /\ FramingAtRest /\ UNCHANGED framingVars

WireSpec ==
    /\ WireInit
    /\ [][WireNext]_<<framingVars, codecVars>>
    /\ FramingFairness
=============================================================================
