-------------------------------- MODULE Rib ---------------------------------
(***************************************************************************)
(* The routing information base (rib.rs): the routes each peer advertised  *)
(* (Adj-RIB-In), the best route of each prefix (Loc-RIB) and the           *)
(* dampening history.                                                      *)
(*                                                                         *)
(* Every method runs under the write lock of Arc<RwLock<Rib>>, so each is  *)
(* one action.  A map is a total function: NoRoute or NoEntry stands for   *)
(* an absent key.  The withdrawn and advertised prefixes of an UPDATE are  *)
(* sets; an UPDATE that names a prefix twice has the effect of two         *)
(* UPDATEs.                                                                *)
(***************************************************************************)
EXTENDS BestPath, Dampening

CONSTANTS
    Prefixes,   \* the prefixes that peers announce
    PeerASes,   \* the AS numbers that peers announce in their OPEN
    Attrs,      \* the path attributes that UPDATEs carry
    Mode,       \* RpkiValidator.mode
    Roas,       \* RpkiValidator.roas
    NoRoute,    \* no entry in an Adj-RIB-In or in the Loc-RIB
    NoEntry     \* no entry in the dampening table

ASSUME RibAssumption ==
    /\ Prefixes \subseteq PrefixKey
    /\ PeerASes \subseteq Nat
    /\ Attrs \subseteq PathAttributes
    /\ Mode \in RpkiMode
    /\ Roas \subseteq RoaOf(Nat)
    /\ NoRoute \notin Route
    /\ NoEntry \notin PrefixDampening

VARIABLES
    adj_rib_in,     \* [Peers -> [Prefixes -> Route or NoRoute]]
    loc_rib,        \* [Prefixes -> Route or NoRoute]
    dampening,      \* [Peers -> [Prefixes -> PrefixDampening or NoEntry]]
    now             \* the monotonic clock, in ticks

ribVars == <<adj_rib_in, loc_rib, dampening, now>>

AdjRibIn == [Prefixes -> Route \cup {NoRoute}]
LocRib   == [Prefixes -> Route \cup {NoRoute}]
History  == [Prefixes -> PrefixDampening \cup {NoEntry}]

RibInit ==
    /\ adj_rib_in = [p \in Peers |-> [k \in Prefixes |-> NoRoute]]
    /\ loc_rib = [k \in Prefixes |-> NoRoute]
    /\ dampening = [p \in Peers |-> [k \in Prefixes |-> NoEntry]]
    /\ now = 0

-----------------------------------------------------------------------------
(* The decision process. *)

Candidates(adj, k) == {adj[p][k] : p \in Peers} \ {NoRoute}

\* Mutant of Decisions: the candidates are not sorted.
DecisionsUnsorted(adj, k) ==
    IF Candidates(adj, k) = {} THEN {NoRoute} ELSE Candidates(adj, k)

\* What run_decision_process may store under k.
Decisions(adj, k) ==
    IF Candidates(adj, k) = {} THEN {NoRoute} ELSE Best(Candidates(adj, k))

\* run_decision_process for each of keys; the other entries stay.
RunDecisionProcess(adj, keys) ==
    LET results(k) == IF k \in keys THEN Decisions(adj, k) ELSE {loc_rib[k]}
    IN  loc_rib' \in {f \in [Prefixes -> UNION {results(k) : k \in Prefixes}] :
                        \A k \in Prefixes : f[k] \in results(k)}

-----------------------------------------------------------------------------
(* process_update *)

\* The dampening entries of a peer after record_withdrawal for each of keys.
RecordWithdrawals(hist, keys, t) ==
    [k \in Prefixes |->
        IF k \notin keys THEN hist[k]
        ELSE Flapped(IF hist[k] = NoEntry THEN NewEntry(t) ELSE hist[k], t)]

\* The dampening entries of a peer after check_advertisement for each of keys.
CheckAdvertisements(hist, keys, t) ==
    [k \in Prefixes |->
        IF k \in keys /\ hist[k] # NoEntry THEN Checked(hist[k], t) ELSE hist[k]]

IsSuppressed(hist, k) == hist[k] # NoEntry /\ hist[k].suppressed

\* The validation state of a prefix: process_update passes the AS of the peer
\* as the origin AS.
Rov(k, peer_as) == Validate(Mode, Roas, k, peer_as)

\* Mutants of Accepted: suppressed prefixes are installed; invalid ones are.
AcceptedSuppressed(hist, as, nlri) ==
    {k \in nlri : ~ShouldReject(Mode, Rov(k, as))}

AcceptedInvalid(hist, as, nlri) ==
    {k \in nlri : ~IsSuppressed(hist, k)}

\* The advertised prefixes that are neither suppressed nor rejected.
Accepted(hist, as, nlri) ==
    {k \in nlri : ~IsSuppressed(hist, k) /\ ~ShouldReject(Mode, Rov(k, as))}

\* The Adj-RIB-In of p once the accepted routes are inserted and, after
\* that, the withdrawn ones removed.
UpdatedRoutes(p, as, accepted, attrs, withdrawn) ==
    [k \in Prefixes |->
        CASE k \in withdrawn -> NoRoute
          [] k \in accepted \ withdrawn ->
                NewRoute(attrs, p, as, now, Rov(k, as))
          [] OTHER -> adj_rib_in[p][k]]

\* Bound: the penalties that this model lets accumulate.
PenaltiesBounded(hist) ==
    \A k \in Prefixes : hist[k] # NoEntry => hist[k].penalty <= MaxPenalty

ProcessUpdate(p, as, nlri, attrs, withdrawn) ==
    LET flapped  == RecordWithdrawals(dampening[p], withdrawn, now)
        hist     == CheckAdvertisements(flapped, nlri, now)
        accepted == Accepted(hist, as, nlri)
    IN  /\ PenaltiesBounded(flapped)
        /\ dampening' = [dampening EXCEPT ![p] = hist]
        /\ adj_rib_in' =
             [adj_rib_in EXCEPT
                ![p] = UpdatedRoutes(p, as, accepted, attrs, withdrawn)]
        /\ RunDecisionProcess(adj_rib_in', accepted \cup withdrawn)
        /\ UNCHANGED now

-----------------------------------------------------------------------------
(* The other methods that change the RIB. *)

RoutesOf(p) == {k \in Prefixes : adj_rib_in[p][k] # NoRoute}

StaleRoutesOf(p) == {k \in RoutesOf(p) : adj_rib_in[p][k].stale}

\* Mutants of RemovePeer: the decision process is not run again; the dampening
\* table is not told.
RemovePeerUndecided(p) ==
    /\ adj_rib_in' = [adj_rib_in EXCEPT ![p] = [k \in Prefixes |-> NoRoute]]
    /\ dampening' = [dampening EXCEPT ![p] = [k \in Prefixes |-> NoEntry]]
    /\ UNCHANGED <<loc_rib, now>>

RemovePeerKeepingHistory(p) ==
    /\ adj_rib_in' = [adj_rib_in EXCEPT ![p] = [k \in Prefixes |-> NoRoute]]
    /\ RunDecisionProcess(adj_rib_in', RoutesOf(p))
    /\ UNCHANGED <<dampening, now>>

\* remove_peer, with the DampeningTable::remove_peer it ends in
RemovePeer(p) ==
    /\ adj_rib_in' = [adj_rib_in EXCEPT ![p] = [k \in Prefixes |-> NoRoute]]
    /\ RunDecisionProcess(adj_rib_in', RoutesOf(p))
    /\ dampening' = [dampening EXCEPT ![p] = [k \in Prefixes |-> NoEntry]]
    /\ UNCHANGED now

\* mark_peer_stale: the Loc-RIB holds clones, which keep their mark.
MarkPeerStale(p) ==
    /\ adj_rib_in' =
         [adj_rib_in EXCEPT
            ![p] = [k \in Prefixes |->
                      IF k \in RoutesOf(p)
                      THEN [adj_rib_in[p][k] EXCEPT !.stale = TRUE]
                      ELSE NoRoute]]
    /\ UNCHANGED <<loc_rib, dampening, now>>

\* remove_stale_for_peer
RemoveStaleForPeer(p) ==
    /\ adj_rib_in' =
         [adj_rib_in EXCEPT
            ![p] = [k \in Prefixes |->
                      IF k \in StaleRoutesOf(p) THEN NoRoute
                      ELSE adj_rib_in[p][k]]]
    /\ RunDecisionProcess(adj_rib_in', StaleRoutesOf(p))
    /\ UNCHANGED <<dampening, now>>

\* Mutant of KeyCovers: the default route is not treated by itself.
KeyCoversShifted(k, addr) ==
    LET unit == 2^((Width - k.prefix_len) % Width)
    IN  addr \div unit = k.address \div unit

\* The filter of longest_match.
KeyCovers(k, addr) ==
    LET unit == 2^(Width - k.prefix_len)
    IN  k.prefix_len = 0 \/ addr \div unit = k.address \div unit

\* longest_match: keys that it may return for addr.
LongestMatch(addr) ==
    LET covering == {k \in Prefixes : loc_rib[k] # NoRoute /\ KeyCovers(k, addr)}
    IN  {k \in covering : \A j \in covering : j.prefix_len <= k.prefix_len}

Tick ==
    /\ now < MaxTime
    /\ now' = now + 1
    /\ UNCHANGED <<adj_rib_in, loc_rib, dampening>>

RibNext ==
    \/ \E p \in Peers :
         \/ \E as \in PeerASes, attrs \in Attrs,
               nlri \in SUBSET Prefixes, withdrawn \in SUBSET Prefixes :
              ProcessUpdate(p, as, nlri, attrs, withdrawn)
         \/ RemovePeer(p)
         \/ MarkPeerStale(p)
         \/ RemoveStaleForPeer(p)
    \/ Tick

RibSpec == RibInit /\ [][RibNext]_ribVars

-----------------------------------------------------------------------------
(* Properties *)

\* Type correctness of the RIB's maps and of the clock.
RibTypeOK ==
    /\ adj_rib_in \in [Peers -> AdjRibIn]
    /\ loc_rib \in LocRib
    /\ dampening \in [Peers -> History]
    /\ now \in 0..MaxTime

\* The Loc-RIB is never behind the Adj-RIBs-In: whatever updates, peer
\* removals and stale purges were interleaved, the entry of a prefix is a
\* best route of those the peers advertise now, and absent when there is
\* none.  Only the graceful-restart mark may be older than the Adj-RIB-In's:
\* mark_peer_stale does not touch the clone in the Loc-RIB.
LocRibIsBest ==
    \A k \in Prefixes :
        IF Candidates(adj_rib_in, k) = {}
        THEN loc_rib[k] = NoRoute
        ELSE /\ loc_rib[k] \in Route
             /\ \E r \in Best(Candidates(adj_rib_in, k)) :
                   /\ Unmarked(loc_rib[k]) = Unmarked(r)
                   /\ loc_rib[k].stale => r.stale

\* Dampening is enforced by never installing: while the entry of a peer and
\* a prefix is suppressed, that peer's Adj-RIB-In holds no route for it, so
\* the skip in process_update never leaves an older route behind.
SuppressedNotInstalled ==
    \A p \in Peers, k \in Prefixes :
        IsSuppressed(dampening[p], k) => adj_rib_in[p][k] = NoRoute

\* A route is filed under the peer that advertised it.
OwnRoutes ==
    \A p \in Peers, k \in Prefixes :
        adj_rib_in[p][k] # NoRoute => adj_rib_in[p][k].peer_addr = p

\* Penalties stay within the bound of the model, decay never lags behind the
\* future, and a suppression has a start exactly as long as it lasts.
HistoryOK ==
    \A p \in Peers, k \in Prefixes :
        dampening[p][k] # NoEntry =>
            /\ dampening[p][k].penalty <= MaxPenalty
            /\ dampening[p][k].last_decay <= now
            /\ dampening[p][k].suppressed <=> dampening[p][k].suppressed_at # None

\* In strict mode no Adj-RIB-In holds a route that validation contradicts.
NoInvalidInstalled ==
    Mode = "Strict" =>
        \A p \in Peers, k \in Prefixes : adj_rib_in[p][k] # NoRoute =>
            Rov(k, adj_rib_in[p][k].peer_as) # "Invalid"

\* A lookup finds the most specific installed prefix: the address lies in its
\* block and in no smaller one, however dampening lets prefixes come and go.
LookupMostSpecific ==
    \A addr \in Address :
        LET block(k) == Block(k.address, k.prefix_len)
            around   == {k \in Prefixes : loc_rib[k] # NoRoute /\ addr \in block(k)}
        IN  LongestMatch(addr) =
              {k \in around : \A j \in around : block(k) \subseteq block(j)}

\* The inductive invariant of the proofs.
RibInv ==
    /\ RibTypeOK
    /\ OwnRoutes
    /\ HistoryOK
    /\ LocRibIsBest
    /\ SuppressedNotInstalled
    /\ NoInvalidInstalled

\* Further flaps of a suppressed prefix raise its penalty and never move the
\* start of its suppression, which max_suppress_time is measured from.
SuppressionNotExtended ==
    [][\A p \in Peers, k \in Prefixes :
         IsSuppressed(dampening[p], k) /\ IsSuppressed(dampening'[p], k)
         => dampening'[p][k].suppressed_at = dampening[p][k].suppressed_at
      ]_ribVars

\* No suppression outlives max_suppress_time: an advertisement that comes so
\* long after it began is installed, however often the prefix flapped meanwhile,
\* unless validation rejects it or the same UPDATE withdraws it.
SuppressionCapped ==
    [][\A p \in Peers, k \in Prefixes :
         (/\ IsSuppressed(dampening[p], k)
          /\ now - dampening[p][k].suppressed_at >= MaxSuppressTime)
         => \A as \in PeerASes, attrs \in Attrs,
               nlri \in SUBSET Prefixes, withdrawn \in SUBSET Prefixes :
              (/\ ProcessUpdate(p, as, nlri, attrs, withdrawn)
               /\ k \in nlri \ withdrawn
               /\ ~ShouldReject(Mode, Rov(k, as)))
              => adj_rib_in'[p][k] # NoRoute
      ]_ribVars

\* In strict mode no route whose announcing AS the ROA table contradicts is
\* ever selected, also not one left from an earlier announcement.
NoInvalidSelected ==
    Mode = "Strict" =>
        \A k \in Prefixes : loc_rib[k] # NoRoute =>
            Rov(k, loc_rib[k].peer_as) # "Invalid"

\* Third parties do not move the best path: when the selected route is still
\* advertised and another one replaces it, the replacement was advertised
\* in this very step or compares equal in every attribute and in age.
BestPathStable ==
    [][\A k \in Prefixes :
         LET old == loc_rib[k]
             new == loc_rib'[k]
         IN  (/\ old # NoRoute
              /\ \E r \in Candidates(adj_rib_in', k) : Unmarked(r) = Unmarked(old)
              /\ Unmarked(new) # Unmarked(old))
             => /\ ~Preferred(old, new)
                /\ \/ adj_rib_in'[new.peer_addr][k] # adj_rib_in[new.peer_addr][k]
                   \/ ~Preferred(new, old)
      ]_ribVars
=============================================================================
