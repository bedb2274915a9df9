---------------------------- MODULE DaemonProofs ----------------------------
(***************************************************************************)
(* Proofs about the RIB and the daemon.  Of the RIB: the comparator of the *)
(* decision process is a strict weak order, and the invariants of Rib hold *)
(* for any peers, prefixes, attributes, ROAs and dampening configuration.  *)
(* Of the daemon, for any number of connections and addresses: its         *)
(* sessions use the RIB through the RIB's own operations only, so that all *)
(* this holds in the daemon; no session leaves routes behind when it ends  *)
(* in order; and graceful restart is never entered.                        *)
(***************************************************************************)
EXTENDS Daemon, Arithmetic, FiniteSetTheorems, TLAPS

-----------------------------------------------------------------------------
(* The comparator *)

\* What the comparator reads of a route is a number.
LEMMA RouteKeys ==
    ASSUME NEW r \in Route
    PROVE  /\ LocalPref(r) \in Nat
           /\ PathLen(r) \in Nat
           /\ Origin(r) \in Nat
           /\ Med(r) \in Nat
           /\ r.received_at \in Nat
  BY DEF Route, PathAttributes, OptNat, UnwrapOr, LocalPref, PathLen, Origin, Med

\* sort_by gets a strict weak order: no route precedes itself, precedence is
\* transitive, and so is being tied, whichever attributes are missing.
THEOREM PreferredIsStrictWeakOrder ==
    ASSUME NEW a \in Route, NEW b \in Route, NEW c \in Route
    PROVE  /\ ~Preferred(a, a)
           /\ Preferred(a, b) /\ Preferred(b, c) => Preferred(a, c)
           /\ ~Preferred(a, b) /\ ~Preferred(b, c) => ~Preferred(a, c)
  BY RouteKeys DEF Preferred

\* The graceful-restart mark plays no part in the comparison.
LEMMA PreferredUnmarked ==
    ASSUME NEW a \in Route, NEW b \in Route, NEW c \in Route, NEW d \in Route,
           Unmarked(a) = Unmarked(c), Unmarked(b) = Unmarked(d)
    PROVE  Preferred(a, b) <=> Preferred(c, d)
  <1>1. a.attrs = c.attrs /\ a.received_at = c.received_at
    BY DEF Unmarked, Route
  <1>2. b.attrs = d.attrs /\ b.received_at = d.received_at
    BY DEF Unmarked, Route
  <1> QED
    BY <1>1, <1>2 DEF Preferred, LocalPref, PathLen, Origin, Med

-----------------------------------------------------------------------------
(* Helpers of the actions *)

\* What validation returns is a validation state.
LEMMA RovType ==
    ASSUME NEW k, NEW as
    PROVE  Rov(k, as) \in RovState
  BY DEF Rov, Validate, RovState

\* The route that process_update builds is a route.
LEMMA NewRouteType ==
    ASSUME NEW attrs \in Attrs, NEW p \in Peers, NEW as \in PeerASes,
           NEW t \in Nat, NEW k
    PROVE  NewRoute(attrs, p, as, t, Rov(k, as)) \in Route
  BY RovType, RibAssumption DEF NewRoute, Route

\* Well-formed entry of the dampening table at time t.
EntryOK(e, t) ==
    /\ e \in PrefixDampening
    /\ e.penalty <= MaxPenalty
    /\ e.last_decay <= t
    /\ e.suppressed <=> e.suppressed_at # None

\* The updates of an entry that keep its type.
LEMMA EntryUpdates ==
    ASSUME NEW e \in PrefixDampening, NEW p \in Nat, NEW t \in Nat
    PROVE  /\ [e EXCEPT !.penalty = p, !.last_decay = t] \in PrefixDampening
           /\ [e EXCEPT !.penalty = p] \in PrefixDampening
           /\ [e EXCEPT !.penalty = p, !.suppressed = TRUE, !.suppressed_at = t]
                \in PrefixDampening
           /\ [e EXCEPT !.suppressed = FALSE, !.suppressed_at = None]
                \in PrefixDampening
  BY DEF PrefixDampening, OptNat

\* decay keeps an entry well formed.
LEMMA DecayedOK ==
    ASSUME NEW t \in 0..MaxTime, NEW e, EntryOK(e, t)
    PROVE  EntryOK(Decayed(e, t), t)
  <1>1. CASE t > e.last_decay
    <2>1. PICK x \in 0..e.penalty : Decay(e.penalty, t - e.last_decay) = x
      BY <1>1, DampeningAssumption DEF EntryOK, PrefixDampening
    <2>2. Decayed(e, t) = [e EXCEPT !.penalty = x, !.last_decay = t]
      BY <1>1, <2>1 DEF Decayed
    <2>3. e \in PrefixDampening /\ t \in Nat /\ x \in Nat /\ x <= MaxPenalty
      BY <2>1, DampeningAssumption DEF EntryOK, PrefixDampening
    <2>4. [e EXCEPT !.penalty = x, !.last_decay = t] \in PrefixDampening
      BY <2>3, EntryUpdates
    <2> QED
      BY <2>2, <2>3, <2>4 DEF EntryOK, PrefixDampening
  <1>2. CASE ~(t > e.last_decay)
    BY <1>2 DEF Decayed
  <1> QED  BY <1>1, <1>2

\* record_withdrawal keeps an entry well formed, within the bound of the model:
\* when it starts a suppression it records the start.
LEMMA FlappedOK ==
    ASSUME NEW t \in 0..MaxTime, NEW e, EntryOK(e, t),
           Flapped(e, t).penalty <= MaxPenalty
    PROVE  EntryOK(Flapped(e, t), t)
  <1> DEFINE d == Decayed(e, t)
             p == d.penalty + FlapPenalty
  <1>1. EntryOK(d, t)
    BY DecayedOK
  <1>2. t \in Nat /\ t # None
    BY DampeningAssumption, NoneAssumption
  <1>3. Flapped(e, t) =
          IF ~d.suppressed /\ p >= SuppressLimit
          THEN [d EXCEPT !.penalty = p, !.suppressed = TRUE, !.suppressed_at = t]
          ELSE [d EXCEPT !.penalty = p]
    BY DEF Flapped
  <1>4. d \in PrefixDampening /\ p \in Nat
    BY <1>1, DampeningAssumption DEF EntryOK, PrefixDampening
  <1> HIDE DEF d, p
  <1>5. Flapped(e, t) \in PrefixDampening
    <2>1. /\ [d EXCEPT !.penalty = p] \in PrefixDampening
          /\ [d EXCEPT !.penalty = p, !.suppressed = TRUE, !.suppressed_at = t]
               \in PrefixDampening
      BY <1>2, <1>4, EntryUpdates
    <2> QED  BY <1>3, <2>1
  <1>6. Flapped(e, t).last_decay <= t
    BY <1>1, <1>3, <1>4 DEF EntryOK, PrefixDampening
  <1>7. Flapped(e, t).suppressed <=> Flapped(e, t).suppressed_at # None
    BY <1>1, <1>2, <1>3, <1>4 DEF EntryOK, PrefixDampening
  <1> QED
    BY <1>5, <1>6, <1>7 DEF EntryOK

\* check_advertisement keeps an entry well formed: it clears the start of a
\* suppression together with the flag.
LEMMA CheckedOK ==
    ASSUME NEW t \in 0..MaxTime, NEW e, EntryOK(e, t)
    PROVE  EntryOK(Checked(e, t), t)
  <1> DEFINE d == Decayed(e, t)
             c == [d EXCEPT !.suppressed = FALSE, !.suppressed_at = None]
  <1>1. EntryOK(d, t)
    BY DecayedOK
  <1>2. Checked(e, t) = IF SuppressionOver(d, t) THEN c ELSE d
    BY DEF Checked
  <1>3. c \in PrefixDampening
    BY <1>1, EntryUpdates DEF EntryOK
  <1>4. EntryOK(c, t)
    BY <1>1, <1>3 DEF EntryOK, PrefixDampening
  <1> QED
    BY <1>1, <1>2, <1>4

\* Decay leaves the suppression alone, a flap never moves the start of one
\* and an advertisement never starts one.
LEMMA SuppressionStart ==
    ASSUME NEW t \in 0..MaxTime, NEW e, EntryOK(e, t)
    PROVE  /\ e.suppressed => /\ Flapped(e, t).suppressed
                              /\ Flapped(e, t).suppressed_at = e.suppressed_at
           /\ Checked(e, t).suppressed =>
                 /\ e.suppressed
                 /\ Checked(e, t).suppressed_at = e.suppressed_at
  <1> DEFINE d == Decayed(e, t)
  <1>1. /\ d.suppressed = e.suppressed
        /\ d.suppressed_at = e.suppressed_at
    BY DEF EntryOK, PrefixDampening, Decayed
  <1>2. d \in PrefixDampening
    BY DecayedOK DEF EntryOK
  <1>3. e.suppressed => Flapped(e, t) = [d EXCEPT !.penalty = d.penalty + FlapPenalty]
    BY <1>1 DEF Flapped
  <1>4. Checked(e, t) =
          IF SuppressionOver(d, t)
          THEN [d EXCEPT !.suppressed = FALSE, !.suppressed_at = None] ELSE d
    BY DEF Checked
  <1> HIDE DEF d
  <1> QED
    BY <1>1, <1>2, <1>3, <1>4 DEF PrefixDampening

\* Well-formed dampening entries of one peer.
HistOK(h, t) ==
    /\ h \in History
    /\ \A k \in Prefixes : h[k] # NoEntry => EntryOK(h[k], t)

\* HistoryOK, which speaks about all peers, taken apart by peer.
LEMMA HistoryParts ==
    RibTypeOK => (HistoryOK <=> \A p \in Peers : HistOK(dampening[p], now))
  BY DEF RibTypeOK, HistoryOK, HistOK, EntryOK, History

\* The withdrawals of an UPDATE keep the history of its sender well formed.
LEMMA RecordWithdrawalsOK ==
    ASSUME NEW t \in 0..MaxTime, NEW h, HistOK(h, t), NEW keys,
           PenaltiesBounded(RecordWithdrawals(h, keys, t))
    PROVE  HistOK(RecordWithdrawals(h, keys, t), t)
  <1> DEFINE g == RecordWithdrawals(h, keys, t)
             start(k) == IF h[k] = NoEntry THEN NewEntry(t) ELSE h[k]
  <1>1. EntryOK(NewEntry(t), t)
    BY DampeningAssumption DEF EntryOK, NewEntry, PrefixDampening, OptNat
  <1>2. \A k \in Prefixes : EntryOK(start(k), t)
    BY <1>1 DEF HistOK
  <1>3. \A k \in Prefixes : g[k] = IF k \notin keys THEN h[k] ELSE Flapped(start(k), t)
    BY DEF RecordWithdrawals
  <1>4. ASSUME NEW k \in Prefixes, g[k] # NoEntry
        PROVE  EntryOK(g[k], t)
    <2>1. CASE k \notin keys
      BY <1>3, <1>4, <2>1 DEF HistOK
    <2>2. CASE k \in keys
      <3>1. g[k] = Flapped(start(k), t) /\ g[k].penalty <= MaxPenalty
        BY <1>3, <1>4, <2>2 DEF PenaltiesBounded
      <3>2. EntryOK(start(k), t)
        BY <1>2
      <3> HIDE DEF g, start
      <3> QED  BY <3>1, <3>2, FlappedOK
    <2> QED  BY <2>1, <2>2
  <1>5. \A k \in Prefixes : g[k] \in PrefixDampening \cup {NoEntry}
    BY <1>4 DEF EntryOK
  <1>6. g \in [Prefixes -> PrefixDampening \cup {NoEntry}]
    <2>1. g = [k \in Prefixes |-> g[k]]
      BY DEF RecordWithdrawals
    <2> HIDE DEF g
    <2> QED  BY <1>5, <2>1
  <1> HIDE DEF g
  <1>7. HistOK(g, t)
    BY <1>4, <1>6 DEF HistOK, History
  <1> QED  BY <1>7 DEF g

\* The announcements of an UPDATE keep the history of its sender well formed.
LEMMA CheckAdvertisementsOK ==
    ASSUME NEW t \in 0..MaxTime, NEW h, HistOK(h, t), NEW keys
    PROVE  HistOK(CheckAdvertisements(h, keys, t), t)
  <1> DEFINE g == CheckAdvertisements(h, keys, t)
  <1>1. \A k \in Prefixes :
           g[k] = IF k \in keys /\ h[k] # NoEntry THEN Checked(h[k], t) ELSE h[k]
    BY DEF CheckAdvertisements
  <1>2. g = [k \in Prefixes |-> g[k]]
    BY DEF CheckAdvertisements
  <1> HIDE DEF g
  <1>3. \A k \in Prefixes : g[k] # NoEntry => EntryOK(g[k], t)
    BY <1>1, CheckedOK DEF HistOK
  <1>4. g \in History
    BY <1>2, <1>3 DEF EntryOK, History
  <1>5. HistOK(g, t)
    BY <1>3, <1>4 DEF HistOK
  <1> QED  BY <1>5 DEF g

-----------------------------------------------------------------------------
(* The decision process *)

\* RunDecisionProcess stores a decision under each of its keys and keeps the
\* rest of the Loc-RIB.
LEMMA DecisionsStored ==
    ASSUME NEW adj, NEW keys, RunDecisionProcess(adj, keys)
    PROVE  /\ loc_rib' = [k \in Prefixes |-> loc_rib'[k]]
           /\ \A k \in Prefixes :
                IF k \in keys THEN loc_rib'[k] \in Decisions(adj, k)
                ELSE loc_rib'[k] = loc_rib[k]
  BY DEF RunDecisionProcess

\* The Loc-RIB stays the best of the Adj-RIBs-In when the decision process
\* is run for every prefix whose candidates change.
LEMMA LocRibStep ==
    ASSUME RibTypeOK, LocRibIsBest, adj_rib_in' \in [Peers -> AdjRibIn],
           NEW keys, RunDecisionProcess(adj_rib_in', keys),
           \A p \in Peers, k \in Prefixes :
              k \notin keys => adj_rib_in'[p][k] = adj_rib_in[p][k]
    PROVE  loc_rib' \in LocRib /\ LocRibIsBest'
  <1> DEFINE C(k) == Candidates(adj_rib_in', k)
  <1>1. \A k \in Prefixes : C(k) \subseteq Route
    BY DEF Candidates, AdjRibIn
  <1>2. ASSUME NEW k \in Prefixes
        PROVE  IF C(k) = {} THEN loc_rib'[k] = NoRoute
               ELSE /\ loc_rib'[k] \in Route
                    /\ \E r \in Best(C(k)) :
                         /\ Unmarked(loc_rib'[k]) = Unmarked(r)
                         /\ loc_rib'[k].stale => r.stale
    <2>1. CASE k \in keys
      <3>1. loc_rib'[k] \in Decisions(adj_rib_in', k)
        BY <2>1, DecisionsStored
      <3>2. C(k) # {} => loc_rib'[k] \in Best(C(k)) /\ loc_rib'[k] \in Route
        BY <1>1, <3>1 DEF Decisions, Best
      <3>3. C(k) = {} => loc_rib'[k] = NoRoute
        BY <3>1 DEF Decisions
      <3> HIDE DEF C
      <3> QED  BY <3>2, <3>3
    <2>2. CASE k \notin keys
      <3>1. C(k) = Candidates(adj_rib_in, k)
        BY <2>2 DEF Candidates
      <3>2. loc_rib'[k] = loc_rib[k]
        BY <2>2, DecisionsStored
      <3> QED  BY <3>1, <3>2 DEF LocRibIsBest
    <2> QED  BY <2>1, <2>2
  <1>3. loc_rib' \in LocRib
    <2>1. \A k \in Prefixes : loc_rib'[k] \in Route \cup {NoRoute}
      BY <1>2
    <2> QED  BY <2>1, DecisionsStored DEF LocRib
  <1> QED  BY <1>2, <1>3 DEF LocRibIsBest

\* What an UPDATE leaves in the Adj-RIB-In of its sender.
LEMMA UpdatedRoutesType ==
    ASSUME RibTypeOK, NEW p \in Peers, NEW as \in PeerASes,
           NEW attrs \in Attrs, NEW accepted, NEW withdrawn
    PROVE  UpdatedRoutes(p, as, accepted, attrs, withdrawn) \in AdjRibIn
  <1>1. now \in Nat
    BY DampeningAssumption DEF RibTypeOK
  <1>2. \A k \in Prefixes : NewRoute(attrs, p, as, now, Rov(k, as)) \in Route
    BY <1>1, NewRouteType
  <1> QED
    BY <1>2 DEF UpdatedRoutes, AdjRibIn, RibTypeOK

\* Rib::default, with all maps empty, satisfies the inductive invariant.
LEMMA RibInitInv == RibInit => RibInv
  <1> SUFFICES ASSUME RibInit PROVE RibInv
    OBVIOUS
  <1>1. RibTypeOK
    BY DampeningAssumption DEF RibInit, RibTypeOK, AdjRibIn, LocRib, History
  <1>2. LocRibIsBest
    BY DEF RibInit, LocRibIsBest, Candidates
  <1> QED
    BY <1>1, <1>2 DEF RibInit, RibInv, OwnRoutes, HistoryOK,
       SuppressedNotInstalled, IsSuppressed, NoInvalidInstalled

-----------------------------------------------------------------------------
(* One lemma per action: it preserves the inductive invariant. *)

\* process_update: a prefix is undecided only if it was accepted or withdrawn,
\* and a suppression starts only where the route is removed as well.
LEMMA ProcessUpdateInv ==
    ASSUME RibInv, NEW p \in Peers, NEW as \in PeerASes, NEW attrs \in Attrs,
           NEW nlri \in SUBSET Prefixes, NEW withdrawn \in SUBSET Prefixes,
           ProcessUpdate(p, as, nlri, attrs, withdrawn)
    PROVE  RibInv'
  <1> DEFINE new(k) == NewRoute(attrs, p, as, now, Rov(k, as))
  <1>0. \A k \in Prefixes : new(k).peer_addr = p /\ new(k).peer_as = as
    BY DEF NewRoute
  <1> DEFINE flapped  == RecordWithdrawals(dampening[p], withdrawn, now)
             hist     == CheckAdvertisements(flapped, nlri, now)
             accepted == Accepted(hist, as, nlri)
             routes   == UpdatedRoutes(p, as, accepted, attrs, withdrawn)
  <1>1. /\ PenaltiesBounded(flapped)
        /\ dampening' = [dampening EXCEPT ![p] = hist]
        /\ adj_rib_in' = [adj_rib_in EXCEPT ![p] = routes]
        /\ RunDecisionProcess(adj_rib_in', accepted \cup withdrawn)
        /\ now' = now
    BY DEF ProcessUpdate
  <1>2. /\ RibTypeOK
        /\ now \in 0..MaxTime
        /\ \A q \in Peers : HistOK(dampening[q], now)
    BY HistoryParts DEF RibInv, RibTypeOK
  <1>3. HistOK(flapped, now)
    BY <1>1, <1>2, RecordWithdrawalsOK
  <1>4. HistOK(hist, now)
    BY <1>2, <1>3, CheckAdvertisementsOK
  <1>5. routes \in AdjRibIn
    BY <1>2, UpdatedRoutesType
  <1>6. \A k \in Prefixes :
           routes[k] = IF k \in withdrawn THEN NoRoute
                       ELSE IF k \in accepted THEN new(k) ELSE adj_rib_in[p][k]
    BY DEF UpdatedRoutes
  <1>7. \A k \in Prefixes : k \notin withdrawn =>
           (IsSuppressed(hist, k) => IsSuppressed(dampening[p], k))
    <2> SUFFICES ASSUME NEW k \in Prefixes, k \notin withdrawn,
                        IsSuppressed(hist, k)
                 PROVE  IsSuppressed(dampening[p], k)
      OBVIOUS
    <2>1. flapped[k] = dampening[p][k]
      BY DEF RecordWithdrawals
    <2>2. hist[k] = IF k \in nlri /\ flapped[k] # NoEntry
                    THEN Checked(flapped[k], now) ELSE flapped[k]
      BY DEF CheckAdvertisements
    <2>3. flapped[k] # NoEntry => EntryOK(flapped[k], now)
      BY <1>3 DEF HistOK
    <2> HIDE DEF flapped, hist
    <2> QED  BY <1>2, <2>1, <2>2, <2>3, SuppressionStart DEF IsSuppressed
  <1>8. \A k \in accepted : ~IsSuppressed(hist, k) /\ ~ShouldReject(Mode, Rov(k, as))
    BY DEF Accepted
  <1> HIDE DEF flapped, hist, accepted, routes, new
  <1>9. adj_rib_in' \in [Peers -> AdjRibIn]
    BY <1>1, <1>2, <1>5 DEF RibTypeOK
  <1>10. \A q \in Peers, k \in Prefixes :
            k \notin accepted \cup withdrawn => adj_rib_in'[q][k] = adj_rib_in[q][k]
    BY <1>1, <1>2, <1>6 DEF RibTypeOK
  <1>11. loc_rib' \in LocRib /\ LocRibIsBest'
    BY <1>1, <1>2, <1>9, <1>10, LocRibStep DEF RibInv
  <1>12. /\ dampening' \in [Peers -> History]
         /\ \A q \in Peers : dampening'[q] = IF q = p THEN hist ELSE dampening[q]
    BY <1>1, <1>2, <1>4 DEF RibTypeOK, HistOK
  <1>13. RibTypeOK'
    BY <1>1, <1>2, <1>9, <1>11, <1>12 DEF RibTypeOK
  <1>14. HistoryOK'
    <2>1. \A q \in Peers : HistOK(dampening'[q], now')
      BY <1>1, <1>2, <1>4, <1>12
    <2> QED  BY <1>13, <2>1 DEF HistoryOK, HistOK, EntryOK
  <1>15. OwnRoutes'
    <2>1. \A q \in Peers : adj_rib_in'[q] = IF q = p THEN routes ELSE adj_rib_in[q]
      BY <1>1, <1>2 DEF RibTypeOK
    <2>2. \A k \in Prefixes : routes[k] # NoRoute => routes[k].peer_addr = p
      BY <1>0, <1>6 DEF RibInv, OwnRoutes
    <2> QED  BY <2>1, <2>2 DEF RibInv, OwnRoutes
  <1>16. SuppressedNotInstalled'
    <2> SUFFICES ASSUME NEW q \in Peers, NEW k \in Prefixes,
                        IsSuppressed(dampening'[q], k)
                 PROVE  adj_rib_in'[q][k] = NoRoute
      BY DEF SuppressedNotInstalled
    <2>1. CASE q # p
      BY <1>1, <1>2, <1>12, <2>1 DEF RibInv, SuppressedNotInstalled, RibTypeOK
    <2>2. CASE q = p
      <3>1. IsSuppressed(hist, k)
        BY <1>12, <2>2
      <3>2. k \notin withdrawn => adj_rib_in[p][k] = NoRoute
        BY <1>7, <3>1 DEF RibInv, SuppressedNotInstalled
      <3>3. routes[k] = NoRoute
        BY <1>6, <1>8, <3>1, <3>2
      <3> QED  BY <1>1, <1>2, <2>2, <3>3 DEF RibTypeOK
    <2> QED  BY <2>1, <2>2
  <1>17. NoInvalidInstalled'
    <2> SUFFICES ASSUME Mode = "Strict", NEW q \in Peers, NEW k \in Prefixes,
                        adj_rib_in'[q][k] # NoRoute
                 PROVE  Rov(k, adj_rib_in'[q][k].peer_as) # "Invalid"
      BY DEF NoInvalidInstalled, Rov
    <2>1. CASE q = p /\ k \in accepted /\ k \notin withdrawn
      <3>1. adj_rib_in'[q][k].peer_as = as
        <4>1. adj_rib_in'[q][k] = routes[k]
          BY <1>1, <1>2, <2>1 DEF RibTypeOK
        <4>2. routes[k] = new(k)
          BY <1>6, <2>1
        <4> QED  BY <1>0, <4>1, <4>2
      <3> QED  BY <1>8, <2>1, <3>1 DEF ShouldReject
    <2>2. CASE ~(q = p /\ k \in accepted /\ k \notin withdrawn)
      <3>1. adj_rib_in'[q][k] = adj_rib_in[q][k]
        BY <1>1, <1>2, <1>6, <2>2 DEF RibTypeOK
      <3> QED  BY <3>1 DEF RibInv, NoInvalidInstalled
    <2> QED  BY <2>1, <2>2
  <1> QED
    BY <1>11, <1>13, <1>14, <1>15, <1>16, <1>17 DEF RibInv

\* Removing routes of a peer, on its departure or when they are stale.
LEMMA RoutesRemovedInv ==
    ASSUME RibInv, NEW p \in Peers, NEW keys, keys \subseteq RoutesOf(p),
           adj_rib_in' = [adj_rib_in EXCEPT
                            ![p] = [k \in Prefixes |-> IF k \in keys THEN NoRoute
                                                       ELSE adj_rib_in[p][k]]],
           RunDecisionProcess(adj_rib_in', keys),
           \/ dampening' = dampening
           \/ dampening' = [dampening EXCEPT ![p] = [k \in Prefixes |-> NoEntry]],
           now' = now
    PROVE  RibInv'
  <1>1. \A q \in Peers, k \in Prefixes :
           adj_rib_in'[q][k] = IF q = p /\ k \in keys THEN NoRoute
                               ELSE adj_rib_in[q][k]
    BY DEF RibInv, RibTypeOK
  <1>2. adj_rib_in' \in [Peers -> AdjRibIn]
    BY DEF RibInv, RibTypeOK, AdjRibIn
  <1>3. loc_rib' \in LocRib /\ LocRibIsBest'
    BY <1>1, <1>2, LocRibStep DEF RibInv
  <1>4. dampening' \in [Peers -> History]
    BY DEF RibInv, RibTypeOK, History
  <1>5. \A q \in Peers, k \in Prefixes :
           dampening'[q][k] \in {dampening[q][k], NoEntry}
    BY DEF RibInv, RibTypeOK
  <1>6. RibTypeOK'
    BY <1>2, <1>3, <1>4 DEF RibInv, RibTypeOK
  <1>7. HistoryOK' /\ SuppressedNotInstalled'
    BY <1>1, <1>5 DEF RibInv, HistoryOK, SuppressedNotInstalled, IsSuppressed
  <1>8. OwnRoutes' /\ NoInvalidInstalled'
    BY <1>1 DEF RibInv, OwnRoutes, NoInvalidInstalled, Rov
  <1> QED
    BY <1>3, <1>6, <1>7, <1>8 DEF RibInv

\* remove_peer takes every route of the peer out and decides all of them anew.
LEMMA RemovePeerInv ==
    ASSUME RibInv, NEW p \in Peers, RemovePeer(p)
    PROVE  RibInv'
  <1>1. [k \in Prefixes |-> NoRoute]
          = [k \in Prefixes |-> IF k \in RoutesOf(p) THEN NoRoute
                                ELSE adj_rib_in[p][k]]
    BY DEF RoutesOf
  <1> QED
    BY <1>1, RoutesRemovedInv DEF RemovePeer

\* remove_stale_for_peer decides the prefixes of the purged routes anew.
LEMMA RemoveStaleForPeerInv ==
    ASSUME RibInv, NEW p \in Peers, RemoveStaleForPeer(p)
    PROVE  RibInv'
  <1>1. StaleRoutesOf(p) \subseteq RoutesOf(p)
    BY DEF StaleRoutesOf
  <1> QED
    BY <1>1, RoutesRemovedInv DEF RemoveStaleForPeer

\* mark_peer_stale changes marks only, which no comparison reads: the clones in
\* the Loc-RIB stay best routes up to the mark.
LEMMA MarkPeerStaleInv ==
    ASSUME RibInv, NEW p \in Peers, MarkPeerStale(p)
    PROVE  RibInv'
  <1> DEFINE mark(r) == [r EXCEPT !.stale = TRUE]
  <1>1. \A r \in Route : /\ mark(r) \in Route
                         /\ mark(r).stale
                         /\ Unmarked(mark(r)) = Unmarked(r)
                         /\ mark(r).peer_addr = r.peer_addr
                         /\ mark(r).peer_as = r.peer_as
    BY DEF Route, Unmarked
  <1>2. \A q \in Peers, k \in Prefixes :
           adj_rib_in'[q][k] = IF q = p /\ adj_rib_in[q][k] # NoRoute
                               THEN mark(adj_rib_in[q][k]) ELSE adj_rib_in[q][k]
    <2>1. ASSUME NEW q \in Peers, q # p, NEW k \in Prefixes
          PROVE  adj_rib_in'[q][k] = adj_rib_in[q][k]
      BY <2>1 DEF MarkPeerStale, RibInv, RibTypeOK
    <2>2. ASSUME NEW k \in Prefixes
          PROVE  adj_rib_in'[p][k] = IF adj_rib_in[p][k] # NoRoute
                                     THEN mark(adj_rib_in[p][k]) ELSE NoRoute
      BY DEF MarkPeerStale, RoutesOf, RibInv, RibTypeOK
    <2> QED  BY <2>1, <2>2
  <1>3. \A q \in Peers, k \in Prefixes : adj_rib_in[q][k] \in Route \cup {NoRoute}
    BY DEF RibInv, RibTypeOK, AdjRibIn
  <1>4. \A q \in Peers, k \in Prefixes :
           adj_rib_in[q][k] # NoRoute =>
              /\ adj_rib_in'[q][k] \in Route
              /\ adj_rib_in'[q][k] # NoRoute
              /\ adj_rib_in[q][k].stale => adj_rib_in'[q][k].stale
              /\ Unmarked(adj_rib_in'[q][k]) = Unmarked(adj_rib_in[q][k])
              /\ adj_rib_in'[q][k].peer_addr = adj_rib_in[q][k].peer_addr
              /\ adj_rib_in'[q][k].peer_as = adj_rib_in[q][k].peer_as
    <2> HIDE DEF mark
    <2> QED  BY <1>1, <1>2, <1>3, RibAssumption
  <1>5. \A q \in Peers, k \in Prefixes :
           adj_rib_in[q][k] = NoRoute => adj_rib_in'[q][k] = NoRoute
    BY <1>2
  <1>6. loc_rib' = loc_rib /\ dampening' = dampening /\ now' = now
    BY DEF MarkPeerStale
  <1>7. adj_rib_in' \in [Peers -> AdjRibIn]
    <2>1. adj_rib_in' = [q \in Peers |-> adj_rib_in'[q]]
      BY DEF MarkPeerStale, RibInv, RibTypeOK
    <2>2. \A q \in Peers : adj_rib_in'[q] = [k \in Prefixes |-> adj_rib_in'[q][k]]
      BY DEF MarkPeerStale, RibInv, RibTypeOK, AdjRibIn
    <2>3. \A q \in Peers, k \in Prefixes : adj_rib_in'[q][k] \in Route \cup {NoRoute}
      BY <1>4, <1>5
    <2> QED  BY <2>1, <2>2, <2>3 DEF AdjRibIn
  <1>8. LocRibIsBest'
    <2> SUFFICES ASSUME NEW k \in Prefixes
                 PROVE  IF Candidates(adj_rib_in', k) = {}
                        THEN loc_rib[k] = NoRoute
                        ELSE /\ loc_rib[k] \in Route
                             /\ \E r \in Best(Candidates(adj_rib_in', k)) :
                                  /\ Unmarked(loc_rib[k]) = Unmarked(r)
                                  /\ loc_rib[k].stale => r.stale
      BY <1>6 DEF LocRibIsBest
    <2>1. Candidates(adj_rib_in', k) = {} <=> Candidates(adj_rib_in, k) = {}
      <3>1. \A q \in Peers : adj_rib_in'[q][k] = NoRoute <=> adj_rib_in[q][k] = NoRoute
        BY <1>4, <1>5
      <3> QED  BY <3>1 DEF Candidates
    <2>2. CASE Candidates(adj_rib_in, k) = {}
      BY <2>1, <2>2 DEF RibInv, LocRibIsBest
    <2>3. CASE Candidates(adj_rib_in, k) # {}
      <3>1. PICK r \in Best(Candidates(adj_rib_in, k)) :
                   /\ Unmarked(loc_rib[k]) = Unmarked(r)
                   /\ loc_rib[k].stale => r.stale
        BY <2>3 DEF RibInv, LocRibIsBest
      <3>2. PICK q \in Peers : r = adj_rib_in[q][k] /\ r # NoRoute
        BY DEF Best, Candidates
      <3>3. ASSUME NEW s \in Candidates(adj_rib_in', k)
            PROVE  ~Preferred(s, adj_rib_in'[q][k])
        <4>1. PICK o \in Peers : s = adj_rib_in'[o][k] /\ adj_rib_in[o][k] # NoRoute
          BY <1>5 DEF Candidates
        <4>2. ~Preferred(adj_rib_in[o][k], r)
          BY <4>1 DEF Best, Candidates
        <4> QED
          BY <1>3, <1>4, <3>2, <4>1, <4>2, PreferredUnmarked
      <3>4. adj_rib_in'[q][k] \in Best(Candidates(adj_rib_in', k))
        BY <1>4, <3>2, <3>3 DEF Best, Candidates
      <3>5. /\ Unmarked(loc_rib[k]) = Unmarked(adj_rib_in'[q][k])
            /\ loc_rib[k].stale => adj_rib_in'[q][k].stale
        BY <1>4, <3>1, <3>2
      <3>6. loc_rib[k] \in Route
        BY <2>3 DEF RibInv, LocRibIsBest
      <3> QED  BY <2>1, <2>3, <3>4, <3>5, <3>6
    <2> QED  BY <2>2, <2>3
  <1>9. RibTypeOK' /\ HistoryOK'
    BY <1>6, <1>7 DEF RibInv, RibTypeOK, HistoryOK
  <1>10. OwnRoutes' /\ NoInvalidInstalled'
    BY <1>4, <1>5 DEF RibInv, OwnRoutes, NoInvalidInstalled, Rov
  <1>11. SuppressedNotInstalled'
    BY <1>5, <1>6 DEF RibInv, SuppressedNotInstalled, IsSuppressed
  <1> QED
    BY <1>8, <1>9, <1>10, <1>11 DEF RibInv

\* Time passing changes no map.
LEMMA TickInv == RibInv /\ Tick => RibInv'
  <1> SUFFICES ASSUME RibInv, Tick PROVE RibInv'
    OBVIOUS
  <1>1. /\ now' \in 0..MaxTime
        /\ \A q \in Peers, k \in Prefixes :
             dampening[q][k] # NoEntry => dampening[q][k].last_decay <= now'
    BY DampeningAssumption
    DEF Tick, RibInv, RibTypeOK, HistoryOK, History, PrefixDampening
  <1>2. RibTypeOK' /\ HistoryOK'
    BY <1>1 DEF Tick, RibInv, RibTypeOK, HistoryOK
  <1>3. LocRibIsBest' /\ OwnRoutes' /\ SuppressedNotInstalled' /\ NoInvalidInstalled'
    BY DEF Tick, RibInv, LocRibIsBest, OwnRoutes, SuppressedNotInstalled,
       IsSuppressed, NoInvalidInstalled, Rov
  <1> QED
    BY <1>2, <1>3 DEF RibInv

\* The invariant depends on nothing but the variables of the RIB.
LEMMA RibStutterInv == RibInv /\ UNCHANGED ribVars => RibInv'
  BY DEF ribVars, RibInv, RibTypeOK, HistoryOK, LocRibIsBest, OwnRoutes,
     SuppressedNotInstalled, IsSuppressed, NoInvalidInstalled, Rov

\* Every method of the RIB preserves the inductive invariant.
LEMMA RibNextInv == RibInv /\ [RibNext]_ribVars => RibInv'
  <1> SUFFICES ASSUME RibInv, [RibNext]_ribVars PROVE RibInv'
    OBVIOUS
  <1>1. ASSUME NEW p \in Peers, NEW as \in PeerASes, NEW attrs \in Attrs,
               NEW nlri \in SUBSET Prefixes, NEW withdrawn \in SUBSET Prefixes,
               ProcessUpdate(p, as, nlri, attrs, withdrawn)
        PROVE  RibInv'
    BY <1>1, ProcessUpdateInv
  <1>2. ASSUME NEW p \in Peers, RemovePeer(p) PROVE RibInv'
    BY <1>2, RemovePeerInv
  <1>3. ASSUME NEW p \in Peers, MarkPeerStale(p) PROVE RibInv'
    BY <1>3, MarkPeerStaleInv
  <1>4. ASSUME NEW p \in Peers, RemoveStaleForPeer(p) PROVE RibInv'
    BY <1>4, RemoveStaleForPeerInv
  <1>5. CASE Tick
    BY <1>5, TickInv
  <1>6. CASE UNCHANGED ribVars
    BY <1>6, RibStutterInv
  <1> QED
    BY <1>1, <1>2, <1>3, <1>4, <1>5, <1>6 DEF RibNext

\* The inductive invariant holds in every state that the methods of the RIB
\* reach, whatever their order and arguments.
THEOREM RibInvariant == RibSpec => []RibInv
  BY RibInitInv, RibNextInv, PTL DEF RibSpec

-----------------------------------------------------------------------------
(* Theorems *)

\* The maps of the RIB and its clock are always well typed, for any peers,
\* prefixes, attributes and dampening configuration.
THEOREM RibTypeCorrect == RibSpec => []RibTypeOK
  <1>1. RibInv => RibTypeOK
    BY DEF RibInv
  <1> QED  BY <1>1, RibInvariant, PTL

\* The Loc-RIB always holds a best route of the Adj-RIBs-In: process_update,
\* remove_peer and remove_stale_for_peer rerun the decision process for every
\* prefix whose candidates they change.
THEOREM LocRibCorrect == RibSpec => []LocRibIsBest
  <1>1. RibInv => LocRibIsBest
    BY DEF RibInv
  <1> QED  BY <1>1, RibInvariant, PTL

\* A suppressed prefix is never installed from the peer that made it flap,
\* so the skipped advertisement in process_update replaces nothing.
THEOREM SuppressionEnforced == RibSpec => []SuppressedNotInstalled
  <1>1. RibInv => SuppressedNotInstalled
    BY DEF RibInv
  <1> QED  BY <1>1, RibInvariant, PTL

\* In strict RPKI mode no contradicted route is ever selected.
THEOREM StrictModeEnforced == RibSpec => []NoInvalidSelected
  <1>1. RibInv => NoInvalidSelected
    <2> SUFFICES ASSUME RibInv, Mode = "Strict", NEW k \in Prefixes,
                        loc_rib[k] # NoRoute
                 PROVE  Rov(k, loc_rib[k].peer_as) # "Invalid"
      BY DEF NoInvalidSelected
    <2>1. loc_rib[k] \in Route
      BY DEF RibInv, LocRibIsBest
    <2>2. PICK p \in Peers : /\ adj_rib_in[p][k] # NoRoute
                             /\ Unmarked(loc_rib[k]) = Unmarked(adj_rib_in[p][k])
      BY DEF RibInv, LocRibIsBest, Best, Candidates
    <2>3. adj_rib_in[p][k] \in Route
      BY <2>2 DEF RibInv, RibTypeOK, AdjRibIn
    <2>4. loc_rib[k].peer_as = adj_rib_in[p][k].peer_as
      BY <2>1, <2>2, <2>3 DEF Unmarked, Route
    <2> QED
      BY <2>2, <2>4 DEF RibInv, NoInvalidInstalled
  <1> QED  BY <1>1, RibInvariant, PTL

\* Third parties never move the best path.  The argument needs no case split
\* on the actions: it compares the best routes before and after the step.
THEOREM BestPathStability == RibSpec => BestPathStable
  <1> DEFINE Stable ==
        \A k \in Prefixes :
          LET old == loc_rib[k]
              new == loc_rib'[k]
          IN  (/\ old # NoRoute
               /\ \E r \in Candidates(adj_rib_in', k) : Unmarked(r) = Unmarked(old)
               /\ Unmarked(new) # Unmarked(old))
              => /\ ~Preferred(old, new)
                 /\ \/ adj_rib_in'[new.peer_addr][k] # adj_rib_in[new.peer_addr][k]
                    \/ ~Preferred(new, old)
  <1>1. RibInv /\ RibInv' => Stable
    <2> SUFFICES ASSUME RibInv, RibInv', NEW k \in Prefixes, loc_rib[k] # NoRoute,
                        NEW r \in Candidates(adj_rib_in', k),
                        Unmarked(r) = Unmarked(loc_rib[k])
                 PROVE  /\ ~Preferred(loc_rib[k], loc_rib'[k])
                        /\ \/ adj_rib_in'[loc_rib'[k].peer_addr][k]
                                # adj_rib_in[loc_rib'[k].peer_addr][k]
                           \/ ~Preferred(loc_rib'[k], loc_rib[k])
      OBVIOUS
    <2>1. /\ Candidates(adj_rib_in, k) \subseteq Route
          /\ Candidates(adj_rib_in', k) \subseteq Route
      BY DEF RibInv, RibTypeOK, AdjRibIn, Candidates
    <2>2. PICK b \in Best(Candidates(adj_rib_in, k)) :
                 Unmarked(loc_rib[k]) = Unmarked(b)
      BY DEF RibInv, LocRibIsBest
    <2>3. PICK n \in Best(Candidates(adj_rib_in', k)) :
                 Unmarked(loc_rib'[k]) = Unmarked(n)
      BY DEF RibInv, LocRibIsBest
    <2>4. /\ loc_rib[k] \in Route /\ b \in Route
          /\ loc_rib'[k] \in Route /\ n \in Route
          /\ r \in Route
      BY <2>1 DEF RibInv, LocRibIsBest, Best
    <2>5. ~Preferred(r, n)
      BY DEF Best
    <2>6. ~Preferred(loc_rib[k], loc_rib'[k])
      BY <2>3, <2>4, <2>5, PreferredUnmarked
    <2>7. ASSUME adj_rib_in'[loc_rib'[k].peer_addr][k]
                   = adj_rib_in[loc_rib'[k].peer_addr][k]
          PROVE  ~Preferred(loc_rib'[k], loc_rib[k])
      <3>1. PICK q \in Peers : n = adj_rib_in'[q][k] /\ n # NoRoute
        BY DEF Best, Candidates
      <3>2. n.peer_addr = q
        BY <3>1 DEF RibInv, OwnRoutes
      <3>3. loc_rib'[k].peer_addr = q
        BY <2>3, <2>4, <3>2 DEF Unmarked, Route
      <3>4. n \in Candidates(adj_rib_in, k)
        BY <2>7, <3>1, <3>3 DEF Candidates
      <3>5. ~Preferred(n, b)
        BY <3>4 DEF Best
      <3> QED  BY <2>2, <2>3, <2>4, <3>5, PreferredUnmarked
    <2> QED  BY <2>6, <2>7
  <1> QED
    BY <1>1, RibInvariant, PTL DEF BestPathStable, ribVars

\* A suppression keeps its start until it is over, however often the prefix
\* flaps meanwhile, so max_suppress_time counts from the first suppression.
THEOREM SuppressionStartKept == RibSpec => SuppressionNotExtended
  <1> DEFINE Kept(p, k) ==
        IsSuppressed(dampening[p], k) /\ IsSuppressed(dampening'[p], k)
          => dampening'[p][k].suppressed_at = dampening[p][k].suppressed_at
             AllKept == \A p \in Peers, k \in Prefixes :
           IsSuppressed(dampening[p], k) /\ IsSuppressed(dampening'[p], k)
             => dampening'[p][k].suppressed_at = dampening[p][k].suppressed_at
  <1>1. ASSUME RibInv, NEW p \in Peers, NEW as \in PeerASes, NEW attrs \in Attrs,
               NEW nlri \in SUBSET Prefixes, NEW withdrawn \in SUBSET Prefixes,
               ProcessUpdate(p, as, nlri, attrs, withdrawn),
               NEW q \in Peers, NEW k \in Prefixes
        PROVE  Kept(q, k)
    <2> DEFINE e       == dampening[p][k]
               flapped == RecordWithdrawals(dampening[p], withdrawn, now)
               hist    == CheckAdvertisements(flapped, nlri, now)
    <2>1. /\ PenaltiesBounded(flapped)
          /\ dampening' = [dampening EXCEPT ![p] = hist]
      BY <1>1 DEF ProcessUpdate
    <2>2. /\ dampening \in [Peers -> History] /\ now \in 0..MaxTime
          /\ HistOK(dampening[p], now)
      BY <1>1, HistoryParts DEF RibInv, RibTypeOK
    <2>3. HistOK(flapped, now)
      BY <2>1, <2>2, RecordWithdrawalsOK
    <2>4. CASE q # p
      BY <2>1, <2>2, <2>4
    <2>5. CASE q = p
      <3> SUFFICES ASSUME IsSuppressed(dampening[p], k), IsSuppressed(hist, k)
                   PROVE  hist[k].suppressed_at = e.suppressed_at
        BY <2>1, <2>2, <2>5
      <3>1. e # NoEntry /\ e.suppressed /\ EntryOK(e, now)
        BY <2>2 DEF IsSuppressed, HistOK
      <3>2. flapped[k] = IF k \in withdrawn THEN Flapped(e, now) ELSE e
        BY <3>1 DEF RecordWithdrawals
      <3>3. hist[k] = IF k \in nlri /\ flapped[k] # NoEntry
                      THEN Checked(flapped[k], now) ELSE flapped[k]
        BY DEF CheckAdvertisements
      <3>4. hist[k] # NoEntry /\ hist[k].suppressed
        BY DEF IsSuppressed
      <3>5. flapped[k] # NoEntry
        BY <3>3, <3>4
      <3>6. EntryOK(flapped[k], now)
        BY <2>3, <3>5 DEF HistOK
      <3> HIDE DEF e, flapped, hist
      <3>7. flapped[k].suppressed_at = e.suppressed_at
        BY <2>2, <3>1, <3>2, SuppressionStart
      <3>8. hist[k].suppressed_at = flapped[k].suppressed_at
        BY <2>2, <3>3, <3>4, <3>5, <3>6, SuppressionStart
      <3> QED  BY <3>7, <3>8
    <2> QED  BY <2>4, <2>5
  <1>2. ASSUME RibInv, NEW p \in Peers, RemovePeer(p), NEW q \in Peers, NEW k \in Prefixes
        PROVE  Kept(q, k)
    BY <1>2 DEF RemovePeer, IsSuppressed, RibInv, RibTypeOK
  <1>3. ASSUME UNCHANGED dampening, NEW q \in Peers, NEW k \in Prefixes
        PROVE  Kept(q, k)
    BY <1>3
  <1>4. RibInv /\ [RibNext]_ribVars => AllKept
    <2> SUFFICES ASSUME RibInv, [RibNext]_ribVars, NEW q \in Peers, NEW k \in Prefixes
                 PROVE  Kept(q, k)
      OBVIOUS
    <2>1. \/ \E p \in Peers, as \in PeerASes, attrs \in Attrs,
                nlri \in SUBSET Prefixes, withdrawn \in SUBSET Prefixes :
               ProcessUpdate(p, as, nlri, attrs, withdrawn)
          \/ \E p \in Peers : RemovePeer(p)
          \/ UNCHANGED dampening
      BY DEF RibNext, MarkPeerStale, RemoveStaleForPeer, Tick, ribVars
    <2> HIDE DEF Kept
    <2> QED  BY <1>1, <1>2, <1>3, <2>1
  <1> QED
    BY <1>4, RibInvariant, PTL DEF RibSpec, SuppressionNotExtended, ribVars

\* An advertisement lifts a suppression that is max_suppress_time old.
LEMMA CheckedCapped ==
    ASSUME NEW t \in 0..MaxTime, NEW e, EntryOK(e, t), e.suppressed,
           t - e.suppressed_at >= MaxSuppressTime
    PROVE  ~Checked(e, t).suppressed
  <1> DEFINE d == Decayed(e, t)
  <1>1. d \in PrefixDampening /\ d.suppressed_at = e.suppressed_at
    BY DecayedOK DEF EntryOK, PrefixDampening, Decayed
  <1>2. SuppressionOver(d, t)
    BY <1>1 DEF EntryOK, SuppressionOver
  <1> HIDE DEF d
  <1>3. Checked(e, t) = [d EXCEPT !.suppressed = FALSE, !.suppressed_at = None]
    BY <1>2 DEF Checked, d
  <1> QED  BY <1>1, <1>3 DEF PrefixDampening

\* No suppression outlives max_suppress_time: an advertisement so long after its
\* start is installed, however often the prefix flapped since.
THEOREM SuppressionCap == RibSpec => SuppressionCapped
  <1> DEFINE Due(p, k) == /\ IsSuppressed(dampening[p], k)
                          /\ now - dampening[p][k].suppressed_at >= MaxSuppressTime
             AllCapped == \A p \in Peers, k \in Prefixes :
               (/\ IsSuppressed(dampening[p], k)
                /\ now - dampening[p][k].suppressed_at >= MaxSuppressTime)
               => \A as \in PeerASes, attrs \in Attrs,
                     nlri \in SUBSET Prefixes, withdrawn \in SUBSET Prefixes :
                    (/\ ProcessUpdate(p, as, nlri, attrs, withdrawn)
                     /\ k \in nlri \ withdrawn
                     /\ ~ShouldReject(Mode, Rov(k, as)))
                    => adj_rib_in'[p][k] # NoRoute
  <1>1. ASSUME RibInv, NEW p \in Peers, NEW k \in Prefixes, Due(p, k),
               NEW as \in PeerASes, NEW attrs \in Attrs,
               NEW nlri \in SUBSET Prefixes, NEW withdrawn \in SUBSET Prefixes,
               ProcessUpdate(p, as, nlri, attrs, withdrawn),
               k \in nlri \ withdrawn, ~ShouldReject(Mode, Rov(k, as))
        PROVE  adj_rib_in'[p][k] # NoRoute
    <2> DEFINE e        == dampening[p][k]
               flapped  == RecordWithdrawals(dampening[p], withdrawn, now)
               hist     == CheckAdvertisements(flapped, nlri, now)
               accepted == Accepted(hist, as, nlri)
               routes   == UpdatedRoutes(p, as, accepted, attrs, withdrawn)
               new      == NewRoute(attrs, p, as, now, Rov(k, as))
    <2>1. /\ adj_rib_in \in [Peers -> AdjRibIn]
          /\ now \in 0..MaxTime
          /\ HistOK(dampening[p], now)
      BY <1>1, HistoryParts DEF RibInv, RibTypeOK
    <2>2. e # NoEntry /\ e.suppressed /\ EntryOK(e, now)
      BY <1>1, <2>1 DEF IsSuppressed, HistOK
    <2>3. flapped[k] = e
      BY <1>1 DEF RecordWithdrawals
    <2>4. hist[k] = Checked(e, now)
      BY <1>1, <2>2, <2>3 DEF CheckAdvertisements
    <2>5. ~Checked(e, now).suppressed
      BY <1>1, <2>1, <2>2, CheckedCapped
    <2>6. k \in accepted
      BY <1>1, <2>4, <2>5 DEF Accepted, IsSuppressed
    <2>7. routes[k] = new
      BY <1>1, <2>6 DEF UpdatedRoutes
    <2>8. new # NoRoute
      <3>1. now \in Nat
        BY <2>1, DampeningAssumption
      <3>2. new \in Route
        BY <3>1, NewRouteType
      <3> HIDE DEF new
      <3> QED  BY <3>2, RibAssumption
    <2>9. adj_rib_in' = [adj_rib_in EXCEPT ![p] = routes]
      BY <1>1 DEF ProcessUpdate
    <2> HIDE DEF routes, new
    <2> QED  BY <2>1, <2>7, <2>8, <2>9
  <1>2. RibInv => AllCapped
    BY <1>1
  <1> QED
    BY <1>2, RibInvariant, PTL DEF RibSpec, SuppressionCapped

-----------------------------------------------------------------------------
(* Lookups *)

\* The filter of longest_match, with its special case for the default route,
\* asks whether the address lies in the block of the key.
LEMMA KeyCoversBlock ==
    ASSUME NEW k \in PrefixKey, NEW addr \in Address
    PROVE  KeyCovers(k, addr) <=> addr \in Block(k.address, k.prefix_len)
  <1> DEFINE d == 2^(Width - k.prefix_len)
             a == k.address
  <1>1. /\ k.prefix_len \in 0..Width /\ a \in Address /\ Width \in Nat
        /\ Width - k.prefix_len \in Nat
    BY WidthAssumption DEF PrefixKey
  <1>2. addr \in Block(a, k.prefix_len) <=> addr \div d = a \div d
    BY DEF Block
  <1>3. k.prefix_len = 0 => addr \div d = a \div d
    <2> SUFFICES ASSUME k.prefix_len = 0 PROVE addr \div d = 0 /\ a \div d = 0
      OBVIOUS
    <2>1. d = 2^Width /\ d \in Nat /\ d >= 1
      BY <1>1, PowerPositive
    <2>2. addr \in Nat /\ a \in Nat /\ addr < d /\ a < d
      BY <1>1, <2>1 DEF Address
    <2> HIDE DEF d, a
    <2>3. /\ d * 0 <= addr /\ addr < d * 0 + d
          /\ d * 0 <= a /\ a < d * 0 + d
      BY <2>1, <2>2
    <2> QED  BY <2>1, <2>2, <2>3, DivUnique
  <1> QED  BY <1>2, <1>3 DEF KeyCovers

\* Of two blocks around an address the one with the longer prefix is within
\* the other.
LEMMA BlocksAround ==
    ASSUME NEW k \in PrefixKey, NEW j \in PrefixKey, NEW addr \in Address,
           addr \in Block(k.address, k.prefix_len), addr \in Block(j.address, j.prefix_len)
    PROVE  Block(k.address, k.prefix_len) \subseteq Block(j.address, j.prefix_len)
             <=> j.prefix_len <= k.prefix_len
  <1>1. /\ k.prefix_len \in 0..Width /\ j.prefix_len \in 0..Width /\ Width \in Nat
        /\ addr \in 0..(2^Width - 1)
    BY WidthAssumption DEF PrefixKey, Address
  <1>2. /\ Block(k.address, k.prefix_len) = Sharing(Width, addr, k.prefix_len)
        /\ Block(j.address, j.prefix_len) = Sharing(Width, addr, j.prefix_len)
    BY DEF Block, Sharing, Address
  <1> QED  BY <1>1, <1>2, SharingContained

\* longest_match returns the most specific installed prefix around an address,
\* in every state of the RIB.
THEOREM RibLookupMostSpecific == RibSpec => []LookupMostSpecific
  <1>1. LookupMostSpecific
    <2> DEFINE block(k) == Block(k.address, k.prefix_len)
               Around(addr) == {k \in Prefixes : loc_rib[k] # NoRoute /\ addr \in block(k)}
    <2> SUFFICES ASSUME NEW addr \in Address
                 PROVE  LongestMatch(addr) =
                          {k \in Around(addr) : \A j \in Around(addr) : block(k) \subseteq block(j)}
      BY DEF LookupMostSpecific
    <2>1. Prefixes \subseteq PrefixKey
      BY RibAssumption
    <2>2. {k \in Prefixes : loc_rib[k] # NoRoute /\ KeyCovers(k, addr)} = Around(addr)
      BY <2>1, KeyCoversBlock
    <2>3. \A k, j \in Around(addr) : block(k) \subseteq block(j) <=> j.prefix_len <= k.prefix_len
      BY <2>1, BlocksAround
    <2>4. LongestMatch(addr) =
            {k \in Around(addr) : \A j \in Around(addr) : j.prefix_len <= k.prefix_len}
      <3> HIDE DEF Around
      <3> QED  BY <2>2 DEF LongestMatch
    <2> HIDE DEF Around, block
    <2> QED  BY <2>3, <2>4
  <1> QED  BY <1>1, PTL

-----------------------------------------------------------------------------
(* The daemon *)

\* Peer::transition leads from states to states.
LEMMA TransitionType ==
    ASSUME NEW state \in BgpState, NEW event
    PROVE  Transition(state, event) \in BgpState
  BY DEF Transition, BgpState

\* The number of routes that summary reports is a number.
LEMMA LocRibSizeType ==
    ASSUME NEW loc
    PROVE  LocRibSize(loc) \in Nat
  <1> DEFINE used == {k \in Prefixes : loc[k] # NoRoute}
  <1>1. IsFiniteSet(used)
    BY DaemonAssumption, FS_Subset
  <1>2. Cardinality(used) \in Nat
    BY <1>1, FS_CardinalityType
  <1> QED  BY <1>2 DEF LocRibSize

-----------------------------------------------------------------------------
(* Type correctness *)

\* What every action but Accept does to the connections: one of them, which
\* runs, changes and keeps its address.
ConnStep(c) ==
    \E r \in Connection :
        /\ Running(c)
        /\ r.addr = conn[c].addr
        /\ conn' = [conn EXCEPT ![c] = r]

\* A session step that writes a well-formed record for its own connection keeps
\* all connections well formed.
LEMMA ConnStepType ==
    ASSUME conn \in [Conns -> Connection],
           \A d \in Conns : Running(d) => conn[d].addr \in Peers,
           NEW c \in Conns, ConnStep(c)
    PROVE  /\ conn' \in [Conns -> Connection]
           /\ \A d \in Conns : Running(d)' => conn'[d].addr \in Peers
  BY DEF ConnStep, Running

\* The connection half of each action.
LEMMA ConnSteps ==
    ASSUME DaemonTypeOK, NEW c \in Conns
    PROVE  /\ \A as \in PeerASes, gr \in BOOLEAN, hold \in BOOLEAN :
                RecvOpen(c, as, gr, hold) => ConnStep(c)
           /\ RecvKeepalive(c) => ConnStep(c)
           /\ \A nlri \in SUBSET Prefixes, attrs \in Attrs,
                 withdrawn \in SUBSET Prefixes :
                RecvUpdate(c, nlri, attrs, withdrawn) => ConnStep(c)
           /\ RecvEndOfRib(c) => ConnStep(c)
           /\ RecvNotification(c) => ConnStep(c)
           /\ HoldExpires(c) => ConnStep(c)
           /\ Eof(c) => ConnStep(c)
           /\ SessionError(c) => ConnStep(c)
           /\ \A how \in {"closed", "reset"} : RemoteLeaves(c, how) => ConnStep(c)
  <1> DEFINE r == conn[c]
  <1>1. r \in Connection /\ conn \in [Conns -> Connection]
    BY DEF DaemonTypeOK
  <1>2. r.state \in BgpState /\ r.armed \in BOOLEAN /\ r.hold_on \in BOOLEAN
    BY <1>1 DEF Connection
  <1>3. Rearmed(c) \in BOOLEAN
    BY DEF Rearmed
  <1>4. \A e : Transition(r.state, e) \in BgpState
    BY <1>2, TransitionType
  <1>5. ASSUME NEW as \in PeerASes, NEW gr \in BOOLEAN, NEW hold \in BOOLEAN,
               RecvOpen(c, as, gr, hold)
        PROVE  ConnStep(c)
    <2> DEFINE h == LocalHoldOn /\ hold
               s == Transition(r.state, "BgpOpen")
               n == [r EXCEPT !.gr = gr, !.remote_as = as, !.hold_on = h,
                              !.armed = h, !.state = s]
    <2>1. conn' = [conn EXCEPT ![c] = n]
      BY <1>1, <1>5 DEF RecvOpen
    <2>2. h \in BOOLEAN /\ s \in BgpState
      BY <1>4
    <2>3. n \in Connection
      <3> HIDE DEF h, s
      <3> QED  BY <1>1, <2>2 DEF Connection
    <2>4. n.addr = r.addr
      BY <1>1 DEF Connection
    <2>5. Running(c)
      BY <1>5 DEF RecvOpen, Readable
    <2> HIDE DEF n
    <2> QED  BY <2>1, <2>3, <2>4, <2>5 DEF ConnStep
  <1>6. ASSUME NEW a \in BOOLEAN, NEW s \in BgpState, Running(c),
               conn' = [conn EXCEPT ![c].armed = a, ![c].state = s]
        PROVE  ConnStep(c)
    <2> DEFINE n == [r EXCEPT !.armed = a, !.state = s]
    <2>1. conn' = [conn EXCEPT ![c] = n] /\ n.addr = r.addr
      BY <1>1, <1>6 DEF Connection
    <2>2. n \in Connection
      BY <1>1 DEF Connection
    <2> HIDE DEF n
    <2> QED  BY <1>6, <2>1, <2>2 DEF ConnStep
  <1>7. ASSUME NEW ph \in {"unused", "running", "closed", "failed"},
               NEW s \in BgpState, Running(c),
               conn' = [conn EXCEPT ![c].phase = ph, ![c].state = s]
        PROVE  ConnStep(c)
    <2> DEFINE n == [r EXCEPT !.phase = ph, !.state = s]
    <2>1. conn' = [conn EXCEPT ![c] = n] /\ n.addr = r.addr
      BY <1>1, <1>7 DEF Connection
    <2>2. n \in Connection
      BY <1>1 DEF Connection
    <2> HIDE DEF n
    <2> QED  BY <1>7, <2>1, <2>2 DEF ConnStep
  <1>8. ASSUME NEW s \in BgpState, Running(c),
               conn' = [conn EXCEPT ![c].state = s]
        PROVE  ConnStep(c)
    <2> DEFINE n == [r EXCEPT !.state = s]
    <2>1. conn' = [conn EXCEPT ![c] = n] /\ n.addr = r.addr
      BY <1>1, <1>8 DEF Connection
    <2>2. n \in Connection
      BY <1>1 DEF Connection
    <2> HIDE DEF n
    <2> QED  BY <1>8, <2>1, <2>2 DEF ConnStep
  <1>9. ASSUME NEW how \in {"open", "closed", "reset"}, Running(c),
               conn' = [conn EXCEPT ![c].remote = how]
        PROVE  ConnStep(c)
    <2> DEFINE n == [r EXCEPT !.remote = how]
    <2>1. conn' = [conn EXCEPT ![c] = n] /\ n.addr = r.addr
      BY <1>1, <1>9 DEF Connection
    <2>2. n \in Connection
      BY <1>1 DEF Connection
    <2> HIDE DEF n
    <2> QED  BY <1>9, <2>1, <2>2 DEF ConnStep
  <1>10. RecvKeepalive(c) => ConnStep(c)
    <2> SUFFICES ASSUME RecvKeepalive(c) PROVE ConnStep(c)
      OBVIOUS
    <2>1. PICK s \in BgpState :
            conn' = [conn EXCEPT ![c].armed = Rearmed(c), ![c].state = s]
      BY <1>1, <1>2, <1>4 DEF RecvKeepalive
    <2>2. Running(c)
      BY DEF RecvKeepalive, Readable
    <2> QED  BY <1>3, <1>6, <2>1, <2>2
  <1>11. ASSUME NEW nlri \in SUBSET Prefixes, NEW attrs \in Attrs,
                NEW withdrawn \in SUBSET Prefixes,
                RecvUpdate(c, nlri, attrs, withdrawn)
         PROVE  ConnStep(c)
    <2> DEFINE s == Transition(r.state, "UpdateMsg")
    <2>1. /\ Running(c)
          /\ conn' = [conn EXCEPT ![c].armed = Rearmed(c), ![c].state = s]
      BY <1>1, <1>11 DEF RecvUpdate, Readable
    <2>2. s \in BgpState
      BY <1>4
    <2> HIDE DEF s
    <2> QED  BY <1>3, <1>6, <2>1, <2>2
  <1>12. RecvEndOfRib(c) => ConnStep(c)
    <2> SUFFICES ASSUME RecvEndOfRib(c) PROVE ConnStep(c)
      OBVIOUS
    <2> DEFINE s == Transition(r.state, "UpdateMsg")
    <2>1. /\ Running(c)
          /\ conn' = [conn EXCEPT ![c].armed = Rearmed(c), ![c].state = s]
      BY <1>1 DEF RecvEndOfRib, Readable
    <2>2. s \in BgpState
      BY <1>4
    <2> HIDE DEF s
    <2> QED  BY <1>3, <1>6, <2>1, <2>2
  <1>13. RecvNotification(c) => ConnStep(c)
    <2> SUFFICES ASSUME RecvNotification(c) PROVE ConnStep(c)
      OBVIOUS
    <2> DEFINE s == Transition(r.state, "NotifMsg")
    <2>1. Running(c) /\ conn' = [conn EXCEPT ![c].state = s]
      BY <1>1 DEF RecvNotification, Readable
    <2>2. s \in BgpState
      BY <1>4
    <2> HIDE DEF s
    <2> QED  BY <1>8, <2>1, <2>2
  <1>14. HoldExpires(c) \/ Eof(c) \/ SessionError(c) => ConnStep(c)
    <2> SUFFICES ASSUME HoldExpires(c) \/ Eof(c) \/ SessionError(c)
                 PROVE  ConnStep(c)
      OBVIOUS
    <2>1. PICK ph \in {"closed", "failed"}, s \in BgpState : Returned(c, ph, s)
      BY <1>2, <1>4 DEF HoldExpires, Eof, SessionError
    <2>2. Running(c)
      BY DEF HoldExpires, Eof, SessionError
    <2> QED  BY <1>7, <2>1, <2>2 DEF Returned
  <1>15. ASSUME NEW how \in {"closed", "reset"}, RemoteLeaves(c, how)
         PROVE  ConnStep(c)
    BY <1>9, <1>15 DEF RemoteLeaves, Readable
  <1> QED
    BY <1>5, <1>10, <1>11, <1>12, <1>13, <1>14, <1>15

\* A session step, that is any action of a connection but Accept.
SessionStep(c) ==
    \/ \E as \in PeerASes, gr \in BOOLEAN, hold \in BOOLEAN :
         RecvOpen(c, as, gr, hold)
    \/ RecvKeepalive(c)
    \/ \E nlri \in SUBSET Prefixes, attrs \in Attrs, withdrawn \in SUBSET Prefixes :
         RecvUpdate(c, nlri, attrs, withdrawn)
    \/ RecvEndOfRib(c)
    \/ RecvNotification(c)
    \/ HoldExpires(c)
    \/ Eof(c)
    \/ SessionError(c)
    \/ \E how \in {"closed", "reset"} : RemoteLeaves(c, how)

\* The steps of the daemon: an accept, a step of one session, or time.
LEMMA NextSteps ==
    Next <=> \/ \E c \in Conns, p \in Peers : Accept(c, p)
             \/ \E c \in Conns : SessionStep(c)
             \/ Elapse
  BY DEF Next, SessionStep

\* The metrics after a session step are well typed.
LEMMA MetricsType ==
    ASSUME metrics \in Metrics, NEW c, SessionStep(c)
    PROVE  metrics' \in Metrics
  <1> DEFINE size == LocRibSize(loc_rib')
  <1>1. size \in Nat
    BY LocRibSizeType
  <1>2. \/ metrics' = metrics
        \/ metrics' = [metrics EXCEPT !.sessions_established = @ + 1]
        \/ metrics' = [metrics EXCEPT !.routes_loc_rib = size]
        \/ metrics' = [metrics EXCEPT !.sessions_failed = @ + 1, !.sessions_active = 0]
        \/ metrics' = [metrics EXCEPT !.sessions_active = 0]
    BY DEF SessionStep, RecvOpen, RecvKeepalive, RecvUpdate, RecvEndOfRib,
       RecvNotification, HoldExpires, Eof, SessionError, RemoteLeaves
  <1>3. /\ metrics.sessions_established + 1 \in Nat
        /\ metrics.sessions_failed + 1 \in Nat
    BY DEF Metrics
  <1>4. /\ [metrics EXCEPT !.sessions_established = @ + 1] \in Metrics
        /\ [metrics EXCEPT !.routes_loc_rib = size] \in Metrics
        /\ [metrics EXCEPT !.sessions_active = 0] \in Metrics
    <2> HIDE DEF size
    <2> QED  BY <1>1, <1>3 DEF Metrics
  <1>5. [metrics EXCEPT !.sessions_failed = @ + 1, !.sessions_active = 0] \in Metrics
    BY <1>3 DEF Metrics
  <1> QED
    BY <1>2, <1>4, <1>5

\* A newly accepted connection is well formed and has its address.
LEMMA AcceptType ==
    ASSUME DaemonTypeOK, NEW c \in Conns, NEW p \in Peers, Accept(c, p)
    PROVE  DaemonTypeOK'
  <1> DEFINE n == [NoConnection EXCEPT
                     !.phase = "running", !.addr = p, !.state = IncomingState,
                     !.hold_on = LocalHoldOn, !.remote = "open"]
  <1>1. IncomingState \in BgpState
    BY TransitionType DEF IncomingState, BgpState
  <1>2. n \in Connection /\ n.addr = p
    BY <1>1, DaemonAssumption DEF NoConnection, Connection, BgpState
  <1>3. conn' = [conn EXCEPT ![c] = n]
    BY DEF Accept
  <1> HIDE DEF n
  <1>4. conn' \in [Conns -> Connection]
    BY <1>2, <1>3 DEF DaemonTypeOK
  <1>5. \A d \in Conns : Running(d)' => conn'[d].addr \in Peers
    BY <1>2, <1>3 DEF DaemonTypeOK, Running
  <1>6. metrics' \in Metrics
    <2>1. metrics.sessions_active + 1 \in Nat
      BY DEF DaemonTypeOK, Metrics
    <2> QED  BY <2>1 DEF Accept, DaemonTypeOK, Metrics
  <1> QED
    BY <1>4, <1>5, <1>6 DEF DaemonTypeOK

\* Connections and metrics are always well typed, however many connections
\* there are and in whatever order messages arrive on them.
THEOREM DaemonTypeCorrect == Spec => []DaemonTypeOK
  <1>1. Init => DaemonTypeOK
    BY DaemonAssumption
    DEF Init, DaemonTypeOK, NoConnection, Connection, Running, Metrics, BgpState
  <1>2. DaemonTypeOK /\ [Next]_vars => DaemonTypeOK'
    <2> SUFFICES ASSUME DaemonTypeOK, [Next]_vars PROVE DaemonTypeOK'
      OBVIOUS
    <2>1. ASSUME NEW c \in Conns, NEW p \in Peers, Accept(c, p)
          PROVE  DaemonTypeOK'
      BY <2>1, AcceptType
    <2>2. ASSUME NEW c \in Conns, SessionStep(c)
          PROVE  DaemonTypeOK'
      <3>1. ConnStep(c)
        BY <2>2, ConnSteps DEF SessionStep
      <3>2. /\ conn' \in [Conns -> Connection]
            /\ \A d \in Conns : Running(d)' => conn'[d].addr \in Peers
        BY <3>1, ConnStepType DEF DaemonTypeOK
      <3>3. metrics' \in Metrics
        BY <2>2, MetricsType DEF DaemonTypeOK
      <3> QED  BY <3>2, <3>3 DEF DaemonTypeOK
    <2>3. CASE Elapse \/ UNCHANGED vars
      BY <2>3 DEF Elapse, vars, DaemonTypeOK, Running
    <2> QED  BY <2>1, <2>2, <2>3, NextSteps
  <1> QED
    BY <1>1, <1>2, PTL DEF Spec

-----------------------------------------------------------------------------
(* What sessions do to the RIB *)

\* handle_disconnect is never called in Established.
LEMMA DisconnectNotEstablished ==
    ASSUME NEW state
    PROVE  /\ Transition(state, "HoldTimerExpired") # "Established"
           /\ Transition(state, "TcpConnectionFail") # "Established"
  BY DEF Transition

\* What a session step does to the RIB.
LEMMA SessionRibStep ==
    ASSUME DaemonTypeOK, NEW c \in Conns, SessionStep(c)
    PROVE  \/ UNCHANGED ribVars
           \/ \E nlri \in SUBSET Prefixes, attrs \in Attrs,
                 withdrawn \in SUBSET Prefixes :
                /\ ProcessUpdate(conn[c].addr, conn[c].remote_as, nlri, attrs, withdrawn)
                /\ RecvUpdate(c, nlri, attrs, withdrawn)
           \/ RemoveStaleForPeer(conn[c].addr) /\ RecvEndOfRib(c)
           \/ RemovePeer(conn[c].addr)
  BY DisconnectNotEstablished
  DEF SessionStep, RecvOpen, RecvKeepalive, RecvUpdate, RecvEndOfRib,
      RecvNotification, HoldExpires, Eof, SessionError, RemoteLeaves,
      HandleDisconnect

\* Every step of the daemon is a step of the RIB or leaves it alone.
LEMMA StepIsRibStep == DaemonTypeOK /\ [Next]_vars => [RibNext]_ribVars
  <1> SUFFICES ASSUME DaemonTypeOK, [Next]_vars PROVE [RibNext]_ribVars
    OBVIOUS
  <1>1. ASSUME NEW c \in Conns, SessionStep(c) PROVE [RibNext]_ribVars
    <2>1. Running(c) /\ conn[c].addr \in Peers /\ conn[c].remote_as \in PeerASes
      BY <1>1, ConnSteps DEF ConnStep, SessionStep, DaemonTypeOK, Connection
    <2> QED  BY <1>1, <2>1, SessionRibStep DEF RibNext
  <1>2. ASSUME NEW c \in Conns, NEW p \in Peers, Accept(c, p) PROVE [RibNext]_ribVars
    BY <1>2 DEF Accept
  <1>3. CASE Elapse
    BY <1>3 DEF Elapse, RibNext
  <1>4. CASE UNCHANGED vars
    BY <1>4 DEF vars, ribVars
  <1> QED  BY <1>1, <1>2, <1>3, <1>4, NextSteps

\* The behaviour of the RIB in the daemon is one of the RIB alone: this carries
\* the theorems about the RIB over to the daemon.
LEMMA DaemonIsRib == Spec => RibSpec
  <1>1. Init => RibInit
    BY DEF Init
  <1> QED
    BY <1>1, StepIsRibStep, DaemonTypeCorrect, PTL DEF Spec, RibSpec

\* What is proved of the RIB above holds in the daemon; in particular the
\* Loc-RIB is the best of what the peers advertise after every step of every
\* session.
THEOREM DaemonLocRibCorrect == Spec => []LocRibIsBest
  BY DaemonIsRib, LocRibCorrect

-----------------------------------------------------------------------------
(* Routes and the sessions they belong to *)

\* The routes of an address only grow by an UPDATE of a session that runs on
\* it, and a new route is not stale.
OnlyAdds(p) ==
    \A q \in Peers, k \in Prefixes :
        \/ adj_rib_in'[q][k] \in {adj_rib_in[q][k], NoRoute}
        \/ q = p /\ ~adj_rib_in'[q][k].stale

\* process_update files new routes under its sender only, and unmarked.
LEMMA UpdateOnlyAdds ==
    ASSUME RibTypeOK, NEW p \in Peers, NEW as, NEW nlri, NEW attrs, NEW withdrawn,
           ProcessUpdate(p, as, nlri, attrs, withdrawn)
    PROVE  OnlyAdds(p)
  <1> DEFINE new(k) == NewRoute(attrs, p, as, now, Rov(k, as))
  <1>1. \A k \in Prefixes : ~new(k).stale
    BY DEF NewRoute
  <1>2. PICK accepted :
          adj_rib_in' = [adj_rib_in EXCEPT
                           ![p] = UpdatedRoutes(p, as, accepted, attrs, withdrawn)]
    BY DEF ProcessUpdate
  <1>3. \A k \in Prefixes :
          UpdatedRoutes(p, as, accepted, attrs, withdrawn)[k]
            \in {NoRoute, new(k), adj_rib_in[p][k]}
    BY DEF UpdatedRoutes
  <1>4. \A q \in Peers : adj_rib_in'[q] =
           IF q = p THEN UpdatedRoutes(p, as, accepted, attrs, withdrawn)
           ELSE adj_rib_in[q]
    BY <1>2 DEF RibTypeOK
  <1> HIDE DEF new
  <1> QED  BY <1>1, <1>3, <1>4 DEF OnlyAdds

\* Removals add nothing.
LEMMA RemovalsOnlyRemove ==
    ASSUME RibTypeOK, NEW p \in Peers, RemovePeer(p) \/ RemoveStaleForPeer(p)
    PROVE  /\ \A q \in Peers, k \in Prefixes :
                adj_rib_in'[q][k] \in {adj_rib_in[q][k], NoRoute}
           /\ RemovePeer(p) => \A k \in Prefixes : adj_rib_in'[p][k] = NoRoute
  BY DEF RibTypeOK, RemovePeer, RemoveStaleForPeer

\* Whose dampening history a RIB step may touch, and that remove_peer clears it.
LEMMA HistoryTouched ==
    ASSUME RibTypeOK, NEW p \in Peers,
           \/ RemovePeer(p) \/ RemoveStaleForPeer(p)
           \/ \E as, nlri, attrs, withdrawn :
                ProcessUpdate(p, as, nlri, attrs, withdrawn)
    PROVE  /\ \A q \in Peers \ {p} : dampening'[q] = dampening[q]
           /\ RemovePeer(p) => \A k \in Prefixes : dampening'[p][k] = NoEntry
  <1>1. dampening \in [Peers -> History]
    BY DEF RibTypeOK
  <1>2. CASE RemovePeer(p)
    BY <1>1, <1>2 DEF RemovePeer
  <1>3. CASE ~RemovePeer(p)
    <2>1. \E hist : dampening' = [dampening EXCEPT ![p] = hist]
      <3>1. CASE RemoveStaleForPeer(p)
        <4>1. dampening' = [dampening EXCEPT ![p] = dampening[p]]
          BY <1>1, <3>1 DEF RemoveStaleForPeer
        <4> QED  BY <4>1
      <3>2. ASSUME NEW as, NEW nlri, NEW attrs, NEW withdrawn,
                   ProcessUpdate(p, as, nlri, attrs, withdrawn)
            PROVE  \E hist : dampening' = [dampening EXCEPT ![p] = hist]
        BY <3>2 DEF ProcessUpdate
      <3> QED  BY <1>3, <3>1, <3>2
    <2> QED  BY <1>1, <1>3, <2>1
  <1> QED  BY <1>2, <1>3

\* The inductive invariant of this section.
OwnershipInv ==
    /\ RibTypeOK
    /\ DaemonTypeOK
    /\ NeverStale
    /\ RoutesHaveOwner
    /\ HistoryHasOwner

\* No step marks a route stale: the only caller of mark_peer_stale never meets
\* the state that its guard asks for.
LEMMA NeverStaleStep ==
    ASSUME OwnershipInv, [Next]_vars
    PROVE  NeverStale'
  <1>1. ASSUME NEW c \in Conns, SessionStep(c) PROVE NeverStale'
    <2>1. conn[c].addr \in Peers
      BY <1>1, ConnSteps DEF ConnStep, SessionStep, DaemonTypeOK, OwnershipInv
    <2>2. CASE UNCHANGED ribVars
      BY <2>2 DEF ribVars, OwnershipInv, NeverStale
    <2>3. CASE ~UNCHANGED ribVars
      <3>1. OnlyAdds(conn[c].addr)
        BY <1>1, <2>1, <2>3, SessionRibStep, UpdateOnlyAdds, RemovalsOnlyRemove
        DEF OwnershipInv, OnlyAdds
      <3> QED  BY <3>1 DEF OnlyAdds, OwnershipInv, NeverStale
    <2> QED  BY <2>2, <2>3
  <1>2. ASSUME NEW c \in Conns, NEW p \in Peers, Accept(c, p) PROVE NeverStale'
    BY <1>2 DEF Accept, ribVars, OwnershipInv, NeverStale
  <1>3. CASE Elapse \/ UNCHANGED vars
    BY <1>3 DEF Elapse, Tick, vars, OwnershipInv, NeverStale
  <1> QED  BY <1>1, <1>2, <1>3, NextSteps

\* A session step ends a session in order only by removing its routes.
LEMMA OrderlyEnd ==
    ASSUME DaemonTypeOK, NEW c \in Conns, SessionStep(c),
           conn'[c].phase \notin {"running", "failed"}
    PROVE  RemovePeer(conn[c].addr)
  <1>1. conn \in [Conns -> Connection]
    BY DEF DaemonTypeOK
  <1>2. ASSUME NEW as \in PeerASes, NEW gr \in BOOLEAN, NEW hold \in BOOLEAN,
               RecvOpen(c, as, gr, hold)
        PROVE  conn'[c].phase = "running"
    BY <1>1, <1>2 DEF RecvOpen, Readable, Running, Connection
  <1>3. ASSUME RecvKeepalive(c)
        PROVE  conn'[c].phase = "running"
    BY <1>1, <1>3 DEF RecvKeepalive, Readable, Running, Connection
  <1>4. ASSUME NEW nlri, NEW attrs, NEW withdrawn,
               RecvUpdate(c, nlri, attrs, withdrawn)
        PROVE  conn'[c].phase = "running"
    BY <1>1, <1>4 DEF RecvUpdate, Readable, Running, Connection
  <1>5. ASSUME RecvEndOfRib(c) \/ RecvNotification(c)
        PROVE  conn'[c].phase = "running"
    BY <1>1, <1>5 DEF RecvEndOfRib, RecvNotification, Readable, Running, Connection
  <1>6. ASSUME SessionError(c)
        PROVE  conn'[c].phase = "failed"
    BY <1>1, <1>6 DEF SessionError, Returned, Connection
  <1>7. ASSUME NEW how, RemoteLeaves(c, how)
        PROVE  conn'[c].phase = "running"
    BY <1>1, <1>7 DEF RemoteLeaves, Readable, Running, Connection
  <1>8. HoldExpires(c) \/ Eof(c)
    BY <1>2, <1>3, <1>4, <1>5, <1>6, <1>7 DEF SessionStep
  <1> QED
    BY <1>8, DisconnectNotEstablished DEF HoldExpires, Eof, HandleDisconnect

\* A step that ends a session in order removes the routes of its address, and
\* one that adds routes is taken by a running session of that address.
LEMMA RoutesHaveOwnerStep ==
    ASSUME OwnershipInv, [Next]_vars
    PROVE  RoutesHaveOwner'
  <1> DEFINE Owner(c, p) == conn[c].addr = p /\ conn[c].phase \in {"running", "failed"}
  <1> SUFFICES ASSUME NEW p \in Peers, NEW k \in Prefixes, adj_rib_in'[p][k] # NoRoute
               PROVE  \E d \in Conns : /\ conn'[d].addr = p
                                       /\ conn'[d].phase \in {"running", "failed"}
    BY DEF RoutesHaveOwner, RoutesOf
  <1>1. adj_rib_in[p][k] # NoRoute => \E d \in Conns : Owner(d, p)
    BY DEF OwnershipInv, RoutesHaveOwner, RoutesOf
  <1>2. conn \in [Conns -> Connection]
    BY DEF OwnershipInv, DaemonTypeOK
  <1>3. ASSUME NEW c \in Conns, SessionStep(c)
        PROVE  \E d \in Conns : /\ conn'[d].addr = p
                                /\ conn'[d].phase \in {"running", "failed"}
    <2> DEFINE a == conn[c].addr
    <2>1. PICK r \in Connection : /\ Running(c)
                                  /\ r.addr = a
                                  /\ conn' = [conn EXCEPT ![c] = r]
      <3>1. ConnStep(c)
        BY <1>3, ConnSteps DEF SessionStep, OwnershipInv
      <3> QED  BY <3>1 DEF ConnStep
    <2>2. a \in Peers
      BY <2>1 DEF OwnershipInv, DaemonTypeOK
    <2>3. \A d \in Conns : conn'[d] = IF d = c THEN r ELSE conn[d]
      BY <1>2, <2>1
    <2>4. a # p => adj_rib_in[p][k] # NoRoute
      <3>1. CASE UNCHANGED ribVars
        BY <3>1 DEF ribVars
      <3>2. CASE ~UNCHANGED ribVars
        <4>1. OnlyAdds(a)
          BY <1>3, <2>2, <3>2, SessionRibStep, UpdateOnlyAdds, RemovalsOnlyRemove
          DEF OwnershipInv, OnlyAdds
        <4> QED  BY <4>1 DEF OnlyAdds
      <3> QED  BY <3>1, <3>2
    <2>5. CASE a # p
      <3>1. PICK d \in Conns : Owner(d, p)
        BY <1>1, <2>4, <2>5
      <3> QED  BY <2>3, <2>5, <3>1
    <2>6. CASE a = p
      <3>1. ~RemovePeer(a)
        BY <2>2, <2>6, RemovalsOnlyRemove DEF OwnershipInv
      <3>2. conn'[c].phase \in {"running", "failed"}
        BY <1>3, <3>1, OrderlyEnd DEF OwnershipInv
      <3> QED  BY <2>1, <2>3, <2>6, <3>2
    <2> QED  BY <2>5, <2>6
  <1>4. ASSUME NEW c \in Conns, NEW q \in Peers, Accept(c, q)
        PROVE  \E d \in Conns : /\ conn'[d].addr = p
                                /\ conn'[d].phase \in {"running", "failed"}
    <2>1. adj_rib_in[p][k] # NoRoute
      BY <1>4 DEF Accept, ribVars
    <2>2. PICK d \in Conns : Owner(d, p)
      BY <1>1, <2>1
    <2>3. d # c /\ conn'[d] = conn[d]
      BY <1>2, <1>4, <2>2 DEF Accept
    <2> QED  BY <2>2, <2>3
  <1>5. CASE Elapse \/ UNCHANGED vars
    BY <1>1, <1>5 DEF Elapse, Tick, vars
  <1> QED  BY <1>3, <1>4, <1>5, NextSteps

\* So with penalties: they are collected by running sessions, and a session that
\* ends in order clears those of its address.
LEMMA HistoryHasOwnerStep ==
    ASSUME OwnershipInv, [Next]_vars
    PROVE  HistoryHasOwner'
  <1> DEFINE Owner(c, p) == conn[c].addr = p /\ conn[c].phase \in {"running", "failed"}
  <1> SUFFICES ASSUME NEW p \in Peers, NEW k \in Prefixes, dampening'[p][k] # NoEntry
               PROVE  \E d \in Conns : /\ conn'[d].addr = p
                                       /\ conn'[d].phase \in {"running", "failed"}
    BY DEF HistoryHasOwner
  <1>1. dampening[p][k] # NoEntry => \E d \in Conns : Owner(d, p)
    BY DEF OwnershipInv, HistoryHasOwner
  <1>2. conn \in [Conns -> Connection]
    BY DEF OwnershipInv, DaemonTypeOK
  <1>3. ASSUME NEW c \in Conns, SessionStep(c)
        PROVE  \E d \in Conns : /\ conn'[d].addr = p
                                /\ conn'[d].phase \in {"running", "failed"}
    <2> DEFINE a == conn[c].addr
    <2>1. PICK r \in Connection : /\ Running(c)
                                  /\ r.addr = a
                                  /\ conn' = [conn EXCEPT ![c] = r]
      <3>1. ConnStep(c)
        BY <1>3, ConnSteps DEF SessionStep, OwnershipInv
      <3> QED  BY <3>1 DEF ConnStep
    <2>2. a \in Peers
      BY <2>1 DEF OwnershipInv, DaemonTypeOK
    <2>3. \A d \in Conns : conn'[d] = IF d = c THEN r ELSE conn[d]
      BY <1>2, <2>1
    <2>4. a # p => dampening[p][k] # NoEntry
      <3>1. CASE UNCHANGED ribVars
        BY <3>1 DEF ribVars
      <3>2. CASE ~UNCHANGED ribVars
        <4>1. \A q \in Peers \ {a} : dampening'[q] = dampening[q]
          BY <1>3, <2>2, <3>2, SessionRibStep, HistoryTouched DEF OwnershipInv
        <4> QED  BY <4>1
      <3> QED  BY <3>1, <3>2
    <2>5. CASE a # p
      <3>1. PICK d \in Conns : Owner(d, p)
        BY <1>1, <2>4, <2>5
      <3> QED  BY <2>3, <2>5, <3>1
    <2>6. CASE a = p
      <3>1. ~RemovePeer(a)
        BY <2>2, <2>6, HistoryTouched DEF OwnershipInv
      <3>2. conn'[c].phase \in {"running", "failed"}
        BY <1>3, <3>1, OrderlyEnd DEF OwnershipInv
      <3> QED  BY <2>1, <2>3, <2>6, <3>2
    <2> QED  BY <2>5, <2>6
  <1>4. ASSUME NEW c \in Conns, NEW q \in Peers, Accept(c, q)
        PROVE  \E d \in Conns : /\ conn'[d].addr = p
                                /\ conn'[d].phase \in {"running", "failed"}
    <2>1. dampening[p][k] # NoEntry
      BY <1>4 DEF Accept, ribVars
    <2>2. PICK d \in Conns : Owner(d, p)
      BY <1>1, <2>1
    <2>3. d # c /\ conn'[d] = conn[d]
      BY <1>2, <1>4, <2>2 DEF Accept
    <2> QED  BY <2>2, <2>3
  <1>5. CASE Elapse \/ UNCHANGED vars
    BY <1>1, <1>5 DEF Elapse, Tick, vars
  <1> QED  BY <1>3, <1>4, <1>5, NextSteps

\* The inductive invariant of this section holds in every reachable state.
THEOREM Ownership == Spec => []OwnershipInv
  <1>1. Init => NeverStale /\ RoutesHaveOwner /\ HistoryHasOwner
    BY DEF Init, RibInit, NeverStale, RoutesHaveOwner, RoutesOf, HistoryHasOwner
  <1>2. Spec => []RibTypeOK
    BY DaemonIsRib, RibTypeCorrect
  <1>3. OwnershipInv /\ [Next]_vars
          => NeverStale' /\ RoutesHaveOwner' /\ HistoryHasOwner'
    BY NeverStaleStep, RoutesHaveOwnerStep, HistoryHasOwnerStep
  <1>4. OwnershipInv <=> /\ RibTypeOK /\ DaemonTypeOK
                         /\ NeverStale /\ RoutesHaveOwner /\ HistoryHasOwner
    BY DEF OwnershipInv
  <1> QED
    BY <1>1, <1>2, <1>3, <1>4, DaemonTypeCorrect, PTL DEF Spec

\* No route outlives a session that ended in order, for any number of
\* connections, addresses and prefixes.
THEOREM RoutesOwned == Spec => []RoutesHaveOwner
  <1>1. OwnershipInv => RoutesHaveOwner
    BY DEF OwnershipInv
  <1> QED  BY <1>1, Ownership, PTL

\* Nor does a flap penalty, so that a peer never starts a session suppressed for
\* what it did in sessions that all ended in order.
THEOREM HistoryOwned == Spec => []HistoryHasOwner
  <1>1. OwnershipInv => HistoryHasOwner
    BY DEF OwnershipInv
  <1> QED  BY <1>1, Ownership, PTL

\* The graceful-restart branch of handle_disconnect is unreachable: no route
\* is ever stale, so the purge at end-of-RIB never has anything to do.
THEOREM GracefulRestartUnreachable == Spec => []NeverStale
  <1>1. OwnershipInv => NeverStale
    BY DEF OwnershipInv
  <1> QED  BY <1>1, Ownership, PTL

-----------------------------------------------------------------------------
(* The counter of established sessions *)

\* Sessions that are up, and sessions that are past the handshake for good: a
\* connection never sees OpenSent or OpenConfirm again.
Up   == {c \in Conns : Running(c) /\ conn[c].state = "Established"}
Past == {c \in Conns : /\ conn[c].phase # "unused"
                       /\ conn[c].state \notin {"OpenSent", "OpenConfirm"}}

\* The events that sessions meet, but for the KEEPALIVE that confirms.
OtherEvent == {"BgpOpen", "UpdateMsg", "NotifMsg", "HoldTimerExpired", "TcpConnectionFail"}

\* Such an event neither brings a session up nor takes one back into the
\* handshake.
LEMMA OtherTransitions ==
    ASSUME NEW state \in BgpState, NEW event \in OtherEvent
    PROVE  /\ Transition(state, event) = "Established" => state = "Established"
           /\ Transition(state, event) \in {"OpenSent", "OpenConfirm"}
                => state \in {"OpenSent", "OpenConfirm"}
  BY DEF Transition, BgpState, OtherEvent

\* A connection whose record is changed in its state and phase only.
LEMMA StateWritten ==
    ASSUME conn \in [Conns -> Connection], NEW c \in Conns, NEW ph, NEW s, NEW a, NEW rm
    PROVE  /\ conn' = [conn EXCEPT ![c].armed = a, ![c].state = s]
                => conn'[c].state = s /\ conn'[c].phase = conn[c].phase
           /\ conn' = [conn EXCEPT ![c].state = s]
                => conn'[c].state = s /\ conn'[c].phase = conn[c].phase
           /\ conn' = [conn EXCEPT ![c].phase = ph, ![c].state = s]
                => conn'[c].state = s /\ conn'[c].phase = ph
           /\ conn' = [conn EXCEPT ![c].remote = rm]
                => conn'[c].state = conn[c].state /\ conn'[c].phase = conn[c].phase
  <1>1. conn[c] \in Connection
    OBVIOUS
  <1>2. conn' = [conn EXCEPT ![c].armed = a, ![c].state = s]
          => conn'[c].state = s /\ conn'[c].phase = conn[c].phase
    BY <1>1 DEF Connection
  <1>3. conn' = [conn EXCEPT ![c].state = s]
          => conn'[c].state = s /\ conn'[c].phase = conn[c].phase
    BY <1>1 DEF Connection
  <1>4. conn' = [conn EXCEPT ![c].phase = ph, ![c].state = s]
          => conn'[c].state = s /\ conn'[c].phase = ph
    BY <1>1 DEF Connection
  <1>5. conn' = [conn EXCEPT ![c].remote = rm]
          => conn'[c].state = conn[c].state /\ conn'[c].phase = conn[c].phase
    BY <1>1 DEF Connection
  <1> QED  BY <1>2, <1>3, <1>4, <1>5

\* A session step either is the confirming KEEPALIVE and counts, or does not
\* count and makes no transition but those of the other events.
LEMMA SessionStates ==
    ASSUME DaemonTypeOK, NEW c \in Conns, SessionStep(c)
    PROVE  /\ Running(c)
           /\ conn'[c].phase # "unused"
           /\ \A d \in Conns \ {c} : conn'[d] = conn[d]
           /\ \/ /\ conn[c].state = "OpenConfirm"
                 /\ conn'[c].state = "Established"
                 /\ conn'[c].phase = "running"
                 /\ metrics'.sessions_established = metrics.sessions_established + 1
              \/ /\ \/ conn'[c].state = conn[c].state
                    \/ \E event \in OtherEvent :
                         conn'[c].state = Transition(conn[c].state, event)
                 /\ metrics'.sessions_established = metrics.sessions_established
  <1>1. conn \in [Conns -> Connection] /\ metrics \in Metrics
    BY DEF DaemonTypeOK
  <1>2. /\ Running(c)
        /\ \A d \in Conns \ {c} : conn'[d] = conn[d]
    BY <1>1, ConnSteps DEF ConnStep, SessionStep
  <1>3. CASE RecvKeepalive(c) /\ conn[c].state = "OpenConfirm"
    <2>1. conn' = [conn EXCEPT ![c].armed = Rearmed(c), ![c].state = "Established"]
      <3>1. Transition("OpenConfirm", "KeepAliveMsg") = "Established"
        BY DEF Transition
      <3> QED  BY <1>1, <1>3, <3>1 DEF RecvKeepalive
    <2>2. conn'[c].state = "Established" /\ conn'[c].phase = "running"
      BY <1>1, <1>2, <2>1, StateWritten DEF Running
    <2>3. metrics'.sessions_established = metrics.sessions_established + 1
      BY <1>1, <1>3 DEF RecvKeepalive, Metrics
    <2> QED  BY <1>2, <1>3, <2>2, <2>3
  <1>4. CASE ~(RecvKeepalive(c) /\ conn[c].state = "OpenConfirm")
    <2>1. metrics'.sessions_established = metrics.sessions_established
      BY <1>1, <1>4
      DEF SessionStep, RecvOpen, RecvKeepalive, RecvUpdate, RecvEndOfRib,
          RecvNotification, HoldExpires, Eof, SessionError, RemoteLeaves, Metrics
    <2> DEFINE Same(s) == \/ s = conn[c].state
                          \/ \E event \in OtherEvent : s = Transition(conn[c].state, event)
    <2>2. ASSUME NEW as \in PeerASes, NEW gr \in BOOLEAN, NEW hold \in BOOLEAN,
                 RecvOpen(c, as, gr, hold)
          PROVE  Same(conn'[c].state) /\ conn'[c].phase # "unused"
      <3> DEFINE s == Transition(conn[c].state, "BgpOpen")
                 h == LocalHoldOn /\ hold
      <3>1. Same(s)
        BY DEF OtherEvent
      <3>2. conn' = [conn EXCEPT ![c].gr = gr, ![c].remote_as = as, ![c].hold_on = h,
                                 ![c].armed = h, ![c].state = s]
        BY <1>1, <2>2 DEF RecvOpen
      <3> HIDE DEF s, h
      <3>3. conn'[c].state = s /\ conn'[c].phase = conn[c].phase
        BY <1>1, <3>2 DEF Connection
      <3> QED  BY <1>2, <3>1, <3>3 DEF Running
    <2>3. ASSUME RecvKeepalive(c)
          PROVE  Same(conn'[c].state) /\ conn'[c].phase # "unused"
      <3>1. conn' = [conn EXCEPT ![c].armed = Rearmed(c), ![c].state = conn[c].state]
        BY <1>1, <1>4, <2>3 DEF RecvKeepalive
      <3> QED  BY <1>1, <1>2, <3>1, StateWritten DEF Running
    <2>4. ASSUME NEW nlri, NEW attrs, NEW withdrawn,
                 RecvUpdate(c, nlri, attrs, withdrawn) \/ RecvEndOfRib(c)
          PROVE  Same(conn'[c].state) /\ conn'[c].phase # "unused"
      <3> DEFINE s == Transition(conn[c].state, "UpdateMsg")
      <3>1. conn' = [conn EXCEPT ![c].armed = Rearmed(c), ![c].state = s]
        BY <1>1, <2>4 DEF RecvUpdate, RecvEndOfRib
      <3>2. Same(s)
        BY DEF OtherEvent
      <3> HIDE DEF s
      <3>3. conn'[c].state = s /\ conn'[c].phase = conn[c].phase
        BY <1>1, <3>1, StateWritten
      <3> QED  BY <1>2, <3>2, <3>3 DEF Running
    <2>5. ASSUME RecvNotification(c)
          PROVE  Same(conn'[c].state) /\ conn'[c].phase # "unused"
      <3> DEFINE s == Transition(conn[c].state, "NotifMsg")
      <3>1. conn' = [conn EXCEPT ![c].state = s]
        BY <1>1, <2>5 DEF RecvNotification
      <3>2. Same(s)
        BY DEF OtherEvent
      <3> HIDE DEF s
      <3>3. conn'[c].state = s /\ conn'[c].phase = conn[c].phase
        BY <1>1, <3>1, StateWritten
      <3> QED  BY <1>2, <3>2, <3>3 DEF Running
    <2>6. ASSUME HoldExpires(c) \/ Eof(c) \/ SessionError(c)
          PROVE  Same(conn'[c].state) /\ conn'[c].phase # "unused"
      <3> DEFINE hold == Transition(conn[c].state, "HoldTimerExpired")
                 fail == Transition(conn[c].state, "TcpConnectionFail")
      <3>1. PICK ph \in {"closed", "failed"}, s \in {hold, fail, conn[c].state} :
              Returned(c, ph, s)
        BY <2>6 DEF HoldExpires, Eof, SessionError
      <3>2. Same(s)
        BY DEF OtherEvent
      <3>3. conn' = [conn EXCEPT ![c].phase = ph, ![c].state = s]
        BY <3>1 DEF Returned
      <3>4. conn'[c].state = s /\ conn'[c].phase = ph
        BY <1>1, <3>3, StateWritten
      <3> QED  BY <3>2, <3>4
    <2>7. ASSUME NEW how, RemoteLeaves(c, how)
          PROVE  Same(conn'[c].state) /\ conn'[c].phase # "unused"
      BY <1>1, <1>2, <2>7, StateWritten DEF RemoteLeaves, Running
    <2>8. Same(conn'[c].state) /\ conn'[c].phase # "unused"
      BY <2>2, <2>3, <2>4, <2>5, <2>6, <2>7 DEF SessionStep
    <2> QED  BY <1>2, <2>1, <2>8
  <1> QED  BY <1>3, <1>4

\* The inductive invariant: the counter is at least the number of sessions up
\* and at most that of the sessions past the handshake.
CountInv ==
    /\ DaemonTypeOK
    /\ Cardinality(Up) <= metrics.sessions_established
    /\ metrics.sessions_established <= Cardinality(Past)

\* Sets of connections are finite.
LEMMA ConnSets ==
    ASSUME NEW S \in SUBSET Conns
    PROVE  IsFiniteSet(S) /\ Cardinality(S) \in Nat
  BY DaemonAssumption, FS_Subset, FS_CardinalityType

\* A step of one session moves the counter together with the two sets.
LEMMA CountSessionStep ==
    ASSUME CountInv, NEW c \in Conns, SessionStep(c)
    PROVE  /\ Cardinality(Up)' <= metrics'.sessions_established
           /\ metrics'.sessions_established <= Cardinality(Past)'
  <1> DEFINE est == metrics.sessions_established
  <1>1. /\ Up \in SUBSET Conns /\ Past \in SUBSET Conns
        /\ Up' \in SUBSET Conns /\ Past' \in SUBSET Conns
    BY DEF Up, Past
  <1>2. /\ IsFiniteSet(Up) /\ IsFiniteSet(Past) /\ IsFiniteSet(Up') /\ IsFiniteSet(Past')
        /\ Cardinality(Up) \in Nat /\ Cardinality(Past) \in Nat
        /\ Cardinality(Up') \in Nat /\ Cardinality(Past') \in Nat
    BY <1>1, ConnSets
  <1>3. /\ est \in Nat /\ Cardinality(Up) <= est /\ est <= Cardinality(Past)
        /\ conn[c] \in Connection /\ conn[c].state \in BgpState
    BY DEF CountInv, DaemonTypeOK, Metrics, Connection
  <1>4. /\ Running(c)
        /\ conn'[c].phase # "unused"
        /\ \A d \in Conns \ {c} : conn'[d] = conn[d]
    BY SessionStates DEF CountInv
  <1>5. CASE /\ conn[c].state = "OpenConfirm"
             /\ conn'[c].state = "Established"
             /\ conn'[c].phase = "running"
             /\ metrics'.sessions_established = est + 1
    <2>1. Up' = Up \cup {c} /\ c \notin Up
      BY <1>4, <1>5 DEF Up, Running
    <2>2. Past' = Past \cup {c} /\ c \notin Past
      BY <1>4, <1>5 DEF Past, Running
    <2>3. Cardinality(Up') = Cardinality(Up) + 1
      BY <1>2, <2>1, FS_AddElement
    <2>4. Cardinality(Past') = Cardinality(Past) + 1
      BY <1>2, <2>2, FS_AddElement
    <2> QED  BY <1>2, <1>3, <1>5, <2>3, <2>4
  <1>6. CASE /\ \/ conn'[c].state = conn[c].state
                \/ \E event \in OtherEvent :
                     conn'[c].state = Transition(conn[c].state, event)
             /\ metrics'.sessions_established = est
    <2>1. /\ conn'[c].state = "Established" => conn[c].state = "Established"
          /\ conn'[c].state \in {"OpenSent", "OpenConfirm"}
               => conn[c].state \in {"OpenSent", "OpenConfirm"}
      BY <1>3, <1>6, OtherTransitions
    <2>2. Up' \subseteq Up
      BY <1>4, <2>1 DEF Up, Running
    <2>3. Past \subseteq Past'
      BY <1>4, <2>1 DEF Past, Running
    <2>4. Cardinality(Up') <= Cardinality(Up)
      BY <1>2, <2>2, FS_Subset
    <2>5. Cardinality(Past) <= Cardinality(Past')
      BY <1>2, <2>3, FS_Subset
    <2> QED  BY <1>2, <1>3, <1>6, <2>4, <2>5
  <1> QED  BY <1>5, <1>6, SessionStates DEF CountInv

\* Every step keeps the count.
LEMMA CountStep == CountInv /\ DaemonTypeOK' /\ [Next]_vars => CountInv'
  <1> SUFFICES ASSUME CountInv, DaemonTypeOK', [Next]_vars
               PROVE  /\ Cardinality(Up)' <= metrics'.sessions_established
                      /\ metrics'.sessions_established <= Cardinality(Past)'
    BY DEF CountInv
  <1>1. ASSUME NEW c \in Conns, NEW p \in Peers, Accept(c, p)
        PROVE  /\ Up' = Up /\ Past' = Past
               /\ metrics'.sessions_established = metrics.sessions_established
    <2>1. conn \in [Conns -> Connection] /\ metrics \in Metrics
      BY DEF CountInv, DaemonTypeOK
    <2>2. IncomingState = "OpenSent"
      BY DEF IncomingState, Transition
    <2>3. /\ \A d \in Conns \ {c} : conn'[d] = conn[d]
          /\ conn[c].phase = "unused"
          /\ conn'[c].phase = "running" /\ conn'[c].state = "OpenSent"
      BY <1>1, <2>1, <2>2 DEF Accept, NoConnection
    <2>4. metrics'.sessions_established = metrics.sessions_established
      BY <1>1, <2>1 DEF Accept, Metrics
    <2>5. Up' = Up
      BY <2>3 DEF Up, Running
    <2>6. Past' = Past
      BY <2>3 DEF Past
    <2> QED  BY <2>4, <2>5, <2>6
  <1>2. CASE Elapse \/ UNCHANGED vars
    BY <1>2 DEF Elapse, vars, CountInv, Up, Past, Running
  <1> QED
    BY <1>1, <1>2, CountSessionStep, NextSteps DEF CountInv

\* sessions_established counts every connection at most once and none that is
\* up is missed, for any number of connections and however they interleave.
THEOREM SessionsCounted == Spec => []EstablishedCounted
  <1>1. Init => CountInv
    <2> SUFFICES ASSUME Init PROVE CountInv
      OBVIOUS
    <2>1. DaemonTypeOK
      BY DaemonAssumption
      DEF Init, DaemonTypeOK, NoConnection, Connection, Running, Metrics, BgpState
    <2>2. Up = {} /\ Past = {} /\ metrics.sessions_established = 0
      BY DEF Init, Up, Past, NoConnection, Running
    <2> QED  BY <2>1, <2>2, FS_EmptySet DEF CountInv
  <1>2. Spec => []CountInv
    BY <1>1, CountStep, DaemonTypeCorrect, PTL DEF Spec
  <1>3. CountInv => EstablishedCounted
    <2> SUFFICES ASSUME CountInv PROVE EstablishedCounted
      OBVIOUS
    <2> DEFINE used == {c \in Conns : conn[c].phase # "unused"}
    <2>1. Past \in SUBSET used /\ used \in SUBSET Conns
      BY DEF Past
    <2>2. IsFiniteSet(used) /\ Cardinality(used) \in Nat
      BY <2>1, ConnSets
    <2>3. Cardinality(Past) <= Cardinality(used)
      BY <2>1, <2>2, FS_Subset
    <2>4. Cardinality(Past) \in Nat /\ metrics.sessions_established \in Nat
      BY <2>1, ConnSets DEF CountInv, DaemonTypeOK, Metrics, Past
    <2>5. metrics.sessions_established <= Cardinality(used)
      BY <2>2, <2>3, <2>4 DEF CountInv
    <2> QED  BY <2>5 DEF CountInv, EstablishedCounted, Up
  <1> QED  BY <1>2, <1>3, PTL

-----------------------------------------------------------------------------
(* The gauge of the Loc-RIB *)

\* remove_peer installs nothing where nothing was: a prefix that still has a
\* candidate had a best route before.
LEMMA RemovePeerShrinks ==
    ASSUME RibTypeOK, LocRibIsBest, NEW p \in Peers, RemovePeer(p),
           NEW k \in Prefixes, loc_rib'[k] # NoRoute
    PROVE  loc_rib[k] # NoRoute
  <1>1. CASE k \notin RoutesOf(p)
    BY <1>1, DecisionsStored DEF RemovePeer
  <1>2. CASE k \in RoutesOf(p)
    <2>1. Candidates(adj_rib_in, k) # {}
      BY <1>2 DEF RoutesOf, Candidates
    <2>2. loc_rib[k] \in Route
      BY <2>1 DEF LocRibIsBest
    <2> QED  BY <2>2, RibAssumption
  <1> QED  BY <1>1, <1>2

\* A smaller table has at most as many routes.
LEMMA SizeMonotone ==
    ASSUME NEW f, NEW g, \A k \in Prefixes : f[k] # NoRoute => g[k] # NoRoute
    PROVE  LocRibSize(f) <= LocRibSize(g)
  <1> DEFINE F == {k \in Prefixes : f[k] # NoRoute}
             G == {k \in Prefixes : g[k] # NoRoute}
  <1>1. F \in SUBSET G /\ G \in SUBSET Prefixes
    OBVIOUS
  <1>2. IsFiniteSet(G)
    BY <1>1, DaemonAssumption, FS_Subset
  <1>3. Cardinality(F) <= Cardinality(G)
    BY <1>1, <1>2, FS_Subset
  <1> QED  BY <1>3 DEF LocRibSize

\* The gauge is stored by the handlers that can make the Loc-RIB grow; the
\* others shrink it or leave it alone.
LEMMA GaugeStep ==
    ASSUME RibTypeOK, LocRibIsBest, DaemonTypeOK, DaemonTypeOK', LocRibGaugeNotBehind,
           [Next]_vars
    PROVE  LocRibGaugeNotBehind'
  <1> DEFINE gauge == metrics.routes_loc_rib
  <1>1. /\ metrics \in Metrics /\ gauge \in Nat
        /\ LocRibSize(loc_rib) \in Nat /\ LocRibSize(loc_rib') \in Nat
    BY LocRibSizeType DEF DaemonTypeOK, Metrics
  <1>2. ASSUME NEW c \in Conns, SessionStep(c)
        PROVE  LocRibGaugeNotBehind'
    <2>1. \/ metrics'.routes_loc_rib = LocRibSize(loc_rib')
          \/ /\ metrics'.routes_loc_rib = gauge
             /\ UNCHANGED ribVars \/ RemovePeer(conn[c].addr)
      BY <1>1, <1>2, DisconnectNotEstablished
      DEF SessionStep, RecvOpen, RecvKeepalive, RecvUpdate, RecvEndOfRib,
          RecvNotification, HoldExpires, Eof, SessionError, RemoteLeaves,
          HandleDisconnect, Metrics
    <2>2. conn[c].addr \in Peers
      BY <1>2, ConnSteps DEF ConnStep, SessionStep, DaemonTypeOK
    <2>3. CASE RemovePeer(conn[c].addr)
      <3>1. LocRibSize(loc_rib') <= LocRibSize(loc_rib)
        BY <2>2, <2>3, RemovePeerShrinks, SizeMonotone
      <3> QED  BY <1>1, <2>1, <3>1 DEF LocRibGaugeNotBehind, ribVars
    <2> QED  BY <1>1, <2>1, <2>3 DEF LocRibGaugeNotBehind, ribVars
  <1>3. ASSUME NEW c \in Conns, NEW p \in Peers, Accept(c, p)
        PROVE  LocRibGaugeNotBehind'
    <2>1. loc_rib' = loc_rib /\ metrics'.routes_loc_rib = gauge
      BY <1>1, <1>3 DEF Accept, Metrics, ribVars
    <2> QED  BY <2>1 DEF LocRibGaugeNotBehind
  <1>4. CASE Elapse \/ UNCHANGED vars
    BY <1>4 DEF Elapse, Tick, vars, LocRibGaugeNotBehind
  <1> QED  BY <1>2, <1>3, <1>4, NextSteps

\* The gauge never says less than the Loc-RIB holds, although sessions remove
\* routes without storing it: a removal never lets another prefix in.
THEOREM GaugeNeverBehind == Spec => []LocRibGaugeNotBehind
  <1>1. Init => LocRibGaugeNotBehind
    <2> SUFFICES ASSUME Init PROVE LocRibGaugeNotBehind
      OBVIOUS
    <2>1. {k \in Prefixes : loc_rib[k] # NoRoute} = {}
      BY DEF Init, RibInit
    <2> QED  BY <2>1, FS_EmptySet DEF Init, LocRibGaugeNotBehind, LocRibSize
  <1>2. Spec => []RibTypeOK
    BY DaemonIsRib, RibTypeCorrect
  <1> QED
    BY <1>1, <1>2, GaugeStep, DaemonTypeCorrect, DaemonLocRibCorrect, PTL DEF Spec
=============================================================================
