------------------------------- MODULE Daemon -------------------------------
(***************************************************************************)
(* The running daemon: one task per accepted connection (server.rs,        *)
(* peer.rs), all of them sharing the RIB (rib.rs) and the metrics          *)
(* (metrics.rs).                                                           *)
(*                                                                         *)
(* A handler that runs between two awaits is one action; it takes the lock *)
(* of the RIB at most once, except for the end-of-RIB marker, where both   *)
(* calls are made under one guard.  Timers are reduced to whether the hold *)
(* timer runs: Session has them in seconds.  ROUTE-REFRESH changes nothing *)
(* and has no action.                                                      *)
(***************************************************************************)
EXTENDS Rib, Fsm, FiniteSets

CONSTANTS
    Conns,          \* connections the listener may accept
    LocalHoldOn,    \* LocalConfig.hold_time > 0
    MaxFailures     \* bound: session failures counted by the metrics

ASSUME DaemonAssumption ==
    /\ 0 \in PeerASes       \* the AS of a peer before its OPEN
    /\ IsFiniteSet(Conns)
    /\ IsFiniteSet(Prefixes)
    /\ LocalHoldOn \in BOOLEAN
    /\ MaxFailures \in Nat

VARIABLES
    conn,       \* per connection: its task, its Peer and its remote end
    metrics     \* the counters of Metrics that sessions share

vars == <<adj_rib_in, loc_rib, dampening, now, conn, metrics>>

Connection ==
    [phase     : {"unused", "running", "closed", "failed"},
     addr      : Peers \cup {None},
     state     : BgpState,
     gr        : BOOLEAN,       \* peer_capabilities has GracefulRestart
     remote_as : PeerASes,
     hold_on   : BOOLEAN,       \* timers.hold_time > 0
     armed     : BOOLEAN,       \* timers.hold_timer_start is set
     remote    : {"open", "closed", "reset"}]

Metrics ==
    [sessions_active : Nat, sessions_established : Nat, sessions_failed : Nat,
     routes_loc_rib : Nat]

NoConnection ==
    [phase |-> "unused", addr |-> None, state |-> "Idle", gr |-> FALSE,
     remote_as |-> 0, hold_on |-> FALSE, armed |-> FALSE, remote |-> "closed"]

Init ==
    /\ RibInit
    /\ conn = [c \in Conns |-> NoConnection]
    /\ metrics = [sessions_active |-> 0, sessions_established |-> 0,
                  sessions_failed |-> 0, routes_loc_rib |-> 0]

Running(c) == conn[c].phase = "running"

\* A message can be read from c.
Readable(c) == Running(c) /\ conn[c].remote = "open"

\* The hold timer after reset_hold_timer.
Rearmed(c) == conn[c].armed \/ conn[c].hold_on

LocRibSize(loc) == Cardinality({k \in Prefixes : loc[k] # NoRoute})

-----------------------------------------------------------------------------
(* server.rs: accept.  The kernel accepts a connection from an address only  *)
(* when the earlier one from it is gone: its task ended, or it was reset     *)
(* and the task does not know yet.                                           *)

AddressFree(p) ==
    \A d \in Conns : (Running(d) /\ conn[d].addr = p) => conn[d].remote = "reset"

\* Mutant of Accept: the Peer is created without its address.
AcceptAnonymous(c, p) ==
    /\ conn[c].phase = "unused"
    /\ AddressFree(p)
    /\ conn' = [conn EXCEPT ![c] =
                  [NoConnection EXCEPT
                     !.phase = "running", !.state = IncomingState,
                     !.hold_on = LocalHoldOn, !.remote = "open"]]
    /\ metrics' = [metrics EXCEPT !.sessions_active = @ + 1]
    /\ UNCHANGED ribVars

\* run accepts and spawns handle_incoming.
Accept(c, p) ==
    /\ conn[c].phase = "unused"
    /\ AddressFree(p)
    /\ conn' = [conn EXCEPT ![c] =
                  [NoConnection EXCEPT
                     !.phase = "running", !.addr = p, !.state = IncomingState,
                     !.hold_on = LocalHoldOn, !.remote = "open"]]
    /\ metrics' = [metrics EXCEPT !.sessions_active = @ + 1]
    /\ UNCHANGED ribVars

-----------------------------------------------------------------------------
(* peer.rs: handle_message *)

RecvOpen(c, as, gr, hold) ==
    /\ Readable(c)
    /\ conn' = [conn EXCEPT
                  ![c].gr = gr, ![c].remote_as = as,
                  ![c].hold_on = LocalHoldOn /\ hold,
                  ![c].armed = LocalHoldOn /\ hold,
                  ![c].state = Transition(@, "BgpOpen")]
    /\ UNCHANGED <<ribVars, metrics>>

\* Mutant of RecvKeepalive: every KEEPALIVE of a session that is up counts.
RecvKeepaliveCounting(c) ==
    LET confirms == conn[c].state \in {"OpenConfirm", "Established"}
    IN  /\ Readable(c)
        /\ conn' = [conn EXCEPT
                      ![c].armed = Rearmed(c),
                      ![c].state = IF confirms THEN Transition(@, "KeepAliveMsg")
                                   ELSE @]
        /\ metrics' = IF confirms
                      THEN [metrics EXCEPT !.sessions_established = @ + 1]
                      ELSE metrics
        /\ UNCHANGED ribVars

RecvKeepalive(c) ==
    LET confirms == conn[c].state = "OpenConfirm"
    IN  /\ Readable(c)
        /\ conn' = [conn EXCEPT
                      ![c].armed = Rearmed(c),
                      ![c].state = IF confirms THEN Transition(@, "KeepAliveMsg")
                                   ELSE @]
        /\ metrics' = IF confirms
                      THEN [metrics EXCEPT !.sessions_established = @ + 1]
                      ELSE metrics
        /\ UNCHANGED ribVars

\* Mutant of RecvUpdate: the gauge is taken before the RIB is updated.
RecvUpdateEarlyGauge(c, nlri, attrs, withdrawn) ==
    /\ Readable(c)
    /\ ProcessUpdate(conn[c].addr, conn[c].remote_as, nlri, attrs, withdrawn)
    /\ conn' = [conn EXCEPT ![c].armed = Rearmed(c),
                            ![c].state = Transition(@, "UpdateMsg")]
    /\ metrics' = [metrics EXCEPT !.routes_loc_rib = LocRibSize(loc_rib)]

\* UPDATE, in whatever state.
RecvUpdate(c, nlri, attrs, withdrawn) ==
    /\ Readable(c)
    /\ ProcessUpdate(conn[c].addr, conn[c].remote_as, nlri, attrs, withdrawn)
    /\ conn' = [conn EXCEPT ![c].armed = Rearmed(c),
                            ![c].state = Transition(@, "UpdateMsg")]
    /\ metrics' = [metrics EXCEPT !.routes_loc_rib = LocRibSize(loc_rib')]

\* The empty UPDATE: process_update has nothing to do, stale routes go.
RecvEndOfRib(c) ==
    /\ Readable(c)
    /\ RemoveStaleForPeer(conn[c].addr)
    /\ conn' = [conn EXCEPT ![c].armed = Rearmed(c),
                            ![c].state = Transition(@, "UpdateMsg")]
    /\ metrics' = [metrics EXCEPT !.routes_loc_rib = LocRibSize(loc_rib')]

\* The session loop goes on afterwards.
RecvNotification(c) ==
    /\ Readable(c)
    /\ metrics.sessions_failed < MaxFailures
    /\ conn' = [conn EXCEPT ![c].state = Transition(@, "NotifMsg")]
    /\ metrics' = [metrics EXCEPT !.sessions_failed = @ + 1,
                                  !.sessions_active = 0]
    /\ RemovePeer(conn[c].addr)

-----------------------------------------------------------------------------
(* peer.rs: the ends of run_session *)

\* Mutant of HandleDisconnect: the session's state is not looked at.
HandleDisconnectAlways(c, state) ==
    IF conn[c].gr
    THEN MarkPeerStale(conn[c].addr)
    ELSE RemovePeer(conn[c].addr)

\* handle_disconnect, in the state the caller's transition leaves.  The task
\* that it spawns in the first branch is remove_stale_for_peer, later.
HandleDisconnect(c, state) ==
    IF conn[c].gr /\ state = "Established"
    THEN MarkPeerStale(conn[c].addr)
    ELSE RemovePeer(conn[c].addr)

Returned(c, phase, state) ==
    conn' = [conn EXCEPT ![c].phase = phase, ![c].state = state]

HoldExpires(c) ==
    LET state == Transition(conn[c].state, "HoldTimerExpired")
    IN  /\ Running(c)
        /\ conn[c].armed
        /\ metrics.sessions_failed < MaxFailures
        /\ Returned(c, "closed", state)
        /\ metrics' = [metrics EXCEPT !.sessions_failed = @ + 1,
                                      !.sessions_active = 0]
        /\ HandleDisconnect(c, state)

\* Mutants of Eof: the RIB is not told; only Established sessions notice.
EofForgetful(c) ==
    /\ Running(c)
    /\ conn[c].remote = "closed"
    /\ Returned(c, "closed", Transition(conn[c].state, "TcpConnectionFail"))
    /\ metrics' = [metrics EXCEPT !.sessions_active = 0]
    /\ UNCHANGED ribVars

EofEstablished(c) ==
    LET state == Transition(conn[c].state, "TcpConnectionFail")
    IN  /\ Running(c)
        /\ conn[c].remote = "closed"
        /\ conn[c].state = "Established"
        /\ Returned(c, "closed", state)
        /\ metrics' = [metrics EXCEPT !.sessions_active = 0]
        /\ HandleDisconnect(c, state)

\* The read returns no bytes.
Eof(c) ==
    LET state == Transition(conn[c].state, "TcpConnectionFail")
    IN  /\ Running(c)
        /\ conn[c].remote = "closed"
        /\ Returned(c, "closed", state)
        /\ metrics' = [metrics EXCEPT !.sessions_active = 0]
        /\ HandleDisconnect(c, state)

\* A read error, which is the only one to make a transition, a message that
\* does not parse, or a failed write: the task returns Err at once.
SessionError(c) ==
    /\ Running(c)
    /\ \E state \in {conn[c].state, Transition(conn[c].state, "TcpConnectionFail")} :
         Returned(c, "failed", state)
    /\ UNCHANGED <<ribVars, metrics>>

\* The remote end closes the connection or resets it.
RemoteLeaves(c, how) ==
    /\ Readable(c)
    /\ conn' = [conn EXCEPT ![c].remote = how]
    /\ UNCHANGED <<ribVars, metrics>>

\* Time passes for the dampening and for the age of routes.
Elapse == Tick /\ UNCHANGED <<conn, metrics>>

Next ==
    \/ \E c \in Conns :
         \/ \E p \in Peers : Accept(c, p)
         \/ \E as \in PeerASes, gr \in BOOLEAN, hold \in BOOLEAN :
              RecvOpen(c, as, gr, hold)
         \/ RecvKeepalive(c)
         \/ \E nlri \in SUBSET Prefixes, attrs \in Attrs,
               withdrawn \in SUBSET Prefixes :
              RecvUpdate(c, nlri, attrs, withdrawn)
         \/ RecvEndOfRib(c)
         \/ RecvNotification(c)
         \/ HoldExpires(c)
         \/ Eof(c)
         \/ SessionError(c)
         \/ \E how \in {"closed", "reset"} : RemoteLeaves(c, how)
    \/ Elapse

\* Tasks are polled: the end of a closed stream is read in the end.
Fairness == \A c \in Conns : WF_vars(Eof(c))

Spec == Init /\ [][Next]_vars

FairSpec == Spec /\ Fairness

-----------------------------------------------------------------------------
(* Properties *)

\* Type correctness of the connections and the metrics.
DaemonTypeOK ==
    /\ conn \in [Conns -> Connection]
    /\ \A c \in Conns : Running(c) => conn[c].addr \in Peers
    /\ metrics \in Metrics

\* No route outlives a session that ended in order: every route belongs to
\* the address of a session that still runs or that ended in an error, also
\* when addresses are used again and a task learns late of a reset.
RoutesHaveOwner ==
    \A p \in Peers : RoutesOf(p) # {} =>
        \E c \in Conns : conn[c].addr = p /\ conn[c].phase \in {"running", "failed"}

\* No flap penalty outlives a session that ended in order either, whichever
\* session of the address collected it and in whatever order sessions of one
\* address end: a peer that comes back later starts with a clean history, so
\* its first routes are not suppressed for what it did before.
HistoryHasOwner ==
    \A p \in Peers : (\E k \in Prefixes : dampening[p][k] # NoEntry) =>
        \E c \in Conns : conn[c].addr = p /\ conn[c].phase \in {"running", "failed"}

\* The counter of established sessions counts each connection at most once
\* and misses none that is up.
EstablishedCounted ==
    /\ Cardinality({c \in Conns : Running(c) /\ conn[c].state = "Established"})
         <= metrics.sessions_established
    /\ metrics.sessions_established
         <= Cardinality({c \in Conns : conn[c].phase # "unused"})

\* The Loc-RIB gauge errs upwards only: the RIB grows nowhere but in the
\* handler that stores the gauge, so whatever other sessions remove in
\* between, the Loc-RIB has at most as many routes as the gauge says.
LocRibGaugeNotBehind == LocRibSize(loc_rib) <= metrics.routes_loc_rib

\* Routes are never marked stale: handle_disconnect is reached in Idle or in
\* a state before Established only, never in the state of its first branch.
NeverStale ==
    \A p \in Peers, k \in Prefixes :
        adj_rib_in[p][k] # NoRoute => ~adj_rib_in[p][k].stale

\* Once the remote end closed the connection, the session ends and takes the
\* routes of its address along, unless it ends in an error.
ClosedPeerRoutesRemoved ==
    \A c \in Conns :
        (Running(c) /\ conn[c].remote = "closed")
            ~> \/ conn[c].phase = "failed"
               \/ conn[c].phase = "closed" /\ RoutesOf(conn[c].addr) = {}

-----------------------------------------------------------------------------
(* What the documentation says and the code does not do *)

\* peer.rs:178: a peer that negotiated Graceful Restart keeps its routes when
\* its Established session ends.
GracefulRestartKeepsRoutes ==
    [][\A c \in Conns :
         (/\ Running(c) /\ conn[c].state = "Established" /\ conn[c].gr
          /\ conn'[c].phase = "closed")
         => \A k \in RoutesOf(conn[c].addr) : adj_rib_in'[conn[c].addr][k] # NoRoute
      ]_vars

\* rib.rs:217 and peer.rs:179: the routes of a disconnected peer are removed,
\* however its session ended.
RoutesNeedRunningSession ==
    \A p \in Peers : RoutesOf(p) # {} =>
        \E c \in Conns : Running(c) /\ conn[c].addr = p
=============================================================================
