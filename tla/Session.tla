------------------------------ MODULE Session -------------------------------
(***************************************************************************)
(* The event loop of one session in time (peer.rs, run_session and         *)
(* handle_message): handshake, hold timer and keepalives.  What a session  *)
(* does to the shared RIB and to the metrics is in Daemon.                 *)
(*                                                                         *)
(* A step of time is one second.  The loop waits at most 100 ms in its     *)
(* select, so it checks its timers between any two seconds: Tick wakes it  *)
(* up.  The remote end sends any message at any time, falls silent without *)
(* closing the connection, or closes it.                                   *)
(***************************************************************************)
EXTENDS Timers, Fsm

CONSTANTS
    LocalHoldTime,  \* LocalConfig.hold_time
    HoldTimes,      \* hold times that a remote OPEN may propose
    ConfirmDelay    \* seconds between a remote's OPEN and its first KEEPALIVE

\* A remote end that took longer could not keep the shortest hold time, 3.
ASSUME SessionAssumption ==
    /\ LocalHoldTime \in Nat
    /\ HoldTimes \subseteq Nat
    /\ ConfirmDelay \in 0..2

VARIABLES
    pc,         \* "open": sending our OPEN, "check": top of the loop,
                \* "select": waiting for data, "done": returned Ok,
                \* "failed": returned Err
    state,      \* Peer.state
    timers,     \* Peer.timers
    opened,     \* an OPEN was parsed (Peer.peer_router_id is set)
    remote,     \* "alive", "silent" (crashed or unreachable) or "closed"
    silence     \* seconds since our last message, up to LocalHoldTime + 1

vars == <<pc, state, timers, opened, remote, silence>>

Ended == pc \in {"done", "failed"}

\* handle_incoming and Peer::new
Init ==
    /\ pc = "open"
    /\ state = IncomingState
    /\ timers = NewTimers(LocalHoldTime)
    /\ opened = FALSE
    /\ remote = "alive"
    /\ silence = 0

-----------------------------------------------------------------------------
(* The loop *)

SendOpen ==
    /\ pc = "open"
    /\ pc' = "check"
    /\ silence' = 0
    /\ UNCHANGED <<state, timers, opened, remote>>

\* Mutant of HoldExpires: the timer is acted upon in Established only.
HoldExpiresEstablished ==
    /\ pc = "check"
    /\ HoldTimerExpired(timers)
    /\ state = "Established"
    /\ state' = Transition(state, "HoldTimerExpired")
    /\ pc' = "done"
    /\ silence' = 0
    /\ UNCHANGED <<timers, opened, remote>>

\* The head of the loop: NOTIFICATION, and the session ends.
HoldExpires ==
    /\ pc = "check"
    /\ HoldTimerExpired(timers)
    /\ state' = Transition(state, "HoldTimerExpired")
    /\ pc' = "done"
    /\ silence' = 0     \* the NOTIFICATION
    /\ UNCHANGED <<timers, opened, remote>>

\* A KEEPALIVE is sent if due, in Established only; then the loop waits.
CheckTimers ==
    /\ pc = "check"
    /\ ~HoldTimerExpired(timers)
    /\ IF state = "Established" /\ KeepaliveDue(timers)
       THEN timers' = ResetKeepaliveTimer(timers) /\ silence' = 0
       ELSE UNCHANGED <<timers, silence>>
    /\ pc' = "select"
    /\ UNCHANGED <<state, opened, remote>>

\* Mutant of Eof: the end of the stream matters in Established only.
EofEstablished ==
    /\ pc = "select"
    /\ remote = "closed"
    /\ state = "Established"
    /\ state' = Transition(state, "TcpConnectionFail")
    /\ pc' = "done"
    /\ UNCHANGED <<timers, opened, remote, silence>>

\* The read returns no bytes.
Eof ==
    /\ pc = "select"
    /\ remote = "closed"
    /\ state' = Transition(state, "TcpConnectionFail")
    /\ pc' = "done"
    /\ UNCHANGED <<timers, opened, remote, silence>>

ReadFails ==
    /\ pc = "select"
    /\ state' = Transition(state, "TcpConnectionFail")
    /\ pc' = "failed"
    /\ UNCHANGED <<timers, opened, remote, silence>>

\* Our OPEN or a KEEPALIVE that is due cannot be written.
WriteFails ==
    /\ \/ pc = "open"
       \/ /\ pc = "check"
          /\ ~HoldTimerExpired(timers)
          /\ state = "Established" /\ KeepaliveDue(timers)
    /\ pc' = "failed"
    /\ UNCHANGED <<state, timers, opened, remote, silence>>

\* The sleep of 100 ms ends, a second later than the previous check.  The
\* read of a closed connection is ready at once and wins the select.
Tick ==
    /\ pc = "select"
    /\ remote # "closed"
    /\ pc' = "check"
    /\ timers' = Aged(timers)
    /\ silence' = Older(silence, LocalHoldTime + 1)
    /\ UNCHANGED <<state, opened, remote>>

-----------------------------------------------------------------------------
(* handle_message *)

Receive ==
    /\ pc = "select"
    /\ remote = "alive"
    /\ UNCHANGED remote

\* The header or the body of a message does not parse.
ParseFails ==
    /\ Receive
    /\ pc' = "failed"
    /\ UNCHANGED <<state, timers, opened, silence>>

\* OPEN, in whatever state: the hold time is renegotiated, both timers are
\* new, and a KEEPALIVE answers it, which may fail to be written.
RecvOpen(hold) ==
    /\ Receive
    /\ pc' \in {"check", "failed"}
    /\ LET negotiated == IF hold < LocalHoldTime THEN hold ELSE LocalHoldTime
       IN  timers' = ResetHoldTimer(NewTimers(negotiated))
    /\ state' = Transition(state, "BgpOpen")
    /\ opened' = TRUE
    /\ silence' = 0

RecvKeepalive ==
    /\ Receive
    /\ pc' = "check"
    /\ state = "OpenConfirm" => silence <= ConfirmDelay
    /\ LET reset == ResetHoldTimer(timers)
       IN  timers' = IF state = "OpenConfirm" THEN ResetKeepaliveTimer(reset)
                     ELSE reset
    /\ state' = IF state = "OpenConfirm" THEN Transition(state, "KeepAliveMsg")
                ELSE state
    /\ UNCHANGED <<opened, silence>>

RecvUpdate ==
    /\ Receive
    /\ pc' = "check"
    /\ timers' = ResetHoldTimer(timers)
    /\ state' = Transition(state, "UpdateMsg")
    /\ UNCHANGED <<opened, silence>>

\* The loop goes on after a NOTIFICATION.
RecvNotification ==
    /\ Receive
    /\ pc' = "check"
    /\ state' = Transition(state, "NotifMsg")
    /\ UNCHANGED <<timers, opened, silence>>

RecvRouteRefresh ==
    /\ Receive
    /\ pc' = "check"
    /\ UNCHANGED <<state, timers, opened, silence>>

-----------------------------------------------------------------------------
(* The remote end *)

RemoteFallsSilent ==
    /\ ~Ended
    /\ remote = "alive"
    /\ remote' = "silent"
    /\ UNCHANGED <<pc, state, timers, opened, silence>>

RemoteCloses ==
    /\ ~Ended
    /\ remote = "alive"
    /\ remote' = "closed"
    /\ UNCHANGED <<pc, state, timers, opened, silence>>

Next ==
    \/ SendOpen \/ HoldExpires \/ CheckTimers \/ Tick
    \/ Eof \/ ReadFails \/ WriteFails \/ ParseFails
    \/ \E hold \in HoldTimes : RecvOpen(hold)
    \/ RecvKeepalive \/ RecvUpdate \/ RecvNotification \/ RecvRouteRefresh
    \/ RemoteFallsSilent \/ RemoteCloses

\* The task is polled and time passes; nothing obliges the remote end.
Fairness ==
    /\ WF_vars(SendOpen)
    /\ WF_vars(HoldExpires)
    /\ WF_vars(CheckTimers)
    /\ WF_vars(Eof)
    /\ WF_vars(Tick)

Spec == Init /\ [][Next]_vars /\ Fairness

-----------------------------------------------------------------------------
(* Properties *)

\* Type correctness.
TypeOK ==
    /\ pc \in {"open", "check", "select", "done", "failed"}
    /\ state \in BgpState
    /\ timers \in BgpTimers
    /\ opened \in BOOLEAN
    /\ remote \in {"alive", "silent", "closed"}
    /\ silence \in 0..(LocalHoldTime + 1)

\* An Established session that negotiated a hold time is supervised: OPEN and
\* KEEPALIVE came first, the hold timer runs, and while the loop waits for
\* data it has not reached the hold time.
EstablishedSupervised ==
    state = "Established" =>
        /\ opened
        /\ timers.hold_time > 0 =>
             /\ timers.hold_age # None
             /\ pc = "select" => timers.hold_age < timers.hold_time

\* The remote end never has a reason to expire its own hold timer: in
\* Established, with a hold time of at least 3 seconds and a remote end that
\* confirmed promptly, our last message is younger than the hold time.
KeepalivesInTime ==
    (state = "Established" /\ timers.hold_time >= 3 /\ pc = "select")
        => silence < timers.hold_time

\* A connection is used for one session: after a NOTIFICATION took it back to
\* Idle, neither OPEN nor KEEPALIVE brings it up again.
IdleIsFinal == [][state = "Idle" => state' = "Idle"]_vars

\* A remote end that falls silent while the hold timer runs is noticed, in
\* whichever state the session is.
SilentPeerDetected ==
    (remote = "silent" /\ timers.hold_time > 0 /\ timers.hold_age # None) ~> Ended

\* A connection that the remote end closes is noticed.
CloseDetected == (remote = "closed") ~> Ended
=============================================================================
