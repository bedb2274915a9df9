--------------------------- MODULE SessionProofs ----------------------------
(***************************************************************************)
(* Proofs about one session in time, for any local hold time and any hold  *)
(* times that remote ends propose: what Session checks for a few of them.  *)
(***************************************************************************)
EXTENDS Session, TLAPS

\* Peer::transition leads from states to states, and an event of the session
\* loop brings Established about in one way only.
LEMMA Transitions ==
    ASSUME NEW s \in BgpState, NEW event
    PROVE  /\ Transition(s, event) \in BgpState
           /\ Transition(s, event) = "Established" =>
                \/ s = "Established"
                \/ s = "OpenConfirm" /\ event = "KeepAliveMsg"
           /\ Transition(s, event) = "OpenConfirm" =>
                \/ s = "OpenConfirm"
                \/ event = "BgpOpen"
           /\ (s = "Idle" /\ event # "ManualStart") => Transition(s, event) = "Idle"
  BY DEF Transition, BgpState

\* Sessions enter the loop in OpenSent.
LEMMA Incoming == IncomingState = "OpenSent"
  BY DEF IncomingState, Transition

-----------------------------------------------------------------------------
(* The timers *)

\* BgpTimers::new: neither timer runs.
LEMMA FreshTimers ==
    ASSUME NEW hold \in Nat
    PROVE  /\ NewTimers(hold) \in BgpTimers
           /\ NewTimers(hold).hold_time = hold
           /\ NewTimers(hold).keepalive_interval = hold \div 3
           /\ NewTimers(hold).hold_age = None
           /\ NewTimers(hold).keepalive_age = None
  <1>1. hold \div 3 \in Nat
    OBVIOUS
  <1> QED  BY <1>1 DEF NewTimers, BgpTimers, OptNat

\* The fields that a reset changes, and those it leaves alone.
LEMMA TimerResets ==
    ASSUME NEW t \in BgpTimers
    PROVE  /\ ResetHoldTimer(t) \in BgpTimers
           /\ ResetHoldTimer(t).hold_time = t.hold_time
           /\ ResetHoldTimer(t).keepalive_interval = t.keepalive_interval
           /\ ResetHoldTimer(t).keepalive_age = t.keepalive_age
           /\ t.hold_time > 0 => ResetHoldTimer(t).hold_age = 0
           /\ ResetKeepaliveTimer(t) \in BgpTimers
           /\ ResetKeepaliveTimer(t).hold_time = t.hold_time
           /\ ResetKeepaliveTimer(t).keepalive_interval = t.keepalive_interval
           /\ ResetKeepaliveTimer(t).hold_age = t.hold_age
           /\ t.keepalive_interval > 0 => ResetKeepaliveTimer(t).keepalive_age = 0
  BY DEF BgpTimers, OptNat, ResetHoldTimer, ResetKeepaliveTimer

\* A second makes an age older by at most one, and by one below its limit.
LEMMA OlderIsNext ==
    ASSUME NEW age \in OptNat, NEW limit \in Nat
    PROVE  /\ Older(age, limit) \in OptNat
           /\ Older(age, limit) = None <=> age = None
           /\ age # None => Older(age, limit) \in Nat
           /\ age # None => /\ Older(age, limit) <= age + 1
                            /\ age <= limit => Older(age, limit) <= limit
                            /\ age < limit => Older(age, limit) = age + 1
  BY NoneAssumption DEF Older, OptNat

\* The same for both timers.
LEMMA AgedTimers ==
    ASSUME NEW t \in BgpTimers
    PROVE  /\ Aged(t) \in BgpTimers
           /\ Aged(t).hold_time = t.hold_time
           /\ Aged(t).keepalive_interval = t.keepalive_interval
           /\ Aged(t).hold_age = Older(t.hold_age, t.hold_time)
           /\ Aged(t).keepalive_age = Older(t.keepalive_age, t.keepalive_interval)
  <1>1. /\ t.hold_age \in OptNat /\ t.hold_time \in Nat
        /\ t.keepalive_age \in OptNat /\ t.keepalive_interval \in Nat
    BY DEF BgpTimers
  <1>2. /\ Older(t.hold_age, t.hold_time) \in OptNat
        /\ Older(t.keepalive_age, t.keepalive_interval) \in OptNat
    BY <1>1, OlderIsNext
  <1> QED  BY <1>2 DEF Aged, BgpTimers

-----------------------------------------------------------------------------
(* Type correctness *)

\* The hold time that an OPEN leads to.
LEMMA Negotiated ==
    ASSUME NEW hold \in HoldTimes
    PROVE  (IF hold < LocalHoldTime THEN hold ELSE LocalHoldTime) \in Nat
  BY SessionAssumption

\* What handle_message does with the timers at an OPEN.
LEMMA OpenTimers ==
    ASSUME NEW hold \in HoldTimes, RecvOpen(hold)
    PROVE  /\ timers' \in BgpTimers
           /\ timers'.keepalive_interval = timers'.hold_time \div 3
           /\ timers'.keepalive_age = None
           /\ timers'.hold_time > 0 => timers'.hold_age = 0
  <1> DEFINE negotiated == IF hold < LocalHoldTime THEN hold ELSE LocalHoldTime
  <1>1. negotiated \in Nat
    BY Negotiated
  <1>2. timers' = ResetHoldTimer(NewTimers(negotiated))
    BY DEF RecvOpen
  <1> HIDE DEF negotiated
  <1> QED  BY <1>1, <1>2, FreshTimers, TimerResets

\* What it does at a KEEPALIVE.
LEMMA KeepaliveTimers ==
    ASSUME timers \in BgpTimers, RecvKeepalive
    PROVE  /\ timers' \in BgpTimers
           /\ timers'.hold_time = timers.hold_time
           /\ timers'.keepalive_interval = timers.keepalive_interval
           /\ timers'.hold_time > 0 => timers'.hold_age = 0
           /\ state # "OpenConfirm" => timers'.keepalive_age = timers.keepalive_age
           /\ (state = "OpenConfirm" /\ timers.keepalive_interval > 0)
                => timers'.keepalive_age = 0
  <1> DEFINE reset == ResetHoldTimer(timers)
  <1>1. timers' = IF state = "OpenConfirm" THEN ResetKeepaliveTimer(reset) ELSE reset
    BY DEF RecvKeepalive
  <1>2. /\ reset \in BgpTimers
        /\ reset.hold_time = timers.hold_time
        /\ reset.keepalive_interval = timers.keepalive_interval
        /\ reset.keepalive_age = timers.keepalive_age
        /\ reset.hold_time > 0 => reset.hold_age = 0
    BY TimerResets
  <1> HIDE DEF reset
  <1>3. /\ ResetKeepaliveTimer(reset) \in BgpTimers
        /\ ResetKeepaliveTimer(reset).hold_time = reset.hold_time
        /\ ResetKeepaliveTimer(reset).keepalive_interval = reset.keepalive_interval
        /\ ResetKeepaliveTimer(reset).hold_age = reset.hold_age
        /\ reset.keepalive_interval > 0 => ResetKeepaliveTimer(reset).keepalive_age = 0
    BY <1>2, TimerResets
  <1> QED  BY <1>1, <1>2, <1>3

\* Types are preserved by every step.
LEMMA TypeStep == TypeOK /\ [Next]_vars => TypeOK'
  <1> SUFFICES ASSUME TypeOK, [Next]_vars PROVE TypeOK'
    OBVIOUS
  <1> USE DEF TypeOK
  <1>1. CASE SendOpen
    BY <1>1, SessionAssumption DEF SendOpen
  <1>2. CASE HoldExpires
    BY <1>2, SessionAssumption, Transitions DEF HoldExpires
  <1>3. CASE CheckTimers
    BY <1>3, SessionAssumption, TimerResets DEF CheckTimers
  <1>4. CASE Tick
    <2>1. LocalHoldTime + 1 \in Nat /\ silence \in OptNat /\ silence # None
      BY SessionAssumption, NoneAssumption DEF OptNat
    <2>2. silence' = Older(silence, LocalHoldTime + 1)
      BY <1>4 DEF Tick
    <2>3. silence' \in 0..(LocalHoldTime + 1)
      BY <2>1, <2>2, OlderIsNext
    <2> QED  BY <1>4, <2>3, AgedTimers DEF Tick
  <1>5. CASE Eof \/ ReadFails
    BY <1>5, Transitions DEF Eof, ReadFails
  <1>6. CASE WriteFails
    BY <1>6 DEF WriteFails
  <1>7. CASE ParseFails
    BY <1>7 DEF ParseFails, Receive
  <1>8. ASSUME NEW hold \in HoldTimes, RecvOpen(hold)
        PROVE  TypeOK'
    BY <1>8, OpenTimers, Transitions, SessionAssumption DEF RecvOpen, Receive
  <1>9. CASE RecvKeepalive
    BY <1>9, KeepaliveTimers, Transitions DEF RecvKeepalive, Receive
  <1>10. CASE RecvUpdate
    BY <1>10, TimerResets, Transitions DEF RecvUpdate, Receive
  <1>11. CASE RecvNotification \/ RecvRouteRefresh
    BY <1>11, Transitions DEF RecvNotification, RecvRouteRefresh, Receive
  <1>12. CASE RemoteFallsSilent \/ RemoteCloses
    BY <1>12 DEF RemoteFallsSilent, RemoteCloses
  <1>13. CASE UNCHANGED vars
    BY <1>13 DEF vars
  <1> QED
    BY <1>1, <1>2, <1>3, <1>4, <1>5, <1>6, <1>7, <1>8, <1>9, <1>10, <1>11,
       <1>12, <1>13 DEF Next

\* The initial values have their types.
LEMMA InitTypes == Init => TypeOK
  <1>1. NewTimers(LocalHoldTime) \in BgpTimers
    BY FreshTimers, SessionAssumption
  <1>2. 0 \in 0..(LocalHoldTime + 1)
    BY SessionAssumption
  <1> QED  BY <1>1, <1>2, Incoming DEF Init, TypeOK, BgpState

\* The variables of a session always have their types, whatever messages come
\* when and whatever hold times are negotiated.
THEOREM SessionTypeCorrect == Spec => []TypeOK
  BY InitTypes, TypeStep, PTL DEF Spec

-----------------------------------------------------------------------------
(* Supervision and keepalives *)

\* Ages and limits of the timers, and the proportion of the two limits.
TimersInv ==
    /\ timers.keepalive_interval = timers.hold_time \div 3
    /\ opened /\ timers.hold_time > 0 => timers.hold_age # None

\* A session is past OpenSent only after an OPEN.
HandshakeInv == state \in {"OpenConfirm", "Established"} => opened

\* While the loop waits, no timer is overdue: the head of the loop saw to it.
WaitingInv ==
    pc = "select" =>
        /\ (timers.hold_time > 0 /\ timers.hold_age # None)
             => timers.hold_age < timers.hold_time
        /\ (state = "Established" /\ timers.keepalive_interval > 0)
             => /\ timers.keepalive_age # None
                /\ timers.keepalive_age < timers.keepalive_interval

\* The keepalive timer is nearly as old as our last message: it starts with
\* the KEEPALIVE that completes the handshake, which may come ConfirmDelay
\* after ours, and again with every KEEPALIVE we send.  A further OPEN stops
\* it and is answered at once.
KeepaliveInv ==
    (state = "Established" /\ timers.keepalive_interval > 0) =>
        IF timers.keepalive_age = None THEN silence = 0
        ELSE silence <= ConfirmDelay + timers.keepalive_age

\* The inductive invariant of the session.
SessionInv == TypeOK /\ TimersInv /\ HandshakeInv /\ WaitingInv /\ KeepaliveInv

\* The head of the loop: what it lets through is not overdue.
LEMMA CheckStep == SessionInv /\ CheckTimers => SessionInv'
  <1> SUFFICES ASSUME SessionInv, CheckTimers PROVE SessionInv'
    OBVIOUS
  <1>1. TypeOK'
    BY TypeStep DEF SessionInv, Next
  <1>2. timers \in BgpTimers /\ timers.hold_time \in Nat /\ timers.keepalive_interval \in Nat
        /\ timers.hold_age \in OptNat /\ timers.keepalive_age \in OptNat /\ silence \in Nat
    BY SessionAssumption DEF SessionInv, TypeOK, BgpTimers
  <1>3. CASE state = "Established" /\ KeepaliveDue(timers)
    <2>1. timers' = ResetKeepaliveTimer(timers) /\ silence' = 0
      BY <1>3 DEF CheckTimers
    <2>2. /\ timers'.hold_time = timers.hold_time
          /\ timers'.keepalive_interval = timers.keepalive_interval
          /\ timers'.hold_age = timers.hold_age
          /\ timers.keepalive_interval > 0
          /\ timers'.keepalive_age = 0
      BY <1>2, <1>3, <2>1, TimerResets DEF KeepaliveDue
    <2> QED
      BY <1>1, <1>2, <2>1, <2>2, SessionAssumption, NoneAssumption
      DEF CheckTimers, HoldTimerExpired, SessionInv, TimersInv, HandshakeInv,
          WaitingInv, KeepaliveInv, OptNat
  <1>4. CASE ~(state = "Established" /\ KeepaliveDue(timers))
    <2>1. timers' = timers /\ silence' = silence
      BY <1>4 DEF CheckTimers
    <2> QED
      BY <1>1, <1>2, <1>4, <2>1, NoneAssumption
      DEF CheckTimers, HoldTimerExpired, KeepaliveDue, SessionInv, TimersInv,
          HandshakeInv, WaitingInv, KeepaliveInv, OptNat
  <1> QED  BY <1>3, <1>4

\* A second passes: the keepalive timer ages with the silence.
LEMMA TickStep == SessionInv /\ Tick => SessionInv'
  <1> SUFFICES ASSUME SessionInv, Tick PROVE SessionInv'
    OBVIOUS
  <1>1. TypeOK'
    BY TypeStep DEF SessionInv, Next
  <1>2. /\ timers \in BgpTimers /\ timers.hold_time \in Nat
        /\ timers.keepalive_interval \in Nat /\ timers.hold_age \in OptNat
        /\ timers.keepalive_age \in OptNat /\ silence \in Nat
        /\ silence \in OptNat /\ LocalHoldTime + 1 \in Nat
    BY SessionAssumption DEF SessionInv, TypeOK, BgpTimers, OptNat
  <1>3. /\ timers'.hold_time = timers.hold_time
        /\ timers'.keepalive_interval = timers.keepalive_interval
        /\ timers'.hold_age = Older(timers.hold_age, timers.hold_time)
        /\ timers'.keepalive_age = Older(timers.keepalive_age, timers.keepalive_interval)
    BY <1>2, AgedTimers DEF Tick
  <1>4. silence' \in Nat /\ silence' <= silence + 1
    BY <1>2, OlderIsNext, NoneAssumption DEF Tick
  <1>5. TimersInv' /\ HandshakeInv' /\ WaitingInv'
    BY <1>2, <1>3, OlderIsNext DEF Tick, SessionInv, TimersInv, HandshakeInv, WaitingInv
  <1>6. KeepaliveInv'
    <2> SUFFICES ASSUME state' = "Established", timers'.keepalive_interval > 0
                 PROVE  /\ timers'.keepalive_age # None
                        /\ silence' <= ConfirmDelay + timers'.keepalive_age
      BY DEF KeepaliveInv
    <2>1. /\ timers.keepalive_age # None
          /\ timers.keepalive_age \in Nat
          /\ timers.keepalive_age < timers.keepalive_interval
          /\ silence <= ConfirmDelay + timers.keepalive_age
      BY <1>2, <1>3 DEF Tick, SessionInv, WaitingInv, KeepaliveInv, OptNat
    <2>2. timers'.keepalive_age = timers.keepalive_age + 1
      BY <1>2, <1>3, <2>1, OlderIsNext
    <2>3. timers'.keepalive_age \in Nat /\ timers'.keepalive_age # None
      BY <2>1, <2>2, NoneAssumption
    <2> QED  BY <1>2, <1>4, <2>1, <2>2, <2>3, SessionAssumption
  <1> QED  BY <1>1, <1>5, <1>6 DEF SessionInv

\* An OPEN, in whatever state.
LEMMA OpenStep ==
    ASSUME SessionInv, NEW hold \in HoldTimes, RecvOpen(hold)
    PROVE  SessionInv'
  <1>1. TypeOK'
    BY TypeStep DEF SessionInv, Next
  <1>2. /\ timers'.keepalive_interval = timers'.hold_time \div 3
        /\ timers'.keepalive_age = None
        /\ timers'.hold_time > 0 => timers'.hold_age = 0
    BY OpenTimers
  <1>3. pc' # "select" /\ opened' /\ silence' = 0
    BY DEF RecvOpen
  <1> QED
    BY <1>1, <1>2, <1>3, NoneAssumption
    DEF SessionInv, TimersInv, HandshakeInv, WaitingInv, KeepaliveInv

\* A KEEPALIVE, which completes the handshake in OpenConfirm.
LEMMA KeepaliveStep == SessionInv /\ RecvKeepalive => SessionInv'
  <1> SUFFICES ASSUME SessionInv, RecvKeepalive PROVE SessionInv'
    OBVIOUS
  <1>1. TypeOK'
    BY TypeStep DEF SessionInv, Next
  <1>2. timers \in BgpTimers /\ state \in BgpState /\ silence \in Nat
    BY SessionAssumption DEF SessionInv, TypeOK
  <1>3. /\ timers'.hold_time = timers.hold_time
        /\ timers'.keepalive_interval = timers.keepalive_interval
        /\ timers'.hold_time > 0 => timers'.hold_age = 0
        /\ state # "OpenConfirm" => timers'.keepalive_age = timers.keepalive_age
        /\ (state = "OpenConfirm" /\ timers.keepalive_interval > 0)
             => timers'.keepalive_age = 0
    BY <1>2, KeepaliveTimers
  <1>4. /\ pc' # "select" /\ opened' = opened /\ silence' = silence
        /\ state # "OpenConfirm" => state' = state
        /\ state = "OpenConfirm" => silence <= ConfirmDelay
    BY DEF RecvKeepalive
  <1>5. TimersInv' /\ WaitingInv'
    BY <1>3, <1>4, NoneAssumption DEF SessionInv, TimersInv, WaitingInv
  <1>6. HandshakeInv'
    BY <1>4 DEF SessionInv, HandshakeInv
  <1>7. KeepaliveInv'
    BY <1>2, <1>3, <1>4, SessionAssumption, NoneAssumption DEF SessionInv, KeepaliveInv
  <1> QED  BY <1>1, <1>5, <1>6, <1>7 DEF SessionInv

\* The messages and the events that leave the keepalive timer alone and end the
\* wait or change the remote end only.
LEMMA OtherSteps ==
    ASSUME SessionInv,
           \/ SendOpen \/ HoldExpires \/ Eof \/ ReadFails \/ WriteFails \/ ParseFails
           \/ RecvUpdate \/ RecvNotification \/ RecvRouteRefresh
           \/ RemoteFallsSilent \/ RemoteCloses \/ UNCHANGED vars
    PROVE  SessionInv'
  <1>1. TypeOK'
    BY TypeStep DEF SessionInv, Next
  <1>2. timers \in BgpTimers /\ state \in BgpState /\ silence \in Nat
    BY SessionAssumption DEF SessionInv, TypeOK
  <1>3. /\ timers'.hold_time = timers.hold_time
        /\ timers'.keepalive_interval = timers.keepalive_interval
        /\ timers'.keepalive_age = timers.keepalive_age
        /\ \/ timers'.hold_age = timers.hold_age
           \/ timers'.hold_time > 0 => timers'.hold_age = 0
    BY <1>2, TimerResets
    DEF SendOpen, HoldExpires, Eof, ReadFails, WriteFails, ParseFails, RecvUpdate,
        RecvNotification, RecvRouteRefresh, RemoteFallsSilent, RemoteCloses, vars
  <1>4. opened' = opened /\ silence' \in {0, silence}
    BY DEF SendOpen, HoldExpires, Eof, ReadFails, WriteFails, ParseFails, RecvUpdate,
       RecvNotification, RecvRouteRefresh, RemoteFallsSilent, RemoteCloses, vars
  <1>5. \/ pc' # "select"
        \/ pc' = pc /\ state' = state /\ timers' = timers /\ silence' = silence
    BY DEF SendOpen, HoldExpires, Eof, ReadFails, WriteFails, ParseFails, RecvUpdate,
       RecvNotification, RecvRouteRefresh, RemoteFallsSilent, RemoteCloses, vars
  <1>6. \/ state' = state
        \/ \E event \in {"HoldTimerExpired", "TcpConnectionFail", "UpdateMsg", "NotifMsg"} :
             state' = Transition(state, event)
    BY DEF SendOpen, HoldExpires, Eof, ReadFails, WriteFails, ParseFails, RecvUpdate,
       RecvNotification, RecvRouteRefresh, RemoteFallsSilent, RemoteCloses, vars
  <1>7. /\ state' = "Established" => state = "Established"
        /\ state' = "OpenConfirm" => state = "OpenConfirm"
    BY <1>2, <1>6, Transitions
  <1>8. TimersInv' /\ HandshakeInv' /\ WaitingInv'
    BY <1>3, <1>4, <1>5, <1>7, NoneAssumption
    DEF SessionInv, TimersInv, HandshakeInv, WaitingInv
  <1>9. KeepaliveInv'
    <2>1. timers.keepalive_age \in OptNat
      BY <1>2 DEF BgpTimers
    <2> QED
      BY <1>2, <1>3, <1>4, <1>7, <2>1, SessionAssumption DEF SessionInv, KeepaliveInv, OptNat
  <1> QED  BY <1>1, <1>8, <1>9 DEF SessionInv

\* The inductive invariant holds in every reachable state.
THEOREM SessionInvariant == Spec => []SessionInv
  <1>1. Init => SessionInv
    <2> SUFFICES ASSUME Init PROVE SessionInv
      OBVIOUS
    <2>1. TypeOK
      BY InitTypes
    <2>2. timers.keepalive_interval = timers.hold_time \div 3
      BY FreshTimers, SessionAssumption DEF Init
    <2> QED
      BY <2>1, <2>2, Incoming
      DEF Init, SessionInv, TimersInv, HandshakeInv, WaitingInv, KeepaliveInv
  <1>2. SessionInv /\ [Next]_vars => SessionInv'
    BY CheckStep, TickStep, OpenStep, KeepaliveStep, OtherSteps DEF Next
  <1> QED  BY <1>1, <1>2, PTL DEF Spec

\* No Established session is without supervision: the handshake came first,
\* the hold timer runs, and while the loop waits it has not run out, for any
\* hold times and any order of messages.
THEOREM SessionSupervised == Spec => []EstablishedSupervised
  <1>1. SessionInv => EstablishedSupervised
    BY DEF SessionInv, TimersInv, HandshakeInv, WaitingInv, EstablishedSupervised
  <1> QED  BY <1>1, SessionInvariant, PTL

\* Our KEEPALIVEs are in time for every hold time of 3 seconds and more: the
\* third of the hold time after which the next is due leaves room for a
\* remote end that confirms within ConfirmDelay.
THEOREM SessionKeepalives == Spec => []KeepalivesInTime
  <1>1. SessionInv => KeepalivesInTime
    <2> SUFFICES ASSUME SessionInv, state = "Established", timers.hold_time >= 3,
                        pc = "select"
                 PROVE  silence < timers.hold_time
      BY DEF KeepalivesInTime
    <2>1. /\ timers.hold_time \in Nat
          /\ timers.keepalive_interval = timers.hold_time \div 3
          /\ timers.keepalive_age \in OptNat
          /\ silence \in Nat
      BY SessionAssumption DEF SessionInv, TypeOK, BgpTimers, TimersInv
    <2>2. timers.keepalive_interval \in Nat /\ timers.keepalive_interval > 0
          /\ 3 * timers.keepalive_interval <= timers.hold_time
      BY <2>1
    <2>3. /\ timers.keepalive_age \in Nat
          /\ timers.keepalive_age < timers.keepalive_interval
          /\ silence <= ConfirmDelay + timers.keepalive_age
      BY <2>1, <2>2 DEF SessionInv, WaitingInv, KeepaliveInv, OptNat
    <2> QED  BY <2>1, <2>2, <2>3, SessionAssumption
  <1> QED  BY <1>1, SessionInvariant, PTL

\* A session that a NOTIFICATION took back to Idle stays there, whatever comes
\* after it: only ManualStart leaves Idle, and the loop never raises it.
THEOREM SessionIdleFinal == Spec => IdleIsFinal
  <1>1. TypeOK /\ [Next]_vars => [state = "Idle" => state' = "Idle"]_vars
    <2> SUFFICES ASSUME TypeOK, Next, state = "Idle"
                 PROVE  state' = "Idle"
      OBVIOUS
    <2>1. \/ state' = state
          \/ \E event \in BgpEvent \ {"ManualStart"} : state' = Transition(state, event)
      BY DEF Next, SendOpen, HoldExpires, CheckTimers, Tick, Eof, ReadFails, WriteFails,
         ParseFails, RecvOpen, RecvKeepalive, RecvUpdate, RecvNotification,
         RecvRouteRefresh, RemoteFallsSilent, RemoteCloses, BgpEvent
    <2> QED  BY <2>1, Transitions DEF TypeOK
  <1> QED  BY <1>1, SessionTypeCorrect, PTL DEF Spec, IdleIsFinal
=============================================================================
