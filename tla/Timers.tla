------------------------------- MODULE Timers -------------------------------
(***************************************************************************)
(* Hold and keepalive timers of a session (timer.rs, BgpTimers).           *)
(*                                                                         *)
(* The start instants of the program become ages in seconds, None for a    *)
(* timer that was never started.  An age stops growing at the limit it is  *)
(* compared with: the program asks for nothing but whether it was reached. *)
(***************************************************************************)
EXTENDS Option

BgpTimers ==
    [hold_time : Nat, keepalive_interval : Nat,
     hold_age : OptNat, keepalive_age : OptNat]

\* Mutant of NewTimers: the interval is rounded down without regard to 0.
NewTimersEarly(hold) ==
    [hold_time |-> hold, keepalive_interval |-> (hold - 1) \div 3,
     hold_age |-> None, keepalive_age |-> None]

\* BgpTimers::new; the interval of a hold time of 0 is 0.
NewTimers(hold) ==
    [hold_time |-> hold, keepalive_interval |-> hold \div 3,
     hold_age |-> None, keepalive_age |-> None]

\* Mutant of ResetHoldTimer: the shortest hold time counts as disabled.
ResetHoldTimerShort(t) ==
    IF t.hold_time > 3 THEN [t EXCEPT !.hold_age = 0] ELSE t

\* reset_hold_timer and reset_keepalive_timer
ResetHoldTimer(t) ==
    IF t.hold_time > 0 THEN [t EXCEPT !.hold_age = 0] ELSE t

ResetKeepaliveTimer(t) ==
    IF t.keepalive_interval > 0 THEN [t EXCEPT !.keepalive_age = 0] ELSE t

HoldTimerExpired(t) ==
    /\ t.hold_time > 0
    /\ t.hold_age # None
    /\ t.hold_age >= t.hold_time

\* Mutant of KeepaliveDue: a timer that was never started is not due.
KeepaliveDueStarted(t) ==
    /\ t.keepalive_interval > 0
    /\ t.keepalive_age # None
    /\ t.keepalive_age >= t.keepalive_interval

KeepaliveDue(t) ==
    /\ t.keepalive_interval > 0
    /\ \/ t.keepalive_age = None
       \/ t.keepalive_age # None /\ t.keepalive_age >= t.keepalive_interval

\* One second passes for an age that is compared with limit.
Older(age, limit) ==
    IF age = None \/ age = limit THEN age ELSE age + 1

Aged(t) ==
    [t EXCEPT !.hold_age = Older(@, t.hold_time),
              !.keepalive_age = Older(@, t.keepalive_interval)]
=============================================================================
