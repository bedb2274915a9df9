----------------------------- MODULE Dampening ------------------------------
(***************************************************************************)
(* Route flap dampening (dampening.rs): what the DampeningTable does to    *)
(* the entry of one (peer, prefix) pair.                                   *)
(*                                                                         *)
(* Penalties are natural numbers in a unit the configuration chooses and   *)
(* time is counted in ticks.  The exponential decay of a penalty is a      *)
(* parameter, of which only what the proofs need is assumed: a penalty     *)
(* never grows by waiting.                                                 *)
(***************************************************************************)
EXTENDS Option

CONSTANTS
    FlapPenalty,        \* DampeningConfig.penalty_per_flap
    SuppressLimit,      \* DampeningConfig.suppress_limit
    ReuseLimit,         \* DampeningConfig.reuse_limit
    MaxSuppressTime,    \* DampeningConfig.max_suppress_time, in ticks
    Decay(_, _),        \* Decay(penalty, elapsed ticks)
    MaxPenalty,         \* bound: largest penalty the model lets accumulate
    MaxTime             \* bound: last tick of the model

ASSUME DampeningAssumption ==
    /\ FlapPenalty \in Nat
    /\ SuppressLimit \in Nat
    /\ ReuseLimit \in Nat
    /\ MaxSuppressTime \in Nat
    /\ MaxPenalty \in Nat
    /\ MaxTime \in Nat
    /\ \A p \in 0..MaxPenalty, e \in 0..MaxTime : Decay(p, e) \in 0..p

\* suppress_count is left out: nothing reads it.
PrefixDampening ==
    [penalty : Nat, suppressed : BOOLEAN, suppressed_at : OptNat,
     last_decay : Nat]

NewEntry(t) ==
    [penalty |-> 0, suppressed |-> FALSE, suppressed_at |-> None,
     last_decay |-> t]

\* PrefixDampening::decay.
Decayed(e, t) ==
    IF t > e.last_decay
    THEN [e EXCEPT !.penalty = Decay(e.penalty, t - e.last_decay),
                   !.last_decay = t]
    ELSE e

\* Mutant of Flapped: every flap above the limit starts the suppression anew.
FlappedRestarting(e, t) ==
    LET d == Decayed(e, t)
        p == d.penalty + FlapPenalty
    IN  IF p >= SuppressLimit
        THEN [d EXCEPT !.penalty = p, !.suppressed = TRUE, !.suppressed_at = t]
        ELSE [d EXCEPT !.penalty = p]

\* DampeningTable::record_withdrawal on an entry, created by the caller when
\* the pair has none.
Flapped(e, t) ==
    LET d == Decayed(e, t)
        p == d.penalty + FlapPenalty
    IN  IF ~d.suppressed /\ p >= SuppressLimit
        THEN [d EXCEPT !.penalty = p, !.suppressed = TRUE, !.suppressed_at = t]
        ELSE [d EXCEPT !.penalty = p]

\* Mutant of SuppressionOver: the longest time of a suppression is not looked at.
SuppressionOverDecayed(d, t) == d.suppressed /\ d.penalty < ReuseLimit

\* Both ways check_advertisement lifts a suppression.
SuppressionOver(d, t) ==
    \/ d.suppressed_at # None /\ t - d.suppressed_at >= MaxSuppressTime
    \/ d.suppressed /\ d.penalty < ReuseLimit

\* DampeningTable::check_advertisement on an existing entry; the method
\* returns the suppressed flag it leaves behind.
Checked(e, t) ==
    LET d == Decayed(e, t)
    IN  IF SuppressionOver(d, t)
        THEN [d EXCEPT !.suppressed = FALSE, !.suppressed_at = None]
        ELSE d
=============================================================================
