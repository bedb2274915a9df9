------------------------------ MODULE Channel -------------------------------
(***************************************************************************)
(* What a BGP session is to those who use it: a channel that hands over    *)
(* the messages put into it once each and in their order.  It may break,   *)
(* and then hands over nothing more; one that does not break hands over    *)
(* all of them.  Bytes, reads and buffers do not show.                     *)
(***************************************************************************)
EXTENDS Naturals, Sequences, SequencesExt

CONSTANT MaxMessages    \* bound: messages that are put in

VARIABLES
    sent,       \* the messages put in so far
    received,   \* the messages taken out so far
    broken      \* nothing more comes out

channelVars == <<sent, received, broken>>

Init == sent = <<>> /\ received = <<>> /\ broken = FALSE

\* More messages are put in, be it that nobody takes them.
Put == IsStrictPrefix(sent, sent') /\ UNCHANGED <<received, broken>>

\* The next message is taken out, which may be the end of it.
Take ==
    /\ ~broken
    /\ Len(received) < Len(sent)
    /\ received' = Append(received, sent[Len(received) + 1])
    /\ broken' \in BOOLEAN
    /\ sent' = sent

Break == ~broken /\ broken' = TRUE /\ UNCHANGED <<sent, received>>

Next == Put \/ Take \/ Break

\* Nothing that is put into a channel stays in, unless it breaks.
Delivery ==
    \A n \in 1..MaxMessages : (Len(sent) >= n) ~> (Len(received) >= n \/ broken)

Spec == Init /\ [][Next]_channelVars /\ Delivery
=============================================================================
