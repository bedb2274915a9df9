-------------------------------- MODULE Fsm ---------------------------------
(***************************************************************************)
(* The BGP finite state machine (fsm.rs, and Peer::transition of peer.rs). *)
(***************************************************************************)

BgpState ==
    {"Idle", "Connect", "Active", "OpenSent", "OpenConfirm", "Established"}

BgpEvent ==
    {"ManualStart", "ManualStop", "TcpConnectionConfirmed",
     "TcpConnectionFail", "BgpOpen", "KeepAliveMsg", "UpdateMsg", "NotifMsg",
     "HoldTimerExpired", "KeepaliveTimerExpired"}

\* Mutant of Transition: an OPEN revives a session that went back to Idle.
TransitionReviving(state, event) ==
    CASE event \in {"ManualStop", "HoldTimerExpired"} -> "Idle"
      [] state = "Idle" /\ event = "ManualStart" -> "Connect"
      [] state \in {"Connect", "Active"} /\ event = "TcpConnectionConfirmed"
           -> "OpenSent"
      [] state = "Connect" /\ event = "TcpConnectionFail" -> "Active"
      [] state \in {"Idle", "OpenSent"} /\ event = "BgpOpen" -> "OpenConfirm"
      [] state = "OpenConfirm" /\ event = "KeepAliveMsg" -> "Established"
      [] state = "Established" /\ event \in {"NotifMsg", "TcpConnectionFail"}
           -> "Idle"
      [] OTHER -> state

\* Peer::transition: an event with no arm of its own leaves the state alone.
Transition(state, event) ==
    CASE event \in {"ManualStop", "HoldTimerExpired"} -> "Idle"
      [] state = "Idle" /\ event = "ManualStart" -> "Connect"
      [] state \in {"Connect", "Active"} /\ event = "TcpConnectionConfirmed"
           -> "OpenSent"
      [] state = "Connect" /\ event = "TcpConnectionFail" -> "Active"
      [] state = "OpenSent" /\ event = "BgpOpen" -> "OpenConfirm"
      [] state = "OpenConfirm" /\ event = "KeepAliveMsg" -> "Established"
      [] state = "Established" /\ event \in {"NotifMsg", "TcpConnectionFail"}
           -> "Idle"
      [] OTHER -> state

\* The state in which handle_incoming enters the session loop.
IncomingState ==
    Transition(Transition("Idle", "ManualStart"), "TcpConnectionConfirmed")
=============================================================================
