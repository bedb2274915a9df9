------------------------------ MODULE Management ------------------------------
(***************************************************************************)
(* A management connection (mgmt.rs, handle_mgmt_conn) beside the session  *)
(* tasks whose counters it reports (peer.rs, metrics.rs).                  *)
(*                                                                         *)
(* Daemon has a handler as one action; here each counter it touches is a   *)
(* step of its own, and so is each counter that a report reads: the tasks  *)
(* run on several threads and nothing but the RIB is locked.  The relaxed  *)
(* atomics take effect in program order, as they do on x86-64.             *)
(***************************************************************************)
EXTENDS Fsm, Integers, Sequences, FiniteSets

CONSTANTS
    Sessions,       \* session tasks, each with an address of its own
    Nlri,           \* prefixes that they advertise
    MaxEvents,      \* bound: messages and timeouts that the sessions meet
    MaxLines        \* bound: lines that the client sends

ASSUME ManagementAssumption ==
    /\ IsFiniteSet(Nlri)
    /\ MaxEvents \in Nat
    /\ MaxLines \in Nat

\* The order of prometheus_text, and the counters there are.
PrometheusOrder ==
    <<"sessions_active", "sessions_established", "sessions_failed",
      "rx_open", "rx_keepalive", "rx_update", "rx_notification",
      "tx_open", "tx_keepalive", "tx_update", "tx_notification",
      "routes_received", "routes_withdrawn", "routes_loc_rib", "routes_advertised",
      "hold_timer_expirations", "parse_errors", "fsm_errors">>

Counters == {PrometheusOrder[i] : i \in DOMAIN PrometheusOrder}

\* Mutant of SummaryOrder: the routes in the order of the other report.
SummaryOrderAsPrometheus == PrometheusOrder

\* The order of text_summary: the Loc-RIB goes before the totals.
SummaryOrder ==
    SubSeq(PrometheusOrder, 1, 11)
      \o <<"routes_loc_rib", "routes_received", "routes_withdrawn">>
      \o SubSeq(PrometheusOrder, 15, 18)

VARIABLES
    metrics,    \* the counters
    sess,       \* per session: phase, state, whether the hold timer runs, and
                \* what the handler that runs has still to do
    adj,        \* per session: the prefixes in the Adj-RIB-In of its address
    events,     \* messages and timeouts so far
    conn,       \* the connection: "open", or "closed" by either side
    inbox,      \* lines in the socket
    asked,      \* lines sent so far
    answered,   \* lines answered so far
    reading     \* the report that is being made: its order, how far it got
                \* and what it read

\* The counters that the properties compare.  A report has the others too, but
\* what it reads there makes no difference to these.
Compared ==
    {"sessions_established", "sessions_failed", "rx_open", "rx_keepalive",
     "rx_notification", "tx_open", "tx_keepalive", "tx_notification",
     "routes_received", "routes_loc_rib", "hold_timer_expirations"}

sessionVars == <<sess, adj, metrics, events>>
connVars == <<conn, inbox, asked, answered, reading>>
managementVars == <<sessionVars, connVars>>

NoReport == [order |-> <<>>, pos |-> 0, seen |-> <<>>]

ManagementInit ==
    /\ metrics = [c \in Counters |-> 0]
    /\ sess = [s \in Sessions |-> [phase |-> "unused", state |-> "Idle",
                                   armed |-> FALSE, todo |-> <<>>]]
    /\ adj = [s \in Sessions |-> {}]
    /\ events = 0
    /\ conn = "open" /\ inbox = <<>> /\ asked = 0 /\ answered = 0
    /\ reading = NoReport

-----------------------------------------------------------------------------
(* The handlers of peer.rs, as what they do to shared state, in their order. *)
(* At Try a message is parsed or the stream written, and the task may end.   *)

Add(c, n)  == [op |-> "add", counter |-> c, by |-> n]
Inc(c)     == Add(c, 1)
Inactive   == [op |-> "inactive"]       \* sessions_active := 0
Try        == [op |-> "try"]
Leave      == [op |-> "leave"]          \* remove_peer
End        == [op |-> "end"]            \* the task returns
Update(nlri, withdrawn) == [op |-> "update", nlri |-> nlri, withdrawn |-> withdrawn]

OnKeepalive(state) ==
    <<Inc("rx_keepalive")>>
      \o (IF state = "OpenConfirm" THEN <<Inc("sessions_established")>> ELSE <<>>)

OnOpen == <<Inc("rx_open"), Try, Inc("tx_keepalive")>>

OnUpdate(nlri, withdrawn) ==
    <<Inc("rx_update"), Try, Add("routes_received", Cardinality(nlri)),
      Add("routes_withdrawn", Cardinality(withdrawn)), Update(nlri, withdrawn)>>

OnNotification ==
    <<Inc("rx_notification"), Try, Inc("sessions_failed"), Inactive, Leave>>

OnHoldExpired ==
    <<Inc("hold_timer_expirations"), Inc("tx_notification"), Inc("sessions_failed"),
      Inactive, Leave, End>>

OnEof == <<Inactive, Leave, End>>

OnAccept == <<Inc("sessions_active"), Inc("tx_open"), Try>>

OnKeepaliveDue == <<Try, Inc("tx_keepalive")>>

\* A handler starts: the one before it has returned.
Begin(s, state, armed, todo) ==
    /\ events < MaxEvents
    /\ events' = events + 1
    /\ sess' = [sess EXCEPT ![s] = [phase |-> "running", state |-> state,
                                    armed |-> armed, todo |-> todo]]
    /\ UNCHANGED <<adj, metrics, connVars>>

Idle(s) == sess[s].phase = "running" /\ sess[s].todo = <<>>

Accept(s) ==
    sess[s].phase = "unused" /\ Begin(s, IncomingState, FALSE, OnAccept)

RecvOpen(s) ==
    Idle(s) /\ Begin(s, Transition(sess[s].state, "BgpOpen"), TRUE, OnOpen)

RecvKeepalive(s) ==
    /\ Idle(s)
    /\ Begin(s, IF sess[s].state = "OpenConfirm"
                THEN Transition(sess[s].state, "KeepAliveMsg") ELSE sess[s].state,
             TRUE, OnKeepalive(sess[s].state))

RecvUpdate(s, nlri, withdrawn) ==
    /\ Idle(s)
    /\ Begin(s, Transition(sess[s].state, "UpdateMsg"), TRUE, OnUpdate(nlri, withdrawn))

RecvNotification(s) ==
    /\ Idle(s)
    /\ Begin(s, Transition(sess[s].state, "NotifMsg"), sess[s].armed, OnNotification)

\* A session without a hold time is one that never gets here.
HoldExpires(s) ==
    /\ Idle(s) /\ sess[s].armed
    /\ Begin(s, Transition(sess[s].state, "HoldTimerExpired"), TRUE, OnHoldExpired)

SendKeepalive(s) ==
    /\ Idle(s) /\ sess[s].state = "Established"
    /\ Begin(s, sess[s].state, sess[s].armed, OnKeepaliveDue)

Eof(s) ==
    /\ Idle(s)
    /\ Begin(s, Transition(sess[s].state, "TcpConnectionFail"), sess[s].armed, OnEof)

-----------------------------------------------------------------------------
(* One step of a handler *)

LocRibCount(a) == Cardinality(UNION {a[s] : s \in Sessions})

\* process_update and the store of the gauge, under the write lock; dampening
\* and validation let any of the advertised prefixes pass.
StoreUpdate(s, e) ==
    \E accepted \in SUBSET e.nlri :
        /\ adj' = [adj EXCEPT ![s] = (@ \cup accepted) \ e.withdrawn]
        /\ metrics' = [metrics EXCEPT !["routes_loc_rib"] = LocRibCount(adj')]

Effect(s, e) ==
    CASE e.op = "add" ->
           metrics' = [metrics EXCEPT ![e.counter] = @ + e.by] /\ UNCHANGED adj
      [] e.op = "inactive" ->
           metrics' = [metrics EXCEPT !["sessions_active"] = 0] /\ UNCHANGED adj
      [] e.op = "update" -> StoreUpdate(s, e)
      [] e.op = "leave" -> adj' = [adj EXCEPT ![s] = {}] /\ UNCHANGED metrics
      [] OTHER -> UNCHANGED <<adj, metrics>>

Step(s) ==
    /\ sess[s].todo # <<>>
    /\ Effect(s, Head(sess[s].todo))
    /\ sess' = [sess EXCEPT ![s].todo = Tail(@),
                            ![s].phase = IF Head(sess[s].todo) = End THEN "ended" ELSE @]
    /\ UNCHANGED <<events, connVars>>

\* A parse or a write fails, and run_session returns at once.
Fail(s) ==
    /\ sess[s].todo # <<>> /\ Head(sess[s].todo) = Try
    /\ sess' = [sess EXCEPT ![s].todo = <<>>, ![s].phase = "ended"]
    /\ UNCHANGED <<adj, metrics, events, connVars>>

-----------------------------------------------------------------------------
(* The connection.  A line is "metrics", "show bgp metrics", "other" for any *)
(* command that is answered at one go, quit and the empty line included, or  *)
(* "garbled" when it is not text.                                            *)

Lines == {"metrics", "show bgp metrics", "other", "garbled"}

SendLine(line) ==
    /\ conn = "open" /\ asked < MaxLines
    /\ inbox' = Append(inbox, line)
    /\ asked' = asked + 1
    /\ UNCHANGED <<sessionVars, conn, answered, reading>>

ClientLeaves ==
    /\ conn = "open"
    /\ conn' = "closed"
    /\ UNCHANGED <<sessionVars, inbox, asked, answered, reading>>

\* next_line, when the answer to the line before is written.
NextLine == conn = "open" /\ reading = NoReport /\ inbox # <<>>

\* Mutant of AnswerOther: a command with nothing to show is passed over.
AnswerOtherSilently ==
    /\ NextLine /\ Head(inbox) = "other"
    /\ inbox' = Tail(inbox)
    /\ UNCHANGED <<sessionVars, conn, asked, answered, reading>>

\* process_command, all but the two reports
AnswerOther ==
    /\ NextLine /\ Head(inbox) = "other"
    /\ inbox' = Tail(inbox)
    /\ answered' = answered + 1
    /\ UNCHANGED <<sessionVars, conn, asked, reading>>

\* The loop ends with the first line that cannot be read as text.
Garbled ==
    /\ NextLine /\ Head(inbox) = "garbled"
    /\ inbox' = Tail(inbox)
    /\ conn' = "closed"
    /\ UNCHANGED <<sessionVars, asked, answered, reading>>

BeginReport ==
    /\ NextLine /\ Head(inbox) \in {"metrics", "show bgp metrics"}
    /\ reading' = [order |-> IF Head(inbox) = "metrics" THEN PrometheusOrder ELSE SummaryOrder,
                   pos   |-> 0,
                   seen  |-> [c \in {} |-> 0]]
    /\ inbox' = Tail(inbox)
    /\ UNCHANGED <<sessionVars, conn, asked, answered>>

\* The counters of the report that it has yet to read, by their places.
Unread == {i \in DOMAIN reading.order : reading.pos < i /\ reading.order[i] \in Compared}

\* get, for the next counter of the report that is compared.
ReadCounter ==
    /\ \E i \in Unread :
         LET c == reading.order[i]
         IN  /\ \A j \in Unread : i <= j
             /\ reading' = [reading EXCEPT
                              !.pos  = i,
                              !.seen = [d \in DOMAIN @ \cup {c} |->
                                          IF d = c THEN metrics[c] ELSE @[d]]]
    /\ UNCHANGED <<sessionVars, conn, inbox, asked, answered>>

Complete == reading # NoReport /\ Unread = {}

\* The report is written to the client, if it is still there.
WriteReport ==
    /\ Complete
    /\ reading' = NoReport
    /\ answered' = IF conn = "open" THEN answered + 1 ELSE answered
    /\ UNCHANGED <<sessionVars, conn, inbox, asked>>

Serve == AnswerOther \/ Garbled \/ BeginReport \/ ReadCounter \/ WriteReport

ManagementNext ==
    \/ \E s \in Sessions :
         \/ Accept(s) \/ RecvOpen(s) \/ RecvKeepalive(s)
         \/ \E nlri \in SUBSET Nlri, withdrawn \in SUBSET Nlri :
              RecvUpdate(s, nlri, withdrawn)
         \/ RecvNotification(s) \/ HoldExpires(s) \/ SendKeepalive(s) \/ Eof(s)
         \/ Step(s) \/ Fail(s)
    \/ \E line \in Lines : SendLine(line)
    \/ ClientLeaves
    \/ Serve

\* The task of the connection is polled for as long as it is not done, and its
\* client reads what it is sent, so that write_all does not wait for ever.
ManagementFairness == WF_managementVars(Serve)

ManagementSpec == ManagementInit /\ [][ManagementNext]_managementVars /\ ManagementFairness

-----------------------------------------------------------------------------
(* Properties *)

\* Both reports add up, though they are read counter by counter while sessions
\* run: no more sessions are established than the messages that bring one up
\* were received and sent, no more failed than notifications came and hold
\* timers expired, and no notification was sent without such an expiry.
\* Totals are read in about the reverse of the order they are counted in.  The
\* text summary, which reads the gauge of the Loc-RIB before the totals, never
\* shows more routes there than were received.
ReportsAddUp ==
    Complete =>
        LET r == reading.seen
        IN  /\ \A c \in {"rx_open", "rx_keepalive", "tx_open", "tx_keepalive"} :
                 r["sessions_established"] <= r[c]
            /\ r["sessions_failed"] <= r["rx_notification"] + r["hold_timer_expirations"]
            /\ r["tx_notification"] <= r["hold_timer_expirations"]
            /\ reading.order = SummaryOrder => r["routes_loc_rib"] <= r["routes_received"]

\* The server catches up with the lines it is sent, whatever the sessions do
\* meanwhile: all are answered in the end, unless the client leaves or a line
\* that is not text ends the connection.
LinesAnswered ==
    (answered < asked) ~> (answered = asked \/ conn = "closed")
=============================================================================
