-------------------------- MODULE ManagementProofs ---------------------------
(***************************************************************************)
(* Proofs about Management: the reports of the metrics add up for any      *)
(* number of sessions, whatever they do while a report is read.            *)
(*                                                                         *)
(* The argument has two halves.  Between counters: what a handler has      *)
(* counted on the larger side and not yet on the smaller one is a set of   *)
(* sessions, and the difference of the two counters is never less than the *)
(* size of that set.  Between a report and the counters: taking for each   *)
(* counter what the report has read, or else what it would read now, the   *)
(* same inequalities hold at every moment, since the smaller side of each  *)
(* is read first.                                                          *)
(*                                                                         *)
(* At the end, the commands that show the RIB: they agree on every table.  *)
(***************************************************************************)
EXTENDS Management, Views, Arithmetic, SequenceTheorems

-----------------------------------------------------------------------------
(* What handlers have yet to do *)

AddOp    == [op : {"add"}, counter : Counters, by : Nat]
PlainOp  == [op : {"inactive", "try", "leave", "end"}]
UpdateOp == [op : {"update"}, nlri : SUBSET Nlri, withdrawn : SUBSET Nlri]
Op       == AddOp \cup PlainOp \cup UpdateOp

Adds(e, c) == e.op = "add" /\ e.counter = c

\* The counter c is still to be counted.
Has(todo, c) == \E i \in 1..Len(todo) : Adds(todo[i], c)

\* The prefixes of an update that are counted as received.
Counted(t) ==
    {k \in Nlri : /\ ~Has(t, "routes_received")
                  /\ \E i \in 1..Len(t) : t[i].op = "update" /\ k \in t[i].nlri}

\* Counters that go up by one.
Singles == Counters \ {"routes_received", "routes_withdrawn"}

\* What the proofs need to know of a handler in the given state.
OpOK(e, state) ==
    /\ e.op = "add" => /\ e.counter # "routes_loc_rib"
                       /\ e.counter \in Singles => e.by = 1
    /\ Adds(e, "sessions_established") => state = "Established"

InTurn(e, f) ==
    /\ Adds(e, "sessions_established") => f.op # "add"
    /\ Adds(e, "sessions_failed") => f.op # "add"
    /\ Adds(e, "tx_notification") =>
         ~Adds(f, "tx_notification") /\ ~Adds(f, "hold_timer_expirations")
    /\ Adds(e, "routes_received") /\ f.op = "update" => e.by = Cardinality(f.nlri)
    /\ e.op = "update" => f.op # "update" /\ f.op # "add"
    /\ e.op # "end"

Plan(todo, state) ==
    /\ todo \in Seq(Op)
    /\ \A i \in 1..Len(todo) : OpOK(todo[i], state)
    /\ \A i, j \in 1..Len(todo) : i < j => InTurn(todo[i], todo[j])

LEMMA OpKinds ==
    ASSUME NEW e \in Op
    PROVE  /\ e.op \in {"add", "inactive", "try", "leave", "end", "update"}
           /\ e.op = "add" => e.counter \in Counters /\ e.by \in Nat
           /\ e.op = "update" => e.nlri \in SUBSET Nlri /\ e.withdrawn \in SUBSET Nlri
  BY DEF Op, AddOp, PlainOp, UpdateOp

\* A list without its head.
LEMMA TailFacts ==
    ASSUME NEW todo \in Seq(Op), todo # <<>>
    PROVE  /\ Tail(todo) \in Seq(Op) /\ Len(Tail(todo)) = Len(todo) - 1 /\ Len(todo) \in Nat \ {0}
           /\ \A i \in 1..Len(Tail(todo)) : Tail(todo)[i] = todo[i + 1]
           /\ Head(todo) = todo[1] /\ todo[1] \in Op
  OBVIOUS

LEMMA PlanTail ==
    ASSUME NEW todo, NEW state, Plan(todo, state), todo # <<>>
    PROVE  Plan(Tail(todo), state)
  <1>1. todo \in Seq(Op)
    BY DEF Plan
  <1> DEFINE rest == Tail(todo)
  <1>2. /\ rest \in Seq(Op) /\ Len(rest) = Len(todo) - 1 /\ Len(todo) \in Nat \ {0}
        /\ \A i \in 1..Len(rest) : rest[i] = todo[i + 1]
    BY <1>1, TailFacts
  <1> HIDE DEF rest
  <1>3. \A i \in 1..Len(rest) : i + 1 \in 1..Len(todo)
    BY <1>2
  <1>4. \A i \in 1..Len(rest) : OpOK(rest[i], state)
    BY <1>2, <1>3 DEF Plan
  <1>5. \A i, j \in 1..Len(rest) : i < j => InTurn(rest[i], rest[j])
    <2> SUFFICES ASSUME NEW i \in 1..Len(rest), NEW j \in 1..Len(rest), i < j
                 PROVE  InTurn(rest[i], rest[j])
      OBVIOUS
    <2>1. i + 1 \in 1..Len(todo) /\ j + 1 \in 1..Len(todo) /\ i + 1 < j + 1
      BY <1>2, <1>3
    <2>2. InTurn(todo[i + 1], todo[j + 1])
      BY <2>1 DEF Plan
    <2> QED  BY <1>2, <2>2
  <1>6. Plan(rest, state)
    BY <1>2, <1>4, <1>5 DEF Plan
  <1> QED  BY <1>6 DEF rest

LEMMA HasTail ==
    ASSUME NEW todo \in Seq(Op), todo # <<>>, NEW c
    PROVE  Has(todo, c) <=> Adds(Head(todo), c) \/ Has(Tail(todo), c)
  <1> DEFINE rest == Tail(todo)
  <1>2. /\ Len(rest) = Len(todo) - 1 /\ Len(todo) \in Nat \ {0}
        /\ \A i \in 1..Len(rest) : rest[i] = todo[i + 1]
        /\ Head(todo) = todo[1]
    BY TailFacts
  <1> HIDE DEF rest
  <1>3. ASSUME Has(todo, c) PROVE Adds(todo[1], c) \/ Has(rest, c)
    <2>1. PICK i \in 1..Len(todo) : Adds(todo[i], c)
      BY <1>3 DEF Has
    <2>2. CASE i = 1
      BY <2>1, <2>2
    <2>3. CASE i # 1
      <3>1. i - 1 \in 1..Len(rest) /\ (i - 1) + 1 = i
        BY <1>2, <2>3
      <3>2. rest[i - 1] = todo[i]
        BY <1>2, <3>1
      <3> QED  BY <2>1, <3>1, <3>2 DEF Has
    <2> QED  BY <2>2, <2>3
  <1>4. ASSUME Adds(todo[1], c) PROVE Has(todo, c)
    <2>1. 1 \in 1..Len(todo)
      BY <1>2
    <2> QED  BY <1>4, <2>1 DEF Has
  <1>5. ASSUME Has(rest, c) PROVE Has(todo, c)
    <2>1. PICK i \in 1..Len(rest) : Adds(rest[i], c)
      BY <1>5 DEF Has
    <2>2. i + 1 \in 1..Len(todo) /\ rest[i] = todo[i + 1]
      BY <1>2
    <2> QED  BY <2>1, <2>2 DEF Has
  <1> QED  BY <1>2, <1>3, <1>4, <1>5 DEF rest

\* What the head of a plan rules out behind it.
LEMMA HeadRules ==
    ASSUME NEW todo, NEW state, Plan(todo, state), todo # <<>>
    PROVE  /\ Head(todo) \in Op /\ OpOK(Head(todo), state)
           /\ \A i \in 1..Len(Tail(todo)) : InTurn(Head(todo), Tail(todo)[i])
  <1>1. todo \in Seq(Op)
    BY DEF Plan
  <1>2. /\ Len(Tail(todo)) = Len(todo) - 1 /\ Len(todo) \in Nat \ {0}
        /\ \A i \in 1..Len(Tail(todo)) : Tail(todo)[i] = todo[i + 1]
        /\ Head(todo) = todo[1] /\ todo[1] \in Op
    BY <1>1, TailFacts
  <1>3. 1 \in 1..Len(todo)
    BY <1>2
  <1>4. ASSUME NEW i \in 1..Len(Tail(todo)) PROVE InTurn(Head(todo), Tail(todo)[i])
    <2>1. i + 1 \in 1..Len(todo) /\ 1 < i + 1
      BY <1>2
    <2> QED  BY <1>2, <1>3, <2>1 DEF Plan
  <1> QED  BY <1>2, <1>3, <1>4 DEF Plan

-----------------------------------------------------------------------------
(* The orders of the reports *)

LEMMA PrometheusPlaces ==
    /\ PrometheusOrder \in Seq(Counters) /\ Len(PrometheusOrder) = 18
    /\ PrometheusOrder[1] = "sessions_active"
    /\ PrometheusOrder[2] = "sessions_established"
    /\ PrometheusOrder[3] = "sessions_failed"
    /\ PrometheusOrder[4] = "rx_open"
    /\ PrometheusOrder[5] = "rx_keepalive"
    /\ PrometheusOrder[6] = "rx_update"
    /\ PrometheusOrder[7] = "rx_notification"
    /\ PrometheusOrder[8] = "tx_open"
    /\ PrometheusOrder[9] = "tx_keepalive"
    /\ PrometheusOrder[10] = "tx_update"
    /\ PrometheusOrder[11] = "tx_notification"
    /\ PrometheusOrder[12] = "routes_received"
    /\ PrometheusOrder[13] = "routes_withdrawn"
    /\ PrometheusOrder[14] = "routes_loc_rib"
    /\ PrometheusOrder[15] = "routes_advertised"
    /\ PrometheusOrder[16] = "hold_timer_expirations"
    /\ PrometheusOrder[17] = "parse_errors"
    /\ PrometheusOrder[18] = "fsm_errors"
  <1>1. PrometheusOrder \in Seq(Counters) /\ Len(PrometheusOrder) = 18
    BY DEF PrometheusOrder, Counters
  <1> QED  BY <1>1 DEF PrometheusOrder

LEMMA CounterNames ==
    {"sessions_active", "sessions_established", "sessions_failed",
     "rx_open", "rx_keepalive", "rx_update", "rx_notification",
     "tx_open", "tx_keepalive", "tx_update", "tx_notification",
     "routes_received", "routes_withdrawn", "routes_loc_rib", "routes_advertised",
     "hold_timer_expirations", "parse_errors", "fsm_errors"} \subseteq Counters
  <1>1. \A i \in 1..18 : PrometheusOrder[i] \in Counters
    <2>1. DOMAIN PrometheusOrder = 1..18
      BY PrometheusPlaces
    <2> QED  BY <2>1 DEF Counters
  <1>2. /\ {PrometheusOrder[1], PrometheusOrder[2], PrometheusOrder[3], PrometheusOrder[4],
            PrometheusOrder[5], PrometheusOrder[6], PrometheusOrder[7], PrometheusOrder[8],
            PrometheusOrder[9]} \subseteq Counters
        /\ {PrometheusOrder[10], PrometheusOrder[11], PrometheusOrder[12], PrometheusOrder[13],
            PrometheusOrder[14], PrometheusOrder[15], PrometheusOrder[16], PrometheusOrder[17],
            PrometheusOrder[18]} \subseteq Counters
    BY <1>1
  <1> QED  BY <1>2, PrometheusPlaces

LEMMA SummaryPlaces ==
    /\ SummaryOrder \in Seq(Counters) /\ Len(SummaryOrder) = 18
    /\ \A i \in 1..11 : SummaryOrder[i] = PrometheusOrder[i]
    /\ SummaryOrder[12] = "routes_loc_rib"
    /\ SummaryOrder[13] = "routes_received"
    /\ SummaryOrder[14] = "routes_withdrawn"
    /\ \A i \in 15..18 : SummaryOrder[i] = PrometheusOrder[i]
  <1> DEFINE a == SubSeq(PrometheusOrder, 1, 11)
             b == <<"routes_loc_rib", "routes_received", "routes_withdrawn">>
             c == SubSeq(PrometheusOrder, 15, 18)
             ab == a \o b
  <1>1. /\ a \in Seq(Counters) /\ Len(a) = 11 /\ \A i \in 1..11 : a[i] = PrometheusOrder[i]
    <2>1. PrometheusOrder \in Seq(Counters) /\ Len(PrometheusOrder) = 18
      BY PrometheusPlaces
    <2>2. \A i \in 1..11 : PrometheusOrder[i] \in Counters
      <3> SUFFICES ASSUME NEW i \in 1..11 PROVE PrometheusOrder[i] \in Counters
        OBVIOUS
      <3>1. i \in 1..Len(PrometheusOrder)
        BY <2>1
      <3> QED  BY <2>1, <3>1, ElementOfSeq
    <2>3. /\ a \in Seq(Counters) /\ Len(a) = IF 1 <= 11 THEN 11 - 1 + 1 ELSE 0
          /\ \A i \in 1..(11 - 1 + 1) : a[i] = PrometheusOrder[1 + i - 1]
      BY <2>2, SubSeqProperties
    <2> HIDE DEF a
    <2>4. \A i \in 1..11 : 1 + i - 1 = i
      OBVIOUS
    <2> QED  BY <2>3, <2>4
  <1>2. b \in Seq(Counters) /\ Len(b) = 3 /\ b[1] = "routes_loc_rib" /\ b[2] = "routes_received" /\ b[3] = "routes_withdrawn"
    BY CounterNames
  <1>3. c \in Seq(Counters) /\ Len(c) = 4 /\ \A i \in 1..4 : c[i] = PrometheusOrder[14 + i]
    <2>1. PrometheusOrder \in Seq(Counters) /\ Len(PrometheusOrder) = 18
      BY PrometheusPlaces
    <2>2. c \in Seq(Counters) /\ Len(c) = 4
      <3>1. \A i \in 15..18 : PrometheusOrder[i] \in Counters
        <4> SUFFICES ASSUME NEW i \in 15..18 PROVE PrometheusOrder[i] \in Counters
          OBVIOUS
        <4>1. i \in 1..Len(PrometheusOrder)
          BY <2>1
        <4> QED  BY <2>1, <4>1, ElementOfSeq
      <3>2. c \in Seq(Counters) /\ Len(c) = IF 15 <= 18 THEN 18 - 15 + 1 ELSE 0
        BY <3>1, SubSeqProperties
      <3> QED  BY <3>2
    <2>3. \A i \in 1..4 : c[i] = PrometheusOrder[15 + i - 1]
      BY <2>1, SubSeqProperties
    <2>4. \A i \in 1..4 : 15 + i - 1 = 14 + i
      OBVIOUS
    <2> QED  BY <2>2, <2>3, <2>4
  <1> HIDE DEF a, b, c
  <1>4. /\ ab \in Seq(Counters) /\ Len(ab) = 14
        /\ \A i \in 1..14 : ab[i] = IF i <= 11 THEN a[i] ELSE b[i - 11]
    <2>1. /\ ab \in Seq(Counters) /\ Len(ab) = Len(a) + Len(b)
          /\ \A i \in 1..(Len(a) + Len(b)) : ab[i] = IF i <= Len(a) THEN a[i] ELSE b[i - Len(a)]
      <3>1. a \in Seq(Counters) /\ b \in Seq(Counters)
        BY <1>1, <1>2
      <3> QED  BY ONLY <3>1, ConcatProperties DEF ab
    <2> HIDE DEF ab
    <2> QED  BY <1>1, <1>2, <2>1
  <1> HIDE DEF ab
  <1> DEFINE all == ab \o c
  <1>5. /\ all \in Seq(Counters) /\ Len(all) = 18
        /\ \A i \in 1..18 : all[i] = IF i <= 14 THEN ab[i] ELSE c[i - 14]
    <2>1. /\ all \in Seq(Counters) /\ Len(all) = Len(ab) + Len(c)
          /\ \A i \in 1..(Len(ab) + Len(c)) : all[i] = IF i <= Len(ab) THEN ab[i] ELSE c[i - Len(ab)]
      <3>1. ab \in Seq(Counters) /\ c \in Seq(Counters)
        BY <1>3, <1>4
      <3> QED  BY ONLY <3>1, ConcatProperties DEF all
    <2> HIDE DEF all
    <2> QED  BY <1>3, <1>4, <2>1
  <1> HIDE DEF all
  <1>6. SummaryOrder = all
    BY DEF SummaryOrder, all, ab, a, b, c
  <1>7. ASSUME NEW i \in 1..11 PROVE all[i] = PrometheusOrder[i]
    <2>1. i \in 1..14 /\ i \in 1..18 /\ i <= 11 /\ i <= 14
      OBVIOUS
    <2>2. all[i] = ab[i] /\ ab[i] = a[i]
      BY <1>4, <1>5, <2>1
    <2> QED  BY <1>1, <2>2
  <1>8. all[12] = "routes_loc_rib" /\ all[13] = "routes_received" /\ all[14] = "routes_withdrawn"
    <2>1. all[12] = ab[12] /\ all[13] = ab[13] /\ all[14] = ab[14]
      BY <1>5
    <2>2. ab[12] = b[1] /\ ab[13] = b[2] /\ ab[14] = b[3]
      <3>1. 12 - 11 = 1 /\ 13 - 11 = 2 /\ 14 - 11 = 3
        OBVIOUS
      <3> QED  BY <1>4, <3>1
    <2> QED  BY <1>2, <2>1, <2>2
  <1>9. \A i \in 15..18 : all[i] = PrometheusOrder[i]
    <2> SUFFICES ASSUME NEW i \in 15..18 PROVE all[i] = PrometheusOrder[i]
      OBVIOUS
    <2>1. i - 14 \in 1..4 /\ 14 + (i - 14) = i
      OBVIOUS
    <2>2. c[i - 14] = PrometheusOrder[i]
      BY <1>3, <2>1
    <2>3. all[i] = c[i - 14]
      BY <1>5
    <2> QED  BY <2>2, <2>3
  <1> QED  BY <1>5, <1>6, <1>7, <1>8, <1>9

-----------------------------------------------------------------------------
(* The handlers *)

LEMMA OpsAre ==
    /\ \A c \in Counters, n \in Nat : Add(c, n) \in Op
    /\ \A c \in Counters : Inc(c) \in Op
    /\ Inactive \in Op /\ Try \in Op /\ Leave \in Op /\ End \in Op
    /\ \A n, w \in SUBSET Nlri : Update(n, w) \in Op
  BY DEF Op, AddOp, PlainOp, UpdateOp, Add, Inc, Inactive, Try, Leave, End, Update

LEMMA EmptyPlan ==
    ASSUME NEW state
    PROVE  Plan(<<>>, state) /\ (\A c : ~Has(<<>>, c)) /\ Counted(<<>>) = {}
  BY DEF Plan, Has, Counted

\* Each handler is such a list, and these are the counters it counts.
LEMMA OnOpenPlan ==
    ASSUME NEW state
    PROVE  /\ Plan(OnOpen, state)
           /\ \A c : Has(OnOpen, c) <=> c \in {"rx_open", "tx_keepalive"}
           /\ Counted(OnOpen) = {}
  <1> DEFINE t == OnOpen
  <1>1. Len(t) = 3 /\ t[1] = Inc("rx_open") /\ t[2] = Try /\ t[3] = Inc("tx_keepalive")
    BY DEF OnOpen
  <1>2. t \in Seq(Op)
    BY OpsAre, CounterNames DEF OnOpen
  <1> HIDE DEF t
  <1>3. /\ t[1].op = "add" /\ t[1].counter = "rx_open" /\ t[1].by = 1
        /\ t[2].op = "try"
        /\ t[3].op = "add" /\ t[3].counter = "tx_keepalive" /\ t[3].by = 1
    BY <1>1 DEF Inc, Add, Try
  <1>4. \A i \in 1..Len(t) : i = 1 \/ i = 2 \/ i = 3
    BY <1>1
  <1>5. Plan(t, state)
    BY <1>1, <1>2, <1>3, <1>4 DEF Plan, OpOK, InTurn, Adds
  <1>6. \A c : Has(t, c) <=> c \in {"rx_open", "tx_keepalive"}
    BY <1>1, <1>3, <1>4 DEF Has, Adds
  <1>7. Counted(t) = {}
    BY <1>1, <1>3, <1>4, <1>6 DEF Counted
  <1> QED  BY <1>5, <1>6, <1>7 DEF t

LEMMA OnAcceptPlan ==
    ASSUME NEW state
    PROVE  /\ Plan(OnAccept, state)
           /\ \A c : Has(OnAccept, c) <=> c \in {"sessions_active", "tx_open"}
           /\ Counted(OnAccept) = {}
  <1> DEFINE t == OnAccept
  <1>1. Len(t) = 3 /\ t[1] = Inc("sessions_active") /\ t[2] = Inc("tx_open") /\ t[3] = Try
    BY DEF OnAccept
  <1>2. t \in Seq(Op)
    BY OpsAre, CounterNames DEF OnAccept
  <1> HIDE DEF t
  <1>3. /\ t[1].op = "add" /\ t[1].counter = "sessions_active" /\ t[1].by = 1
        /\ t[2].op = "add" /\ t[2].counter = "tx_open" /\ t[2].by = 1
        /\ t[3].op = "try"
    BY <1>1 DEF Inc, Add, Try
  <1>4. \A i \in 1..Len(t) : i = 1 \/ i = 2 \/ i = 3
    BY <1>1
  <1>5. Plan(t, state)
    BY <1>1, <1>2, <1>3, <1>4 DEF Plan, OpOK, InTurn, Adds
  <1>6. \A c : Has(t, c) <=> c \in {"sessions_active", "tx_open"}
    BY <1>1, <1>3, <1>4 DEF Has, Adds
  <1>7. Counted(t) = {}
    BY <1>1, <1>3, <1>4, <1>6 DEF Counted
  <1> QED  BY <1>5, <1>6, <1>7 DEF t

LEMMA OnKeepaliveDuePlan ==
    ASSUME NEW state
    PROVE  /\ Plan(OnKeepaliveDue, state)
           /\ \A c : Has(OnKeepaliveDue, c) <=> c \in {"tx_keepalive"}
           /\ Counted(OnKeepaliveDue) = {}
  <1> DEFINE t == OnKeepaliveDue
  <1>1. Len(t) = 2 /\ t[1] = Try /\ t[2] = Inc("tx_keepalive")
    BY DEF OnKeepaliveDue
  <1>2. t \in Seq(Op)
    BY OpsAre, CounterNames DEF OnKeepaliveDue
  <1> HIDE DEF t
  <1>3. /\ t[1].op = "try"
        /\ t[2].op = "add" /\ t[2].counter = "tx_keepalive" /\ t[2].by = 1
    BY <1>1 DEF Try, Inc, Add
  <1>4. \A i \in 1..Len(t) : i = 1 \/ i = 2
    BY <1>1
  <1>5. Plan(t, state)
    BY <1>1, <1>2, <1>3, <1>4 DEF Plan, OpOK, InTurn, Adds
  <1>6. \A c : Has(t, c) <=> c \in {"tx_keepalive"}
    BY <1>1, <1>3, <1>4 DEF Has, Adds
  <1>7. Counted(t) = {}
    BY <1>1, <1>3, <1>4, <1>6 DEF Counted
  <1> QED  BY <1>5, <1>6, <1>7 DEF t

LEMMA OnEofPlan ==
    ASSUME NEW state
    PROVE  /\ Plan(OnEof, state)
           /\ \A c : Has(OnEof, c) <=> FALSE
           /\ Counted(OnEof) = {}
  <1> DEFINE t == OnEof
  <1>1. Len(t) = 3 /\ t[1] = Inactive /\ t[2] = Leave /\ t[3] = End
    BY DEF OnEof
  <1>2. t \in Seq(Op)
    BY OpsAre, CounterNames DEF OnEof
  <1> HIDE DEF t
  <1>3. /\ t[1].op = "inactive"
        /\ t[2].op = "leave"
        /\ t[3].op = "end"
    BY <1>1 DEF Inactive, Leave, End
  <1>4. \A i \in 1..Len(t) : i = 1 \/ i = 2 \/ i = 3
    BY <1>1
  <1>5. Plan(t, state)
    BY <1>1, <1>2, <1>3, <1>4 DEF Plan, OpOK, InTurn, Adds
  <1>6. \A c : Has(t, c) <=> FALSE
    BY <1>1, <1>3, <1>4 DEF Has, Adds
  <1>7. Counted(t) = {}
    BY <1>1, <1>3, <1>4, <1>6 DEF Counted
  <1> QED  BY <1>5, <1>6, <1>7 DEF t

LEMMA OnNotificationPlan ==
    ASSUME NEW state
    PROVE  /\ Plan(OnNotification, state)
           /\ \A c : Has(OnNotification, c) <=> c \in {"rx_notification", "sessions_failed"}
           /\ Counted(OnNotification) = {}
  <1> DEFINE t == OnNotification
  <1>1. Len(t) = 5 /\ t[1] = Inc("rx_notification") /\ t[2] = Try /\ t[3] = Inc("sessions_failed") /\ t[4] = Inactive /\ t[5] = Leave
    BY DEF OnNotification
  <1>2. t \in Seq(Op)
    BY OpsAre, CounterNames DEF OnNotification
  <1> HIDE DEF t
  <1>3. /\ t[1].op = "add" /\ t[1].counter = "rx_notification" /\ t[1].by = 1
        /\ t[2].op = "try"
        /\ t[3].op = "add" /\ t[3].counter = "sessions_failed" /\ t[3].by = 1
        /\ t[4].op = "inactive"
        /\ t[5].op = "leave"
    BY <1>1 DEF Inc, Add, Try, Inactive, Leave
  <1>4. \A i \in 1..Len(t) : i = 1 \/ i = 2 \/ i = 3 \/ i = 4 \/ i = 5
    BY <1>1
  <1>5. Plan(t, state)
    BY <1>1, <1>2, <1>3, <1>4 DEF Plan, OpOK, InTurn, Adds
  <1>6. \A c : Has(t, c) <=> c \in {"rx_notification", "sessions_failed"}
    BY <1>1, <1>3, <1>4 DEF Has, Adds
  <1>7. Counted(t) = {}
    BY <1>1, <1>3, <1>4, <1>6 DEF Counted
  <1> QED  BY <1>5, <1>6, <1>7 DEF t

LEMMA OnHoldExpiredPlan ==
    ASSUME NEW state
    PROVE  /\ Plan(OnHoldExpired, state)
           /\ \A c : Has(OnHoldExpired, c) <=> c \in {"hold_timer_expirations", "tx_notification", "sessions_failed"}
           /\ Counted(OnHoldExpired) = {}
  <1> DEFINE t == OnHoldExpired
  <1>1. Len(t) = 6 /\ t[1] = Inc("hold_timer_expirations") /\ t[2] = Inc("tx_notification") /\ t[3] = Inc("sessions_failed") /\ t[4] = Inactive /\ t[5] = Leave /\ t[6] = End
    BY DEF OnHoldExpired
  <1>2. t \in Seq(Op)
    BY OpsAre, CounterNames DEF OnHoldExpired
  <1> HIDE DEF t
  <1>3. /\ t[1].op = "add" /\ t[1].counter = "hold_timer_expirations" /\ t[1].by = 1
        /\ t[2].op = "add" /\ t[2].counter = "tx_notification" /\ t[2].by = 1
        /\ t[3].op = "add" /\ t[3].counter = "sessions_failed" /\ t[3].by = 1
        /\ t[4].op = "inactive"
        /\ t[5].op = "leave"
        /\ t[6].op = "end"
    BY <1>1 DEF Inc, Add, Inactive, Leave, End
  <1>4. \A i \in 1..Len(t) : i = 1 \/ i = 2 \/ i = 3 \/ i = 4 \/ i = 5 \/ i = 6
    BY <1>1
  <1>5. Plan(t, state)
    BY <1>1, <1>2, <1>3, <1>4 DEF Plan, OpOK, InTurn, Adds
  <1>6. \A c : Has(t, c) <=> c \in {"hold_timer_expirations", "tx_notification", "sessions_failed"}
    BY <1>1, <1>3, <1>4 DEF Has, Adds
  <1>7. Counted(t) = {}
    BY <1>1, <1>3, <1>4, <1>6 DEF Counted
  <1> QED  BY <1>5, <1>6, <1>7 DEF t

LEMMA OnKeepaliveOtherPlan ==
    ASSUME NEW state, NEW old, old # "OpenConfirm"
    PROVE  /\ Plan(OnKeepalive(old), state)
           /\ \A c : Has(OnKeepalive(old), c) <=> c \in {"rx_keepalive"}
           /\ Counted(OnKeepalive(old)) = {}
  <1> DEFINE t == OnKeepalive(old)
  <1>1. Len(t) = 1 /\ t[1] = Inc("rx_keepalive")
    BY DEF OnKeepalive
  <1>2. t \in Seq(Op)
    BY OpsAre, CounterNames DEF OnKeepalive
  <1> HIDE DEF t
  <1>3. /\ t[1].op = "add" /\ t[1].counter = "rx_keepalive" /\ t[1].by = 1
    BY <1>1 DEF Inc, Add
  <1>4. \A i \in 1..Len(t) : i = 1
    BY <1>1
  <1>5. Plan(t, state)
    BY <1>1, <1>2, <1>3, <1>4 DEF Plan, OpOK, InTurn, Adds
  <1>6. \A c : Has(t, c) <=> c \in {"rx_keepalive"}
    BY <1>1, <1>3, <1>4 DEF Has, Adds
  <1>7. Counted(t) = {}
    BY <1>1, <1>3, <1>4, <1>6 DEF Counted
  <1> QED  BY <1>5, <1>6, <1>7 DEF t

LEMMA OnKeepaliveConfirmPlan ==
    ASSUME NEW state, state = "Established"
    PROVE  /\ Plan(OnKeepalive("OpenConfirm"), state)
           /\ \A c : Has(OnKeepalive("OpenConfirm"), c) <=> c \in {"rx_keepalive", "sessions_established"}
           /\ Counted(OnKeepalive("OpenConfirm")) = {}
  <1> DEFINE t == OnKeepalive("OpenConfirm")
  <1>1. Len(t) = 2 /\ t[1] = Inc("rx_keepalive") /\ t[2] = Inc("sessions_established")
    BY DEF OnKeepalive
  <1>2. t \in Seq(Op)
    BY OpsAre, CounterNames DEF OnKeepalive
  <1> HIDE DEF t
  <1>3. /\ t[1].op = "add" /\ t[1].counter = "rx_keepalive" /\ t[1].by = 1
        /\ t[2].op = "add" /\ t[2].counter = "sessions_established" /\ t[2].by = 1
    BY <1>1 DEF Inc, Add
  <1>4. \A i \in 1..Len(t) : i = 1 \/ i = 2
    BY <1>1
  <1>5. Plan(t, state)
    BY <1>1, <1>2, <1>3, <1>4 DEF Plan, OpOK, InTurn, Adds
  <1>6. \A c : Has(t, c) <=> c \in {"rx_keepalive", "sessions_established"}
    BY <1>1, <1>3, <1>4 DEF Has, Adds
  <1>7. Counted(t) = {}
    BY <1>1, <1>3, <1>4, <1>6 DEF Counted
  <1> QED  BY <1>5, <1>6, <1>7 DEF t

LEMMA OnUpdatePlan ==
    ASSUME NEW state, NEW nlri \in SUBSET Nlri, NEW withdrawn \in SUBSET Nlri
    PROVE  /\ Plan(OnUpdate(nlri, withdrawn), state)
           /\ \A c : Has(OnUpdate(nlri, withdrawn), c) <=> c \in {"rx_update", "routes_received", "routes_withdrawn"}
           /\ Counted(OnUpdate(nlri, withdrawn)) = {}
  <1> DEFINE t == OnUpdate(nlri, withdrawn)
  <1>1. Len(t) = 5 /\ t[1] = Inc("rx_update") /\ t[2] = Try /\ t[3] = Add("routes_received", Cardinality(nlri)) /\ t[4] = Add("routes_withdrawn", Cardinality(withdrawn)) /\ t[5] = Update(nlri, withdrawn)
    BY DEF OnUpdate
  <1>0. Cardinality(nlri) \in Nat /\ Cardinality(withdrawn) \in Nat
    BY ManagementAssumption, FS_Subset, FS_CardinalityType
  <1>2. t \in Seq(Op)
    BY <1>0, OpsAre, CounterNames DEF OnUpdate
  <1> HIDE DEF t
  <1>3. /\ t[1].op = "add" /\ t[1].counter = "rx_update" /\ t[1].by = 1
        /\ t[2].op = "try"
        /\ t[3].op = "add" /\ t[3].counter = "routes_received" /\ t[3].by = Cardinality(nlri)
        /\ t[4].op = "add" /\ t[4].counter = "routes_withdrawn" /\ t[4].by = Cardinality(withdrawn)
        /\ t[5].op = "update" /\ t[5].nlri = nlri
    BY <1>1 DEF Inc, Add, Try, Update
  <1>4. \A i \in 1..Len(t) : i = 1 \/ i = 2 \/ i = 3 \/ i = 4 \/ i = 5
    BY <1>1
  <1>5. Plan(t, state)
    BY <1>1, <1>2, <1>3, <1>4 DEF Plan, OpOK, InTurn, Adds, Singles
  <1>6. \A c : Has(t, c) <=> c \in {"rx_update", "routes_received", "routes_withdrawn"}
    BY <1>1, <1>3, <1>4 DEF Has, Adds
  <1>7. Counted(t) = {}
    BY <1>1, <1>3, <1>4, <1>6 DEF Counted
  <1> QED  BY <1>5, <1>6, <1>7 DEF t

-----------------------------------------------------------------------------
(* The counters *)

Session == [phase : {"unused", "running", "ended"}, state : BgpState,
            armed : BOOLEAN, todo : Seq(Op)]

CountersTypeOK ==
    /\ metrics \in [Counters -> Nat]
    /\ sess \in [Sessions -> Session]
    /\ adj \in [Sessions -> SUBSET Nlri]

\* Handlers do what their plan says, and only running sessions have one.
Planned ==
    \A s \in Sessions :
      /\ Plan(sess[s].todo, sess[s].state)
      /\ sess[s].todo # <<>> => sess[s].phase = "running"

Est == "sessions_established"

\* What brings a session up, and the states in which it has been counted for
\* a session that is not up yet.
Bringing == {"rx_open", "rx_keepalive", "tx_open", "tx_keepalive"}

Stage(c) ==
    CASE c = "tx_open"      -> {"OpenSent", "OpenConfirm"}
      [] c = "rx_keepalive" -> {}
      [] OTHER              -> {"OpenConfirm"}

\* The sessions that have counted c and will yet be counted as established,
\* or may.
AheadOf(se, c) ==
    {s \in Sessions : /\ se[s].phase = "running"
                      /\ se[s].state \in Stage(c) \/ Has(se[s].todo, Est)
                      /\ ~Has(se[s].todo, c)}

\* The sessions that have counted what made them fail, and not the failure.
FailingOf(se) ==
    {s \in Sessions : /\ Has(se[s].todo, "sessions_failed")
                      /\ ~Has(se[s].todo, "rx_notification")
                      /\ ~Has(se[s].todo, "hold_timer_expirations")}

\* The sessions that have counted an expiry, and not the notification.
NotifyingOf(se) ==
    {s \in Sessions : /\ Has(se[s].todo, "tx_notification")
                      /\ ~Has(se[s].todo, "hold_timer_expirations")}

\* The prefixes that are counted, and in the RIB or on their way to it.
KnownOf(se, a) ==
    {k \in Nlri : \E s \in Sessions : k \in a[s] \/ k \in Counted(se[s].todo)}

\* A counter is ahead of another by the size of W at least.
Covered(small, W, large) == IsFiniteSet(W) /\ small + Cardinality(W) <= large

EstCovered ==
    \A c \in Bringing : Covered(metrics[Est], AheadOf(sess, c), metrics[c])

FailedCovered ==
    Covered(metrics["sessions_failed"], FailingOf(sess),
            metrics["rx_notification"] + metrics["hold_timer_expirations"])

NotifiedCovered ==
    Covered(metrics["tx_notification"], NotifyingOf(sess), metrics["hold_timer_expirations"])

RoutesCovered ==
    /\ Cardinality(KnownOf(sess, adj)) <= metrics["routes_received"]
    /\ metrics["routes_loc_rib"] <= metrics["routes_received"]

CountersInv ==
    /\ CountersTypeOK
    /\ Planned
    /\ EstCovered
    /\ FailedCovered
    /\ NotifiedCovered
    /\ RoutesCovered

\* One session moves: the set loses it, keeps it or gains it.
LEMMA CoveredStep ==
    ASSUME NEW W, NEW V, NEW s, V \ {s} = W \ {s},
           NEW small \in Nat, NEW large \in Nat, Covered(small, W, large),
           NEW newSmall \in Nat, NEW newLarge \in Nat,
           \/ newSmall = small /\ newLarge >= large /\ (s \in V => s \in W)
           \/ newSmall = small /\ newLarge >= large + 1
           \/ newSmall = small + 1 /\ newLarge >= large /\ s \in W /\ s \notin V
    PROVE  Covered(newSmall, V, newLarge)
  <1> DEFINE U == W \ {s}
  <1>1. IsFiniteSet(W) /\ small + Cardinality(W) <= large /\ Cardinality(W) \in Nat
    BY FS_CardinalityType DEF Covered
  <1>2. /\ IsFiniteSet(U) /\ Cardinality(U) \in Nat
        /\ Cardinality(U) = IF s \in W THEN Cardinality(W) - 1 ELSE Cardinality(W)
    BY <1>1, FS_RemoveElement, FS_CardinalityType
  <1>3. V = U \/ V = U \cup {s}
    OBVIOUS
  <1>4. s \notin U
    OBVIOUS
  <1> HIDE DEF U
  <1>5. /\ IsFiniteSet(V) /\ Cardinality(V) \in Nat
        /\ Cardinality(V) = IF s \in V THEN Cardinality(U) + 1 ELSE Cardinality(U)
    <2>1. CASE V = U
      BY <1>2, <1>4, <2>1
    <2>2. CASE V = U \cup {s}
      <3>1. IsFiniteSet(U \cup {s}) /\ Cardinality(U \cup {s}) = Cardinality(U) + 1
        BY <1>2, <1>4, FS_AddElement
      <3> QED  BY <1>2, <2>2, <3>1
    <2> QED  BY <1>3, <2>1, <2>2
  <1>6. newSmall + Cardinality(V) <= newLarge
    <2>1. CASE newSmall = small /\ newLarge >= large /\ (s \in V => s \in W)
      BY <1>1, <1>2, <1>5, <2>1
    <2>2. CASE newSmall = small /\ newLarge >= large + 1
      BY <1>1, <1>2, <1>5, <2>2
    <2>3. CASE newSmall = small + 1 /\ newLarge >= large /\ s \in W /\ s \notin V
      BY <1>1, <1>2, <1>5, <2>3
    <2> QED  BY <2>1, <2>2, <2>3
  <1> QED  BY <1>5, <1>6 DEF Covered

LEMMA CoveredKept ==
    ASSUME NEW W, NEW V, NEW s, V \ {s} = W \ {s}, s \in V => s \in W,
           NEW small \in Nat, NEW large \in Nat, Covered(small, W, large)
    PROVE  Covered(small, V, large)
  BY CoveredStep

LEMMA CoveredGain ==
    ASSUME NEW W, NEW V, NEW s, V \ {s} = W \ {s},
           NEW small \in Nat, NEW large \in Nat, Covered(small, W, large)
    PROVE  Covered(small, V, large + 1)
  BY CoveredStep

LEMMA CoveredLoss ==
    ASSUME NEW W, NEW V, NEW s, V \ {s} = W \ {s}, s \in W, s \notin V,
           NEW small \in Nat, NEW large \in Nat, Covered(small, W, large)
    PROVE  Covered(small + 1, V, large)
  BY CoveredStep

\* A session moves: the sets lose nothing and gain nothing but it.
LEMMA OthersKept ==
    ASSUME CountersTypeOK, NEW s \in Sessions, NEW n, sess' = [sess EXCEPT ![s] = n]
    PROVE  /\ sess'[s] = n
           /\ \A c : AheadOf(sess', c) \ {s} = AheadOf(sess, c) \ {s}
           /\ FailingOf(sess') \ {s} = FailingOf(sess) \ {s}
           /\ NotifyingOf(sess') \ {s} = NotifyingOf(sess) \ {s}
  <1>1. sess'[s] = n /\ \A z \in Sessions : z # s => sess'[z] = sess[z]
    BY DEF CountersTypeOK
  <1> QED  BY <1>1 DEF AheadOf, FailingOf, NotifyingOf

LEMMA KnownFinite ==
    ASSUME NEW se, NEW a
    PROVE  IsFiniteSet(KnownOf(se, a)) /\ Cardinality(KnownOf(se, a)) \in Nat
  <1>1. KnownOf(se, a) \subseteq Nlri
    BY DEF KnownOf
  <1> QED  BY <1>1, ManagementAssumption, FS_Subset, FS_CardinalityType

\* The values of the compared counters are numbers.
LEMMA CounterValues ==
    ASSUME CountersTypeOK
    PROVE  /\ \A c \in Bringing : metrics[c] \in Nat /\ c \in Counters
           /\ metrics[Est] \in Nat /\ metrics["sessions_failed"] \in Nat
           /\ metrics["rx_notification"] \in Nat /\ metrics["hold_timer_expirations"] \in Nat
           /\ metrics["tx_notification"] \in Nat /\ metrics["routes_received"] \in Nat
           /\ metrics["routes_loc_rib"] \in Nat
  <1>1. \A c \in Counters : metrics[c] \in Nat
    BY DEF CountersTypeOK
  <1>2. Bringing \subseteq Counters
    BY CounterNames DEF Bringing
  <1> QED  BY <1>1, <1>2, CounterNames DEF Est

\* A step that counts nothing, and that puts no session ahead.
LEMMA QuietMove ==
    ASSUME CountersInv, NEW s \in Sessions, NEW n \in Session, sess' = [sess EXCEPT ![s] = n],
           Plan(n.todo, n.state), n.todo # <<>> => n.phase = "running",
           metrics' \in [Counters -> Nat],
           \A c \in Counters : c \notin {"sessions_active", "routes_loc_rib"} => metrics'[c] = metrics[c],
           \A c \in Bringing : s \in AheadOf(sess', c) => s \in AheadOf(sess, c),
           s \in FailingOf(sess') => s \in FailingOf(sess),
           s \in NotifyingOf(sess') => s \in NotifyingOf(sess),
           adj' \in [Sessions -> SUBSET Nlri],
           KnownOf(sess', adj') \subseteq KnownOf(sess, adj),
           \/ metrics'["routes_loc_rib"] = metrics["routes_loc_rib"]
           \/ metrics'["routes_loc_rib"] <= Cardinality(KnownOf(sess', adj'))
    PROVE  CountersInv'
  <1>1. CountersTypeOK
    BY DEF CountersInv
  <1>2. CountersTypeOK'
    BY <1>1 DEF CountersTypeOK
  <1>3. Planned'
    <2>1. \A z \in Sessions : sess'[z] = IF z = s THEN n ELSE sess[z]
      BY <1>1 DEF CountersTypeOK
    <2> QED  BY <2>1 DEF CountersInv, Planned
  <1>4. /\ \A c \in Bringing : metrics[c] \in Nat /\ metrics'[c] = metrics[c]
        /\ metrics[Est] \in Nat /\ metrics'[Est] = metrics[Est]
        /\ metrics["sessions_failed"] \in Nat
        /\ metrics'["sessions_failed"] = metrics["sessions_failed"]
        /\ metrics["rx_notification"] \in Nat
        /\ metrics'["rx_notification"] = metrics["rx_notification"]
        /\ metrics["hold_timer_expirations"] \in Nat
        /\ metrics'["hold_timer_expirations"] = metrics["hold_timer_expirations"]
        /\ metrics["tx_notification"] \in Nat
        /\ metrics'["tx_notification"] = metrics["tx_notification"]
        /\ metrics["routes_received"] \in Nat
        /\ metrics'["routes_received"] = metrics["routes_received"]
        /\ metrics["routes_loc_rib"] \in Nat /\ metrics'["routes_loc_rib"] \in Nat
    <2>1. Bringing \subseteq Counters \ {"sessions_active", "routes_loc_rib"}
      BY CounterNames DEF Bringing
    <2> QED  BY <1>1, <2>1, CounterValues, CounterNames DEF Est
  <1>5. EstCovered'
    <2> SUFFICES ASSUME NEW c \in Bringing
                 PROVE  Covered(metrics'[Est], AheadOf(sess', c), metrics'[c])
      BY DEF EstCovered
    <2>1. Covered(metrics[Est], AheadOf(sess, c), metrics[c])
      BY DEF CountersInv, EstCovered
    <2>2. AheadOf(sess', c) \ {s} = AheadOf(sess, c) \ {s}
      BY <1>1, OthersKept
    <2>3. s \in AheadOf(sess', c) => s \in AheadOf(sess, c)
      OBVIOUS
    <2>4. Covered(metrics[Est], AheadOf(sess', c), metrics[c])
      BY <1>4, <2>1, <2>2, <2>3, CoveredKept
    <2> QED  BY <1>4, <2>4
  <1>6. FailedCovered'
    <2> DEFINE big == metrics["rx_notification"] + metrics["hold_timer_expirations"]
    <2>1. Covered(metrics["sessions_failed"], FailingOf(sess), big)
      BY DEF CountersInv, FailedCovered
    <2>2. FailingOf(sess') \ {s} = FailingOf(sess) \ {s}
      BY <1>1, OthersKept
    <2>3. big \in Nat
      BY <1>4
    <2> HIDE DEF big
    <2>4. Covered(metrics["sessions_failed"], FailingOf(sess'), big)
      BY <1>4, <2>1, <2>2, <2>3, CoveredKept
    <2> QED  BY <1>4, <2>4 DEF FailedCovered, big
  <1>7. NotifiedCovered'
    <2>1. Covered(metrics["tx_notification"], NotifyingOf(sess), metrics["hold_timer_expirations"])
      BY DEF CountersInv, NotifiedCovered
    <2>2. NotifyingOf(sess') \ {s} = NotifyingOf(sess) \ {s}
      BY <1>1, OthersKept
    <2>3. Covered(metrics["tx_notification"], NotifyingOf(sess'), metrics["hold_timer_expirations"])
      BY <1>4, <2>1, <2>2, CoveredKept
    <2> QED  BY <1>4, <2>3 DEF NotifiedCovered
  <1>8. RoutesCovered'
    <2> DEFINE old == KnownOf(sess, adj)
               new == KnownOf(sess', adj')
    <2>1. IsFiniteSet(old) /\ Cardinality(old) \in Nat /\ Cardinality(new) \in Nat
      BY KnownFinite
    <2>2. Cardinality(old) <= metrics["routes_received"] /\ metrics["routes_loc_rib"] <= metrics["routes_received"]
      BY DEF CountersInv, RoutesCovered
    <2>3. new \subseteq old
      OBVIOUS
    <2> HIDE DEF old, new
    <2>4. Cardinality(new) <= Cardinality(old)
      BY <2>1, <2>3, FS_Subset
    <2>5. /\ Cardinality(new) <= metrics'["routes_received"]
          /\ metrics'["routes_loc_rib"] <= metrics'["routes_received"]
      BY <1>4, <2>1, <2>2, <2>4 DEF new
    <2> QED  BY <2>5 DEF RoutesCovered, new
  <1> QED  BY <1>2, <1>3, <1>5, <1>6, <1>7, <1>8 DEF CountersInv

\* A step of a handler that counts.  What is counted on the smaller side takes
\* the session out of the set, what is counted on the larger one may put it in.
LEMMA AddMove ==
    ASSUME CountersInv, NEW s \in Sessions, NEW n \in Session, NEW todo, NEW e,
           todo = sess[s].todo, todo # <<>>, e = Head(todo), e.op = "add",
           n.phase = sess[s].phase, n.state = sess[s].state, n.todo = Tail(todo),
           sess' = [sess EXCEPT ![s] = n],
           metrics' = [metrics EXCEPT ![e.counter] = @ + e.by], adj' = adj
    PROVE  CountersInv'
  <1> DEFINE rest == Tail(todo)
             state == sess[s].state
             d == e.counter
  <1>1. CountersTypeOK
    BY DEF CountersInv
  <1>2. /\ Plan(todo, state) /\ todo \in Seq(Op) /\ sess[s].phase = "running"
        /\ sess'[s] = n /\ \A z \in Sessions : z # s => sess'[z] = sess[z]
    BY <1>1 DEF CountersInv, Planned, Plan, CountersTypeOK
  <1>3. Plan(rest, state)
    BY <1>2, PlanTail
  <1>4. /\ e \in Op /\ OpOK(e, state) /\ d \in Counters /\ e.by \in Nat
        /\ \A i \in 1..Len(rest) : InTurn(e, rest[i])
    BY <1>2, HeadRules, OpKinds
  <1>5. \A c : Has(todo, c) <=> d = c \/ Has(rest, c)
    BY <1>2, HasTail DEF Adds
  <1>6. /\ \A c \in Counters : metrics[c] \in Nat
        /\ \A c \in Counters : metrics'[c] = IF c = d THEN metrics[c] + e.by ELSE metrics[c]
    BY <1>1 DEF CountersTypeOK
  <1>7. d # "routes_loc_rib" /\ (d \in Singles => e.by = 1) /\ (d = Est => state = "Established")
    BY <1>4 DEF OpOK, Adds, Est
  <1>8. d \in {Est, "sessions_failed"} => \A c : ~Has(rest, c)
    BY <1>4 DEF InTurn, Has, Adds, Est
  <1>9. d = "tx_notification" => ~Has(rest, "tx_notification") /\ ~Has(rest, "hold_timer_expirations")
    BY <1>4 DEF InTurn, Has, Adds
  <1>10. CountersTypeOK' /\ Planned'
    <2>1. metrics' \in [Counters -> Nat]
      BY <1>1, <1>4, <1>6 DEF CountersTypeOK
    <2>2. CountersTypeOK'
      BY <1>1, <2>1 DEF CountersTypeOK
    <2>3. Planned'
      BY <1>2, <1>3 DEF CountersInv, Planned
    <2> QED  BY <2>2, <2>3
  <1>11. /\ Bringing \subseteq Singles /\ Est \in Singles /\ Est \notin Bringing
         /\ {"sessions_failed", "rx_notification", "hold_timer_expirations", "tx_notification"}
              \subseteq Singles \ (Bringing \cup {Est})
         /\ Singles \subseteq Counters
    BY CounterNames DEF Bringing, Singles, Est
  <1> HIDE DEF rest, state, d
  <1>12. EstCovered'
    <2> SUFFICES ASSUME NEW c \in Bringing
                 PROVE  Covered(metrics'[Est], AheadOf(sess', c), metrics'[c])
      BY DEF EstCovered
    <2> DEFINE W == AheadOf(sess, c)
               V == AheadOf(sess', c)
    <2>1. Covered(metrics[Est], W, metrics[c]) /\ V \ {s} = W \ {s}
      BY <1>1, OthersKept DEF CountersInv, EstCovered
    <2>2. /\ s \in W <=> (state \in Stage(c) \/ Has(todo, Est)) /\ ~Has(todo, c)
          /\ s \in V <=> (state \in Stage(c) \/ Has(rest, Est)) /\ ~Has(rest, c)
      BY <1>2 DEF AheadOf, state, rest
    <2>3. metrics[Est] \in Nat /\ metrics[c] \in Nat /\ c \in Counters /\ c # Est /\ Est \in Counters
      BY <1>6, <1>11
    <2> HIDE DEF W, V
    <2>4. CASE d = Est
      <3>1. state \notin Stage(c) /\ ~Has(rest, Est) /\ ~Has(rest, c)
        BY <1>7, <1>8, <2>4 DEF Stage
      <3>2. s \in W /\ s \notin V
        BY <1>5, <2>2, <2>3, <2>4, <3>1
      <3>3. metrics'[Est] = metrics[Est] + 1 /\ metrics'[c] = metrics[c]
        BY <1>6, <1>7, <1>11, <2>3, <2>4
      <3>4. Covered(metrics[Est] + 1, V, metrics[c])
        BY <2>1, <2>3, <3>2, CoveredLoss
      <3> QED  BY <3>3, <3>4 DEF V
    <2>5. CASE d = c
      <3>1. metrics'[Est] = metrics[Est] /\ metrics'[c] = metrics[c] + 1
        BY <1>6, <1>7, <1>11, <2>3, <2>5
      <3>2. Covered(metrics[Est], V, metrics[c] + 1)
        BY <2>1, <2>3, CoveredGain
      <3> QED  BY <3>1, <3>2 DEF V
    <2>6. CASE d # Est /\ d # c
      <3>1. metrics'[Est] = metrics[Est] /\ metrics'[c] = metrics[c]
        BY <1>6, <2>3, <2>6
      <3>2. s \in V => s \in W
        BY <1>5, <2>2, <2>6
      <3> QED  BY <2>1, <2>3, <3>1, <3>2, CoveredKept DEF V
    <2> QED  BY <2>4, <2>5, <2>6
  <1>13. FailedCovered'
    <2> DEFINE W == FailingOf(sess)
               V == FailingOf(sess')
               f == "sessions_failed"
               x == "rx_notification"
               y == "hold_timer_expirations"
               big == metrics[x] + metrics[y]
    <2>1. Covered(metrics[f], W, big) /\ V \ {s} = W \ {s}
      BY <1>1, OthersKept DEF CountersInv, FailedCovered
    <2>2. /\ s \in W <=> Has(todo, f) /\ ~Has(todo, x) /\ ~Has(todo, y)
          /\ s \in V <=> Has(rest, f) /\ ~Has(rest, x) /\ ~Has(rest, y)
      BY <1>2 DEF FailingOf, rest
    <2>3. metrics[f] \in Nat /\ metrics[x] \in Nat /\ metrics[y] \in Nat /\ big \in Nat
      BY <1>6, <1>11
    <2>4. /\ metrics'[f] = IF d = f THEN metrics[f] + 1 ELSE metrics[f]
          /\ metrics'[x] + metrics'[y] = IF d = x \/ d = y THEN big + 1 ELSE big
      <3>1. {f, x, y} \subseteq Singles /\ {f, x, y} \subseteq Counters
        BY <1>11
      <3>2. ASSUME NEW c \in {f, x, y}
            PROVE  metrics'[c] = IF d = c THEN metrics[c] + 1 ELSE metrics[c]
        BY <1>6, <1>7, <3>1
      <3>3. /\ metrics'[f] = IF d = f THEN metrics[f] + 1 ELSE metrics[f]
            /\ metrics'[x] = IF d = x THEN metrics[x] + 1 ELSE metrics[x]
            /\ metrics'[y] = IF d = y THEN metrics[y] + 1 ELSE metrics[y]
        BY <3>2
      <3>4. CASE d = x
        BY <2>3, <3>3, <3>4
      <3>5. CASE d = y
        BY <2>3, <3>3, <3>5
      <3>6. CASE d # x /\ d # y
        BY <3>3, <3>6
      <3> QED  BY <3>4, <3>5, <3>6
    <2>5. FailedCovered' <=> Covered(metrics'[f], V, metrics'[x] + metrics'[y])
      BY DEF FailedCovered
    <2> HIDE DEF W, V, big
    <2>6. CASE d = f
      <3>1. s \in W /\ s \notin V
        BY <1>5, <1>8, <2>2, <2>6
      <3>2. metrics'[f] = metrics[f] + 1 /\ metrics'[x] + metrics'[y] = big
        BY <2>4, <2>6
      <3> QED  BY <2>1, <2>3, <2>5, <3>1, <3>2, CoveredLoss
    <2>7. CASE d = x \/ d = y
      <3>1. metrics'[f] = metrics[f] /\ metrics'[x] + metrics'[y] = big + 1
        BY <2>4, <2>7
      <3> QED  BY <2>1, <2>3, <2>5, <3>1, CoveredGain
    <2>8. CASE d # f /\ d # x /\ d # y
      <3>1. metrics'[f] = metrics[f] /\ metrics'[x] + metrics'[y] = big
        BY <2>4, <2>8
      <3>2. s \in V => s \in W
        BY <1>5, <2>2, <2>8
      <3> QED  BY <2>1, <2>3, <2>5, <3>1, <3>2, CoveredKept
    <2> QED  BY <2>6, <2>7, <2>8
  <1>14. NotifiedCovered'
    <2> DEFINE W == NotifyingOf(sess)
               V == NotifyingOf(sess')
               x == "tx_notification"
               y == "hold_timer_expirations"
    <2>1. Covered(metrics[x], W, metrics[y]) /\ V \ {s} = W \ {s}
      BY <1>1, OthersKept DEF CountersInv, NotifiedCovered
    <2>2. /\ s \in W <=> Has(todo, x) /\ ~Has(todo, y)
          /\ s \in V <=> Has(rest, x) /\ ~Has(rest, y)
      BY <1>2 DEF NotifyingOf, rest
    <2>3. metrics[x] \in Nat /\ metrics[y] \in Nat
      BY <1>6, <1>11
    <2>4. /\ metrics'[x] = IF d = x THEN metrics[x] + 1 ELSE metrics[x]
          /\ metrics'[y] = IF d = y THEN metrics[y] + 1 ELSE metrics[y]
      BY <1>6, <1>7, <1>11, <2>3
    <2>5. NotifiedCovered' <=> Covered(metrics'[x], V, metrics'[y])
      BY DEF NotifiedCovered
    <2> HIDE DEF W, V
    <2>6. CASE d = x
      <3>1. s \in W /\ s \notin V
        BY <1>5, <1>9, <2>2, <2>6
      <3>2. metrics'[x] = metrics[x] + 1 /\ metrics'[y] = metrics[y]
        BY <2>4, <2>6
      <3> QED  BY <2>1, <2>3, <2>5, <3>1, <3>2, CoveredLoss
    <2>7. CASE d = y
      <3>1. metrics'[x] = metrics[x] /\ metrics'[y] = metrics[y] + 1
        BY <2>4, <2>7
      <3>2. Covered(metrics[x], V, metrics[y] + 1)
        BY <2>1, <2>3, CoveredGain
      <3> QED  BY <2>5, <3>1, <3>2
    <2>8. CASE d # x /\ d # y
      <3>1. metrics'[x] = metrics[x] /\ metrics'[y] = metrics[y]
        BY <2>4, <2>8
      <3>2. s \in V => s \in W
        BY <1>5, <2>2, <2>8
      <3> QED  BY <2>1, <2>3, <2>5, <3>1, <3>2, CoveredKept
    <2> QED  BY <2>6, <2>7, <2>8
  <1>15. RoutesCovered'
    <2> DEFINE old == KnownOf(sess, adj)
               new == KnownOf(sess', adj)
               r == "routes_received"
               g == "routes_loc_rib"
    <2>1. Cardinality(old) <= metrics[r] /\ metrics[g] <= metrics[r]
      BY DEF CountersInv, RoutesCovered
    <2>2. IsFiniteSet(old) /\ Cardinality(old) \in Nat /\ IsFiniteSet(new) /\ Cardinality(new) \in Nat
      BY KnownFinite
    <2>3. new \subseteq old \cup Counted(rest)
      BY <1>2 DEF KnownOf, rest
    <2>4. /\ metrics[r] \in Nat /\ metrics[g] \in Nat /\ metrics'[g] = metrics[g]
          /\ metrics'[r] = IF d = r THEN metrics[r] + e.by ELSE metrics[r]
      BY <1>6, <1>7, CounterNames
    <2>5. RoutesCovered' <=> Cardinality(new) <= metrics'[r] /\ metrics'[g] <= metrics'[r]
      BY DEF RoutesCovered
    <2>6. Counted(todo) \subseteq old
      BY DEF KnownOf, Counted
    <2>7. ASSUME d # r PROVE Counted(rest) \subseteq Counted(todo)
      <3> SUFFICES ASSUME NEW k \in Counted(rest) PROVE k \in Counted(todo)
        OBVIOUS
      <3>1. PICK i \in 1..Len(rest) : rest[i].op = "update" /\ k \in rest[i].nlri
        BY DEF Counted
      <3>2. i + 1 \in 1..Len(todo) /\ rest[i] = todo[i + 1]
        BY <1>2, TailFacts DEF rest
      <3>3. ~Has(todo, r)
        BY <1>5, <2>7 DEF Counted
      <3> QED  BY <3>1, <3>2, <3>3 DEF Counted
    <2>8. ASSUME d = r, Counted(rest) # {}
          PROVE  IsFiniteSet(Counted(rest)) /\ Cardinality(Counted(rest)) <= e.by
      <3>1. PICK i \in 1..Len(rest) : rest[i].op = "update"
        BY <2>8 DEF Counted
      <3>2. e.by = Cardinality(rest[i].nlri)
        BY <1>4, <2>8, <3>1 DEF InTurn, Adds, d
      <3>3. Counted(rest) \subseteq rest[i].nlri
        <4>1. \A j \in 1..Len(rest) : rest[j].op = "update" => j = i
          <5> SUFFICES ASSUME NEW j \in 1..Len(rest), rest[j].op = "update", j # i PROVE FALSE
            OBVIOUS
          <5>1. j < i \/ i < j
            BY <1>3 DEF Plan
          <5> QED  BY <1>3, <3>1, <5>1 DEF Plan, InTurn
        <4> QED  BY <4>1 DEF Counted
      <3>4. rest[i].nlri \subseteq Nlri
        <4>1. rest[i] \in Op
          BY <1>3 DEF Plan
        <4> QED  BY <3>1, <4>1, OpKinds
      <3>5. IsFiniteSet(rest[i].nlri)
        BY <3>4, ManagementAssumption, FS_Subset
      <3> QED  BY <3>2, <3>3, <3>5, FS_Subset
    <2> HIDE DEF old, new
    <2>9. CASE d # r \/ Counted(rest) = {}
      <3>1. new \subseteq old
        BY <2>3, <2>6, <2>7, <2>9
      <3>2. Cardinality(new) <= Cardinality(old)
        BY <2>2, <3>1, FS_Subset
      <3> QED  BY <1>4, <2>1, <2>2, <2>4, <2>5, <3>2
    <2>10. CASE d = r /\ Counted(rest) # {}
      <3> DEFINE C == Counted(rest)
      <3>1. IsFiniteSet(C) /\ Cardinality(C) <= e.by /\ Cardinality(C) \in Nat
        BY <2>8, <2>10, FS_CardinalityType
      <3> HIDE DEF C
      <3>2. /\ IsFiniteSet(old \cup C)
            /\ Cardinality(old \cup C) = Cardinality(old) + Cardinality(C) - Cardinality(old \cap C)
        BY <2>2, <3>1, FS_Union
      <3>3. Cardinality(old \cap C) \in Nat
        BY <2>2, FS_Intersection, FS_CardinalityType
      <3>4. Cardinality(new) <= Cardinality(old \cup C)
        BY <2>3, <3>2, FS_Subset DEF C
      <3>5. Cardinality(old \cup C) \in Nat
        BY <3>2, FS_CardinalityType
      <3>6. metrics'[r] = metrics[r] + e.by
        BY <2>4, <2>10
      <3>7. Cardinality(old \cup C) <= Cardinality(old) + e.by
        BY <1>4, <2>2, <3>1, <3>2, <3>3
      <3>8. Cardinality(new) <= metrics'[r]
        BY <1>4, <2>1, <2>2, <2>4, <3>4, <3>5, <3>6, <3>7
      <3>9. metrics'[g] <= metrics'[r]
        BY <1>4, <2>1, <2>4, <3>6
      <3> QED  BY <2>5, <3>8, <3>9
    <2> QED  BY <2>9, <2>10
  <1> QED  BY <1>10, <1>12, <1>13, <1>14, <1>15 DEF CountersInv

\* Blocks of the RIB hold no more prefixes than are known.
LEMMA LocRibKnown ==
    ASSUME NEW se, NEW a \in [Sessions -> SUBSET Nlri]
    PROVE  LocRibCount(a) <= Cardinality(KnownOf(se, a))
  <1> DEFINE U == UNION {a[s] : s \in Sessions}
  <1>1. U \subseteq KnownOf(se, a)
    BY DEF KnownOf
  <1>2. Cardinality(U) <= Cardinality(KnownOf(se, a))
    <2> HIDE DEF U
    <2> QED  BY <1>1, KnownFinite, FS_Subset
  <1> QED  BY <1>2 DEF LocRibCount

\* What a step does to the record of a session, field by field.
LEMMA SessionRecord ==
    ASSUME NEW r \in Session, NEW t, NEW p
    PROVE  [[r EXCEPT !.todo = t] EXCEPT !.phase = p]
             = [phase |-> p, state |-> r.state, armed |-> r.armed, todo |-> t]
  <1> DEFINE q == [[r EXCEPT !.todo = t] EXCEPT !.phase = p]
             z == [phase |-> p, state |-> r.state, armed |-> r.armed, todo |-> t]
             D == {"phase", "state", "armed", "todo"}
  <1>1. DOMAIN r = D /\ r = [x \in D |-> r[x]]
    BY DEF Session
  <1>2. q = [x \in D |-> q[x]]
    BY <1>1
  <1>3. z = [x \in D |-> z[x]]
    OBVIOUS
  <1>4. q["phase"] = z["phase"] /\ q["todo"] = z["todo"]
    BY <1>1
  <1>5. q["state"] = z["state"]
    BY <1>1
  <1>6. q["armed"] = z["armed"]
    BY <1>1
  <1> HIDE DEF q, z
  <1>7. \A x \in D : q[x] = z[x]
    BY <1>4, <1>5, <1>6
  <1>8. q = z
    BY <1>2, <1>3, <1>7
  <1> QED  BY <1>8 DEF q, z

LEMMA StepPreserves ==
    ASSUME CountersInv, NEW s \in Sessions, Step(s)
    PROVE  CountersInv'
  <1> DEFINE todo == sess[s].todo
             e == Head(todo)
             rest == Tail(todo)
             n == [phase |-> IF e = End THEN "ended" ELSE sess[s].phase,
                   state |-> sess[s].state, armed |-> sess[s].armed, todo |-> rest]
  <1>1. /\ CountersTypeOK /\ sess[s] \in Session /\ todo # <<>> /\ Effect(s, e)
        /\ Plan(todo, sess[s].state) /\ sess[s].phase = "running" /\ todo \in Seq(Op)
    BY DEF CountersInv, CountersTypeOK, Planned, Plan, Step
  <1>2. /\ Plan(rest, sess[s].state) /\ rest \in Seq(Op)
        /\ e \in Op /\ OpOK(e, sess[s].state)
        /\ \A i \in 1..Len(rest) : InTurn(e, rest[i])
    BY <1>1, PlanTail, HeadRules DEF Plan
  <1>3. n \in Session
    BY <1>1, <1>2 DEF Session
  <1>4. sess' = [sess EXCEPT ![s] = n]
    <2>1. sess' = [sess EXCEPT ![s].todo = Tail(@),
                               ![s].phase = IF e = End THEN "ended" ELSE @]
      BY DEF Step
    <2>2. [[sess[s] EXCEPT !.todo = Tail(@)] EXCEPT !.phase = IF e = End THEN "ended" ELSE @] = n
      <3>1. \A t, p : [[sess[s] EXCEPT !.todo = t] EXCEPT !.phase = p]
                        = [phase |-> p, state |-> sess[s].state, armed |-> sess[s].armed, todo |-> t]
        BY <1>1, SessionRecord
      <3> QED  BY <1>1, <3>1 DEF Session
    <2>3. sess \in [Sessions -> Session]
      BY <1>1 DEF CountersTypeOK
    <2> QED  BY <2>1, <2>2, <2>3
  <1>5. /\ n.todo = rest /\ n.state = sess[s].state
        /\ n.phase = IF e = End THEN "ended" ELSE sess[s].phase
    OBVIOUS
  <1> HIDE DEF n
  <1>6. rest # <<>> => e # End
    <2> SUFFICES ASSUME rest # <<>>, e = End PROVE FALSE
      OBVIOUS
    <2>1. 1 \in 1..Len(rest)
      BY <1>2
    <2>2. InTurn(e, rest[1])
      BY <1>2, <2>1
    <2> QED  BY <2>2 DEF InTurn, End
  <1>7. CASE e.op = "add"
    <2>1. metrics' = [metrics EXCEPT ![e.counter] = @ + e.by] /\ adj' = adj
      BY <1>1, <1>7 DEF Effect
    <2>2. e # End
      BY <1>7 DEF End
    <2>3. n.phase = sess[s].phase
      BY <1>5, <2>2
    <2> QED  BY <1>1, <1>3, <1>4, <1>5, <1>7, <2>1, <2>3, AddMove
  <1>8. CASE e.op # "add"
    <2>1. \A c : Has(todo, c) <=> Has(rest, c)
      BY <1>1, <1>8, HasTail DEF Adds
    <2>2. sess'[s] = n /\ \A z \in Sessions : z # s => sess'[z] = sess[z]
      BY <1>1, <1>4 DEF CountersTypeOK
    <2>3. \A c \in Bringing : s \in AheadOf(sess', c) => s \in AheadOf(sess, c)
      BY <1>1, <1>5, <2>1, <2>2 DEF AheadOf
    <2>4. s \in FailingOf(sess') => s \in FailingOf(sess)
      BY <1>5, <2>1, <2>2 DEF FailingOf
    <2>5. s \in NotifyingOf(sess') => s \in NotifyingOf(sess)
      BY <1>5, <2>1, <2>2 DEF NotifyingOf
    <2>6. Counted(rest) \subseteq Counted(todo)
      <3> SUFFICES ASSUME NEW k \in Counted(rest) PROVE k \in Counted(todo)
        OBVIOUS
      <3>1. PICK i \in 1..Len(rest) : rest[i].op = "update" /\ k \in rest[i].nlri
        BY DEF Counted
      <3>2. i + 1 \in 1..Len(todo) /\ rest[i] = todo[i + 1]
        BY <1>1, TailFacts
      <3> HIDE DEF todo, rest
      <3> QED  BY <2>1, <3>1, <3>2 DEF Counted
    <2>7. metrics \in [Counters -> Nat] /\ adj \in [Sessions -> SUBSET Nlri]
      BY <1>1 DEF CountersTypeOK
    <2>8. ASSUME adj' \in [Sessions -> SUBSET Nlri],
                 \A z \in Sessions : z # s => adj'[z] = adj[z],
                 adj'[s] \subseteq adj[s] \cup Counted(todo)
          PROVE  KnownOf(sess', adj') \subseteq KnownOf(sess, adj)
      BY <1>5, <2>2, <2>6, <2>8 DEF KnownOf
    <2>9. n.todo # <<>> => n.phase = "running"
      BY <1>1, <1>5, <1>6
    <2>10. Plan(n.todo, n.state)
      BY <1>2, <1>5
    <2> HIDE DEF e, rest
    <2>11. CASE e.op = "inactive"
      <3>1. metrics' = [metrics EXCEPT !["sessions_active"] = 0] /\ adj' = adj
        BY <1>1, <2>11 DEF Effect
      <3>2. metrics' \in [Counters -> Nat] /\ metrics'["routes_loc_rib"] = metrics["routes_loc_rib"]
        BY <2>7, <3>1, CounterNames
      <3>3. \A c \in Counters : c \notin {"sessions_active", "routes_loc_rib"} => metrics'[c] = metrics[c]
        BY <2>7, <3>1
      <3>4. KnownOf(sess', adj') \subseteq KnownOf(sess, adj)
        BY <2>7, <2>8, <3>1
      <3> QED  BY <1>3, <1>4, <2>3, <2>4, <2>5, <2>7, <2>9, <2>10, <3>1, <3>2, <3>3, <3>4, QuietMove
    <2>12. CASE e.op = "leave"
      <3>1. metrics' = metrics /\ adj' = [adj EXCEPT ![s] = {}]
        BY <1>1, <2>12 DEF Effect
      <3>2. /\ adj' \in [Sessions -> SUBSET Nlri] /\ adj'[s] = {}
            /\ \A z \in Sessions : z # s => adj'[z] = adj[z]
        BY <2>7, <3>1
      <3>3. KnownOf(sess', adj') \subseteq KnownOf(sess, adj)
        BY <2>8, <3>2
      <3> QED  BY <1>3, <1>4, <2>3, <2>4, <2>5, <2>7, <2>9, <2>10, <3>1, <3>2, <3>3, QuietMove
    <2>13. CASE e.op = "try" \/ e.op = "end"
      <3>1. metrics' = metrics /\ adj' = adj
        BY <1>1, <2>13 DEF Effect
      <3>2. KnownOf(sess', adj') \subseteq KnownOf(sess, adj)
        BY <2>7, <2>8, <3>1
      <3> QED  BY <1>3, <1>4, <2>3, <2>4, <2>5, <2>7, <2>9, <2>10, <3>1, <3>2, QuietMove
    <2>14. CASE e.op = "update"
      <3>1. StoreUpdate(s, e)
        BY <1>1, <2>14 DEF Effect
      <3>2. PICK accepted \in SUBSET e.nlri :
              /\ adj' = [adj EXCEPT ![s] = (@ \cup accepted) \ e.withdrawn]
              /\ metrics' = [metrics EXCEPT !["routes_loc_rib"] = LocRibCount(adj')]
        BY <3>1 DEF StoreUpdate
      <3>3. e.nlri \in SUBSET Nlri
        BY <1>2, <2>14, OpKinds
      <3>4. /\ adj' \in [Sessions -> SUBSET Nlri] /\ adj'[s] \subseteq adj[s] \cup e.nlri
            /\ \A z \in Sessions : z # s => adj'[z] = adj[z]
        BY <2>7, <3>2, <3>3
      <3>5. e.nlri \subseteq Counted(todo)
        <4>1. 1 \in 1..Len(todo) /\ todo[1] = e
          BY <1>1, TailFacts DEF e
        <4>2. ~Has(rest, "routes_received")
          BY <1>2, <2>14 DEF InTurn, Has, Adds
        <4> HIDE DEF todo
        <4> QED  BY <2>1, <2>14, <3>3, <4>1, <4>2 DEF Counted
      <3>6. KnownOf(sess', adj') \subseteq KnownOf(sess, adj)
        BY <2>8, <3>4, <3>5
      <3>7. LocRibCount(adj') <= Cardinality(KnownOf(sess', adj')) /\ LocRibCount(adj') \in Nat
        <4>1. LocRibCount(adj') <= Cardinality(KnownOf(sess', adj'))
          BY <3>4, LocRibKnown
        <4>2. UNION {adj'[z] : z \in Sessions} \subseteq Nlri
          BY <3>4
        <4>3. LocRibCount(adj') \in Nat
          BY <4>2, ManagementAssumption, FS_Subset, FS_CardinalityType DEF LocRibCount
        <4> QED  BY <4>1, <4>3
      <3>8. /\ metrics' \in [Counters -> Nat] /\ metrics'["routes_loc_rib"] = LocRibCount(adj')
            /\ \A c \in Counters : c \notin {"sessions_active", "routes_loc_rib"} => metrics'[c] = metrics[c]
        BY <2>7, <3>2, <3>7, CounterNames
      <3> QED  BY <1>3, <1>4, <2>3, <2>4, <2>5, <2>9, <2>10, <3>4, <3>6, <3>7, <3>8, QuietMove
    <2>15. e.op \in {"inactive", "try", "leave", "end", "update"}
      BY <1>2, <1>8, OpKinds
    <2> QED  BY <2>11, <2>12, <2>13, <2>14, <2>15
  <1> QED  BY <1>7, <1>8

LEMMA FailPreserves ==
    ASSUME CountersInv, NEW s \in Sessions, Fail(s)
    PROVE  CountersInv'
  <1> DEFINE n == [phase |-> "ended", state |-> sess[s].state, armed |-> sess[s].armed, todo |-> <<>>]
  <1>1. CountersTypeOK /\ sess[s] \in Session /\ metrics' = metrics /\ adj' = adj
    BY DEF CountersInv, CountersTypeOK, Fail
  <1>2. n \in Session
    BY <1>1 DEF Session
  <1>3. sess' = [sess EXCEPT ![s] = n]
    <2>1. sess' = [sess EXCEPT ![s].todo = <<>>, ![s].phase = "ended"]
      BY DEF Fail
    <2>2. [[sess[s] EXCEPT !.todo = <<>>] EXCEPT !.phase = "ended"] = n
      BY <1>1, SessionRecord
    <2>3. sess \in [Sessions -> Session]
      BY <1>1 DEF CountersTypeOK
    <2> QED  BY <2>1, <2>2, <2>3
  <1>4. n.todo = <<>> /\ n.phase = "ended"
    OBVIOUS
  <1> HIDE DEF n
  <1>5. sess'[s] = n /\ \A z \in Sessions : z # s => sess'[z] = sess[z]
    BY <1>1, <1>3 DEF CountersTypeOK
  <1>6. Plan(n.todo, n.state) /\ (\A c : ~Has(n.todo, c)) /\ Counted(n.todo) = {}
    BY <1>4, EmptyPlan
  <1>7. /\ \A c \in Bringing : s \notin AheadOf(sess', c)
        /\ s \notin FailingOf(sess') /\ s \notin NotifyingOf(sess')
    BY <1>4, <1>5, <1>6 DEF AheadOf, FailingOf, NotifyingOf
  <1>8. KnownOf(sess', adj') \subseteq KnownOf(sess, adj)
    BY <1>1, <1>5, <1>6 DEF KnownOf
  <1>9. metrics \in [Counters -> Nat] /\ adj \in [Sessions -> SUBSET Nlri]
    BY <1>1 DEF CountersTypeOK
  <1> QED  BY <1>1, <1>2, <1>3, <1>4, <1>6, <1>7, <1>8, <1>9, QuietMove

\* A handler begins in a session whose last one has returned.
LEMMA BeginPreserves ==
    ASSUME CountersInv, NEW s \in Sessions, NEW state \in BgpState, NEW armed \in BOOLEAN, NEW todo,
           Begin(s, state, armed, todo), sess[s].todo = <<>>,
           Plan(todo, state), Counted(todo) = {},
           \A c \in Bringing : (state \in Stage(c) \/ Has(todo, Est)) =>
             Has(todo, c) \/ (sess[s].phase = "running" /\ sess[s].state \in Stage(c)),
           Has(todo, "sessions_failed") =>
             Has(todo, "rx_notification") \/ Has(todo, "hold_timer_expirations"),
           Has(todo, "tx_notification") => Has(todo, "hold_timer_expirations")
    PROVE  CountersInv'
  <1> DEFINE n == [phase |-> "running", state |-> state, armed |-> armed, todo |-> todo]
  <1>1. /\ CountersTypeOK /\ metrics' = metrics /\ adj' = adj /\ sess' = [sess EXCEPT ![s] = n]
    BY DEF CountersInv, Begin
  <1>2. n \in Session /\ n.todo = todo /\ n.state = state /\ n.phase = "running"
    BY DEF Session, Plan
  <1> HIDE DEF n
  <1>3. sess'[s] = n /\ \A z \in Sessions : z # s => sess'[z] = sess[z]
    BY <1>1 DEF CountersTypeOK
  <1>4. \A c : ~Has(sess[s].todo, c)
    BY EmptyPlan
  <1>5. \A c \in Bringing : s \in AheadOf(sess', c) => s \in AheadOf(sess, c)
    BY <1>2, <1>3, <1>4 DEF AheadOf
  <1>6. s \notin FailingOf(sess') /\ s \notin NotifyingOf(sess')
    BY <1>2, <1>3 DEF FailingOf, NotifyingOf
  <1>7. KnownOf(sess', adj') \subseteq KnownOf(sess, adj)
    BY <1>1, <1>2, <1>3 DEF KnownOf
  <1>8. metrics \in [Counters -> Nat] /\ adj \in [Sessions -> SUBSET Nlri]
    BY <1>1 DEF CountersTypeOK
  <1> QED  BY <1>1, <1>2, <1>5, <1>6, <1>7, <1>8, QuietMove

\* The transitions that handlers make.  None leads to a state on the way up
\* but the OPEN.
LEMMA Transitions ==
    ASSUME NEW st \in BgpState
    PROVE  /\ IncomingState = "OpenSent" /\ IncomingState \in BgpState
           /\ Transition(st, "BgpOpen") = IF st = "OpenSent" THEN "OpenConfirm" ELSE st
           /\ Transition(st, "BgpOpen") \in BgpState
           /\ Transition("OpenConfirm", "KeepAliveMsg") = "Established"
           /\ "Established" \in BgpState
           /\ \A v \in {"UpdateMsg", "NotifMsg", "HoldTimerExpired", "TcpConnectionFail"} :
                /\ Transition(st, v) \in BgpState
                /\ Transition(st, v) \in {"OpenSent", "OpenConfirm"} => Transition(st, v) = st
  <1>1. IncomingState = "OpenSent"
    BY DEF IncomingState, Transition
  <1>2. Transition(st, "BgpOpen") = IF st = "OpenSent" THEN "OpenConfirm" ELSE st
    BY DEF BgpState, Transition
  <1>3. Transition("OpenConfirm", "KeepAliveMsg") = "Established"
    BY DEF Transition
  <1>4. ASSUME NEW v \in {"UpdateMsg", "NotifMsg", "HoldTimerExpired", "TcpConnectionFail"}
        PROVE  /\ Transition(st, v) \in BgpState
               /\ Transition(st, v) \in {"OpenSent", "OpenConfirm"} => Transition(st, v) = st
    BY DEF BgpState, Transition
  <1> QED  BY <1>1, <1>2, <1>3, <1>4 DEF BgpState

\* Every handler that starts is one that BeginPreserves speaks of.
LEMMA HandlersPreserve ==
    ASSUME CountersInv, NEW s \in Sessions,
           \/ Accept(s) \/ RecvOpen(s) \/ RecvKeepalive(s)
           \/ \E nlri \in SUBSET Nlri, withdrawn \in SUBSET Nlri : RecvUpdate(s, nlri, withdrawn)
           \/ RecvNotification(s) \/ HoldExpires(s) \/ SendKeepalive(s) \/ Eof(s)
    PROVE  CountersInv'
  <1> DEFINE st == sess[s].state
             Mid == {"OpenSent", "OpenConfirm"}
  <1>1. sess[s] \in Session /\ st \in BgpState /\ sess[s].armed \in BOOLEAN
    BY DEF CountersInv, CountersTypeOK, Session
  <1>2. sess[s].phase # "running" => sess[s].todo = <<>>
    BY DEF CountersInv, Planned
  <1>3. /\ \A c \in Bringing : Stage(c) \subseteq Mid
        /\ "rx_open" \in Bringing /\ "tx_open" \in Bringing
        /\ Stage("tx_open") = Mid
        /\ \A c \in Bringing : c # "tx_open" => Stage(c) \subseteq {"OpenConfirm"}
        /\ \A c \in Bringing : c # "rx_keepalive" => "OpenConfirm" \in Stage(c)
    BY DEF Bringing, Stage
  <1> HIDE DEF st
  \* A handler that leaves the state alone as long as the session is coming
  \* up, and that counts no session as established.
  <1>4. ASSUME NEW state \in BgpState, NEW armed \in BOOLEAN, NEW todo, Idle(s),
               Begin(s, state, armed, todo), Plan(todo, state), Counted(todo) = {},
               state \in Mid => state = st, ~Has(todo, Est),
               Has(todo, "sessions_failed") =>
                 Has(todo, "rx_notification") \/ Has(todo, "hold_timer_expirations"),
               Has(todo, "tx_notification") => Has(todo, "hold_timer_expirations")
        PROVE  CountersInv'
    <2>1. sess[s].todo = <<>> /\ sess[s].phase = "running"
      BY <1>4 DEF Idle
    <2>2. \A c \in Bringing : (state \in Stage(c) \/ Has(todo, Est)) =>
            Has(todo, c) \/ (sess[s].phase = "running" /\ sess[s].state \in Stage(c))
      BY <1>3, <1>4, <2>1 DEF st
    <2> QED  BY <1>4, <2>1, <2>2, BeginPreserves
  <1>5. CASE Accept(s)
    <2> DEFINE state == IncomingState
    <2>1. Begin(s, state, FALSE, OnAccept) /\ sess[s].todo = <<>>
      BY <1>2, <1>5 DEF Accept
    <2>2. state \in BgpState /\ state = "OpenSent"
      BY <1>1, Transitions
    <2>3. /\ Plan(OnAccept, state) /\ Counted(OnAccept) = {}
          /\ \A c : Has(OnAccept, c) <=> c \in {"sessions_active", "tx_open"}
      BY OnAcceptPlan
    <2> HIDE DEF state
    <2>4. \A c \in Bringing : (state \in Stage(c) \/ Has(OnAccept, Est)) => Has(OnAccept, c)
      BY <1>3, <2>2, <2>3 DEF Est
    <2>5. ~Has(OnAccept, "sessions_failed") /\ ~Has(OnAccept, "tx_notification")
      BY <2>3
    <2> QED  BY <2>1, <2>2, <2>3, <2>4, <2>5, BeginPreserves
  <1>6. CASE RecvOpen(s)
    <2> DEFINE state == Transition(st, "BgpOpen")
    <2>1. Begin(s, state, TRUE, OnOpen) /\ sess[s].todo = <<>> /\ sess[s].phase = "running"
      BY <1>6 DEF RecvOpen, Idle, st
    <2>2. state \in BgpState /\ state = IF st = "OpenSent" THEN "OpenConfirm" ELSE st
      BY <1>1, Transitions
    <2>3. /\ Plan(OnOpen, state) /\ Counted(OnOpen) = {}
          /\ \A c : Has(OnOpen, c) <=> c \in {"rx_open", "tx_keepalive"}
      BY OnOpenPlan
    <2> HIDE DEF state
    <2>4. \A c \in Bringing : (state \in Stage(c) \/ Has(OnOpen, Est)) =>
            Has(OnOpen, c) \/ (sess[s].phase = "running" /\ sess[s].state \in Stage(c))
      BY <2>1, <2>2, <2>3 DEF Est, Stage, Bringing, st
    <2>5. ~Has(OnOpen, "sessions_failed") /\ ~Has(OnOpen, "tx_notification")
      BY <2>3
    <2> QED  BY <2>1, <2>2, <2>3, <2>4, <2>5, BeginPreserves
  <1>7. CASE RecvKeepalive(s)
    <2> DEFINE todo == OnKeepalive(st)
               state == IF st = "OpenConfirm" THEN Transition(st, "KeepAliveMsg") ELSE st
    <2>1. Begin(s, state, TRUE, todo) /\ Idle(s)
      BY <1>7 DEF RecvKeepalive, st
    <2>2. CASE st = "OpenConfirm"
      <3>1. state = "Established" /\ state \in BgpState
        BY <1>1, <2>2, Transitions
      <3>2. /\ Plan(todo, state) /\ Counted(todo) = {}
            /\ \A c : Has(todo, c) <=> c \in {"rx_keepalive", Est}
        BY <2>2, <3>1, OnKeepaliveConfirmPlan DEF Est
      <3> HIDE DEF state, todo
      <3>3. sess[s].todo = <<>> /\ sess[s].phase = "running" /\ sess[s].state = "OpenConfirm"
        BY <2>1, <2>2 DEF Idle, st
      <3>4. \A c \in Bringing : (state \in Stage(c) \/ Has(todo, Est)) =>
              Has(todo, c) \/ (sess[s].phase = "running" /\ sess[s].state \in Stage(c))
        BY <1>3, <3>2, <3>3
      <3>5. ~Has(todo, "sessions_failed") /\ ~Has(todo, "tx_notification")
        BY <3>2 DEF Est
      <3> QED  BY <2>1, <3>1, <3>2, <3>3, <3>4, <3>5, BeginPreserves
    <2>3. CASE st # "OpenConfirm"
      <3>1. state = st
        BY <2>3
      <3>2. /\ Plan(todo, state) /\ Counted(todo) = {}
            /\ \A c : Has(todo, c) <=> c \in {"rx_keepalive"}
        BY <2>3, OnKeepaliveOtherPlan
      <3> HIDE DEF state, todo
      <3>3. ~Has(todo, Est) /\ ~Has(todo, "sessions_failed") /\ ~Has(todo, "tx_notification")
        BY <3>2 DEF Est
      <3> QED  BY <1>1, <1>4, <2>1, <3>1, <3>2, <3>3
    <2> QED  BY <2>2, <2>3
  <1>8. CASE \E nlri \in SUBSET Nlri, withdrawn \in SUBSET Nlri : RecvUpdate(s, nlri, withdrawn)
    <2>1. PICK nlri \in SUBSET Nlri, withdrawn \in SUBSET Nlri : RecvUpdate(s, nlri, withdrawn)
      BY <1>8
    <2> DEFINE state == Transition(st, "UpdateMsg")
               todo == OnUpdate(nlri, withdrawn)
    <2>2. Begin(s, state, TRUE, todo) /\ Idle(s)
      BY <2>1 DEF RecvUpdate, st
    <2>3. state \in BgpState /\ (state \in Mid => state = st)
      BY <1>1, Transitions
    <2>4. /\ Plan(todo, state) /\ Counted(todo) = {}
          /\ \A c : Has(todo, c) <=> c \in {"rx_update", "routes_received", "routes_withdrawn"}
      BY OnUpdatePlan
    <2> HIDE DEF state, todo
    <2>5. ~Has(todo, Est) /\ ~Has(todo, "sessions_failed") /\ ~Has(todo, "tx_notification")
      BY <2>4 DEF Est
    <2> QED  BY <1>4, <2>2, <2>3, <2>4, <2>5
  <1>9. CASE RecvNotification(s)
    <2> DEFINE state == Transition(st, "NotifMsg")
    <2>1. Begin(s, state, sess[s].armed, OnNotification) /\ Idle(s)
      BY <1>9 DEF RecvNotification, st
    <2>2. state \in BgpState /\ (state \in Mid => state = st)
      BY <1>1, Transitions
    <2>3. /\ Plan(OnNotification, state) /\ Counted(OnNotification) = {}
          /\ \A c : Has(OnNotification, c) <=> c \in {"rx_notification", "sessions_failed"}
      BY OnNotificationPlan
    <2> HIDE DEF state
    <2>4. /\ ~Has(OnNotification, Est) /\ Has(OnNotification, "rx_notification")
          /\ ~Has(OnNotification, "tx_notification")
      BY <2>3 DEF Est
    <2> QED  BY <1>1, <1>4, <2>1, <2>2, <2>3, <2>4
  <1>10. CASE HoldExpires(s)
    <2> DEFINE state == Transition(st, "HoldTimerExpired")
    <2>1. Begin(s, state, TRUE, OnHoldExpired) /\ Idle(s)
      BY <1>10 DEF HoldExpires, st
    <2>2. state \in BgpState /\ (state \in Mid => state = st)
      BY <1>1, Transitions
    <2>3. /\ Plan(OnHoldExpired, state) /\ Counted(OnHoldExpired) = {}
          /\ \A c : Has(OnHoldExpired, c) <=>
                c \in {"hold_timer_expirations", "tx_notification", "sessions_failed"}
      BY OnHoldExpiredPlan
    <2> HIDE DEF state
    <2>4. ~Has(OnHoldExpired, Est) /\ Has(OnHoldExpired, "hold_timer_expirations")
      BY <2>3 DEF Est
    <2> QED  BY <1>4, <2>1, <2>2, <2>3, <2>4
  <1>11. CASE SendKeepalive(s)
    <2>1. Begin(s, st, sess[s].armed, OnKeepaliveDue) /\ Idle(s)
      BY <1>11 DEF SendKeepalive, st
    <2>2. /\ Plan(OnKeepaliveDue, st) /\ Counted(OnKeepaliveDue) = {}
          /\ \A c : Has(OnKeepaliveDue, c) <=> c \in {"tx_keepalive"}
      BY OnKeepaliveDuePlan
    <2>3. /\ ~Has(OnKeepaliveDue, Est) /\ ~Has(OnKeepaliveDue, "sessions_failed")
          /\ ~Has(OnKeepaliveDue, "tx_notification")
      BY <2>2 DEF Est
    <2> QED  BY <1>1, <1>4, <2>1, <2>2, <2>3
  <1>12. CASE Eof(s)
    <2> DEFINE state == Transition(st, "TcpConnectionFail")
    <2>1. Begin(s, state, sess[s].armed, OnEof) /\ Idle(s)
      BY <1>12 DEF Eof, st
    <2>2. state \in BgpState /\ (state \in Mid => state = st)
      BY <1>1, Transitions
    <2>3. /\ Plan(OnEof, state) /\ Counted(OnEof) = {} /\ \A c : ~Has(OnEof, c)
      BY OnEofPlan
    <2> HIDE DEF state
    <2> QED  BY <1>1, <1>4, <2>1, <2>2, <2>3
  <1> QED  BY <1>5, <1>6, <1>7, <1>8, <1>9, <1>10, <1>11, <1>12

LEMMA CountersInit ==
    ManagementInit => CountersInv
  <1> SUFFICES ASSUME ManagementInit PROVE CountersInv
    OBVIOUS
  <1> DEFINE n == [phase |-> "unused", state |-> "Idle", armed |-> FALSE, todo |-> <<>>]
  <1>1. metrics = [c \in Counters |-> 0] /\ sess = [s \in Sessions |-> n] /\ adj = [s \in Sessions |-> {}]
    BY DEF ManagementInit
  <1>2. n \in Session /\ n.todo = <<>> /\ n.phase = "unused"
    BY DEF Session, BgpState
  <1> HIDE DEF n
  <1>3. /\ \A s \in Sessions : sess[s] = n /\ adj[s] = {}
        /\ \A c \in Counters : metrics[c] = 0
        /\ CountersTypeOK
    BY <1>1, <1>2 DEF CountersTypeOK
  <1>4. Planned
    BY <1>2, <1>3, EmptyPlan DEF Planned
  <1>5. /\ \A c : AheadOf(sess, c) = {}
        /\ FailingOf(sess) = {} /\ NotifyingOf(sess) = {} /\ KnownOf(sess, adj) = {}
    BY <1>2, <1>3, EmptyPlan DEF AheadOf, FailingOf, NotifyingOf, KnownOf
  <1>6. IsFiniteSet({}) /\ Cardinality({}) = 0
    BY FS_EmptySet
  <1>7. Covered(0, {}, 0) /\ Covered(0, {}, 0 + 0)
    BY <1>6 DEF Covered
  <1>8. EstCovered
    <2>1. Bringing \subseteq Counters /\ Est \in Counters
      BY CounterNames DEF Bringing, Est
    <2> QED  BY <1>3, <1>5, <1>7, <2>1 DEF EstCovered
  <1>9. FailedCovered /\ NotifiedCovered
    BY <1>3, <1>5, <1>7, CounterNames DEF FailedCovered, NotifiedCovered
  <1>10. RoutesCovered
    BY <1>3, <1>5, <1>6, CounterNames DEF RoutesCovered
  <1> QED  BY <1>3, <1>4, <1>8, <1>9, <1>10 DEF CountersInv

-----------------------------------------------------------------------------
(* Reports *)

\* Both orders, place by place.
LEMMA OrderPlaces ==
    ASSUME NEW o \in {PrometheusOrder, SummaryOrder}
    PROVE  /\ DOMAIN o = 1..18
           /\ o[1] = "sessions_active"     /\ o[2] = "sessions_established"
           /\ o[3] = "sessions_failed"     /\ o[4] = "rx_open"
           /\ o[5] = "rx_keepalive"        /\ o[6] = "rx_update"
           /\ o[7] = "rx_notification"     /\ o[8] = "tx_open"
           /\ o[9] = "tx_keepalive"        /\ o[10] = "tx_update"
           /\ o[11] = "tx_notification"
           /\ IF o = SummaryOrder
              THEN o[12] = "routes_loc_rib" /\ o[13] = "routes_received" /\ o[14] = "routes_withdrawn"
              ELSE o[12] = "routes_received" /\ o[13] = "routes_withdrawn" /\ o[14] = "routes_loc_rib"
           /\ o[15] = "routes_advertised" /\ o[16] = "hold_timer_expirations"
           /\ o[17] = "parse_errors" /\ o[18] = "fsm_errors"
  <1>1. CASE o = SummaryOrder
    <2>1. DOMAIN o = 1..18
      BY <1>1, SummaryPlaces
    <2>2. \A i \in 1..11 : o[i] = PrometheusOrder[i]
      BY <1>1, SummaryPlaces
    <2>3. \A i \in 15..18 : o[i] = PrometheusOrder[i]
      BY <1>1, SummaryPlaces
    <2>4. o[12] = "routes_loc_rib" /\ o[13] = "routes_received" /\ o[14] = "routes_withdrawn"
      BY <1>1, SummaryPlaces
    <2> QED  BY <1>1, <2>1, <2>2, <2>3, <2>4, PrometheusPlaces
  <1>2. CASE o # SummaryOrder
    <2>1. o = PrometheusOrder
      BY <1>2
    <2>2. DOMAIN o = 1..18
      BY <2>1, PrometheusPlaces
    <2> QED  BY <1>2, <2>1, <2>2, PrometheusPlaces
  <1> QED  BY <1>1, <1>2

\* No counter is read twice, and none of those compared is left out.
LEMMA OrderOnce ==
    ASSUME NEW o \in {PrometheusOrder, SummaryOrder}
    PROVE  /\ \A i, j \in 1..18 : o[i] = o[j] => i = j
           /\ \A c \in Compared : \E i \in 1..18 : o[i] = c
  <1> DEFINE at == [c \in Counters |->
               CASE c = "sessions_active" -> 1 [] c = "sessions_established" -> 2
                 [] c = "sessions_failed" -> 3 [] c = "rx_open" -> 4
                 [] c = "rx_keepalive" -> 5 [] c = "rx_update" -> 6
                 [] c = "rx_notification" -> 7 [] c = "tx_open" -> 8
                 [] c = "tx_keepalive" -> 9 [] c = "tx_update" -> 10
                 [] c = "tx_notification" -> 11
                 [] c = "routes_received" -> IF o = SummaryOrder THEN 13 ELSE 12
                 [] c = "routes_withdrawn" -> IF o = SummaryOrder THEN 14 ELSE 13
                 [] c = "routes_loc_rib" -> IF o = SummaryOrder THEN 12 ELSE 14
                 [] c = "routes_advertised" -> 15 [] c = "hold_timer_expirations" -> 16
                 [] c = "parse_errors" -> 17 [] OTHER -> 18]
  <1>1. \A i \in 1..9 : at[o[i]] = i
    <2>1. \A i \in 1..9 : \/ i = 1 \/ i = 2 \/ i = 3 \/ i = 4 \/ i = 5 \/ i = 6 \/ i = 7 \/ i = 8 \/ i = 9
      OBVIOUS
    <2> QED  BY <2>1, OrderPlaces, CounterNames
  <1>2. \A i \in 10..18 : at[o[i]] = i
    <2>1. \A i \in 10..18 : \/ i = 10 \/ i = 11 \/ i = 12 \/ i = 13 \/ i = 14
                            \/ i = 15 \/ i = 16 \/ i = 17 \/ i = 18
      OBVIOUS
    <2> QED  BY <2>1, OrderPlaces, CounterNames
  <1> HIDE DEF at
  <1>3. \A i \in 1..18 : at[o[i]] = i
    BY <1>1, <1>2
  <1>4. \A i, j \in 1..18 : o[i] = o[j] => i = j
    BY <1>3
  <1>5. ASSUME NEW c \in Compared PROVE \E i \in 1..18 : o[i] = c
    <2>1. /\ \E i \in 1..18 : o[i] = "routes_received"
          /\ \E i \in 1..18 : o[i] = "routes_loc_rib"
      <3>1. 12 \in 1..18 /\ 13 \in 1..18 /\ 14 \in 1..18
        OBVIOUS
      <3> QED  BY <3>1, OrderPlaces
    <2>2. /\ 2 \in 1..18 /\ 3 \in 1..18 /\ 4 \in 1..18 /\ 5 \in 1..18 /\ 7 \in 1..18
          /\ 8 \in 1..18 /\ 9 \in 1..18 /\ 11 \in 1..18 /\ 16 \in 1..18
      OBVIOUS
    <2> QED  BY <1>5, <2>1, <2>2, OrderPlaces DEF Compared
  <1> QED  BY <1>4, <1>5

\* A report that is being made has read the compared counters of its order, up
\* to where it got.
ReportOK(r) ==
    \/ r = NoReport
    \/ /\ r = [order |-> r.order, pos |-> r.pos, seen |-> r.seen]
       /\ r.order \in {PrometheusOrder, SummaryOrder}
       /\ r.pos \in 0..18
       /\ DOMAIN r.seen = {r.order[i] : i \in 1..r.pos} \cap Compared
       /\ \A c \in DOMAIN r.seen : r.seen[c] \in Nat

\* What report r shows of counter c, if it reads the rest now.
Shown(r, m, c) == IF c \in DOMAIN r.seen THEN r.seen[c] ELSE m[c]

AddsUp(r, m) ==
    /\ \A c \in Bringing : Shown(r, m, Est) <= Shown(r, m, c)
    /\ Shown(r, m, "sessions_failed")
         <= Shown(r, m, "rx_notification") + Shown(r, m, "hold_timer_expirations")
    /\ Shown(r, m, "tx_notification") <= Shown(r, m, "hold_timer_expirations")
    /\ r.order = SummaryOrder =>
         Shown(r, m, "routes_loc_rib") <= Shown(r, m, "routes_received")

ManagementInv == CountersInv /\ ReportOK(reading) /\ AddsUp(reading, metrics)

\* The smaller side of every comparison is read first.
LEMMA SmallFirst ==
    ASSUME NEW r, ReportOK(r)
    PROVE  /\ \A c \in Bringing : c \in DOMAIN r.seen => Est \in DOMAIN r.seen
           /\ "rx_notification" \in DOMAIN r.seen => "sessions_failed" \in DOMAIN r.seen
           /\ "hold_timer_expirations" \in DOMAIN r.seen =>
                {"sessions_failed", "tx_notification"} \subseteq DOMAIN r.seen
           /\ r.order = SummaryOrder /\ "routes_received" \in DOMAIN r.seen =>
                "routes_loc_rib" \in DOMAIN r.seen
           /\ \A c \in DOMAIN r.seen : r.seen[c] \in Nat
  <1> DEFINE D == DOMAIN r.seen
             o == r.order
  <1>1. CASE r = NoReport
    <2>1. D = {}
      BY <1>1 DEF NoReport
    <2> QED  BY <2>1
  <1>2. CASE r # NoReport
    <2>1. /\ o \in {PrometheusOrder, SummaryOrder} /\ r.pos \in 0..18
          /\ D = {o[i] : i \in 1..r.pos} \cap Compared /\ \A c \in D : r.seen[c] \in Nat
      BY <1>2 DEF ReportOK
    <2> HIDE DEF D, o
    <2>2. \A k \in 1..18 : k <= r.pos /\ o[k] \in Compared => o[k] \in D
      BY <2>1
    <2>3. \A c \in D : \E i \in 1..18 : i <= r.pos /\ o[i] = c
      BY <2>1
    <2>4. \A c \in Bringing : c \in D => Est \in D
      <3> SUFFICES ASSUME NEW c \in Bringing, c \in D PROVE Est \in D
        OBVIOUS
      <3>1. PICK i \in 1..18 : i <= r.pos /\ o[i] = c
        BY <2>3
      <3>2. i # 1
        BY <2>1, <3>1, OrderPlaces DEF Bringing
      <3>3. 2 <= r.pos /\ 2 \in 1..18
        BY <2>1, <3>1, <3>2
      <3> QED  BY <2>1, <2>2, <3>3, OrderPlaces DEF Compared, Est
    <2>5. ASSUME NEW c \in {"rx_notification", "hold_timer_expirations"}, c \in D
          PROVE  "sessions_failed" \in D
      <3>1. PICK i \in 1..18 : i <= r.pos /\ o[i] = c
        BY <2>3, <2>5
      <3>2. i # 1 /\ i # 2
        BY <2>1, <3>1, OrderPlaces
      <3>3. 3 <= r.pos /\ 3 \in 1..18
        BY <2>1, <3>1, <3>2
      <3> QED  BY <2>1, <2>2, <3>3, OrderPlaces DEF Compared
    <2>6. ASSUME "hold_timer_expirations" \in D PROVE "tx_notification" \in D
      <3>1. PICK i \in 1..18 : i <= r.pos /\ o[i] = "hold_timer_expirations"
        BY <2>3, <2>6
      <3>2. i = 16
        BY <2>1, <3>1, OrderPlaces, OrderOnce
      <3>3. 11 <= r.pos /\ 11 \in 1..18
        BY <2>1, <3>1, <3>2
      <3> QED  BY <2>1, <2>2, <3>3, OrderPlaces DEF Compared
    <2>7. ASSUME o = SummaryOrder, "routes_received" \in D PROVE "routes_loc_rib" \in D
      <3>1. PICK i \in 1..18 : i <= r.pos /\ o[i] = "routes_received"
        BY <2>3, <2>7
      <3>2. i = 13
        BY <2>1, <2>7, <3>1, OrderPlaces, OrderOnce
      <3>3. 12 <= r.pos /\ 12 \in 1..18
        BY <2>1, <3>1, <3>2
      <3> QED  BY <2>1, <2>2, <2>7, <3>3, OrderPlaces DEF Compared
    <2> QED  BY <2>1, <2>4, <2>5, <2>6, <2>7 DEF D, o
  <1> QED  BY <1>1, <1>2

\* The comparisons between counters as they are.
Sums(m) ==
    /\ \A c \in Bringing : m[Est] <= m[c]
    /\ m["sessions_failed"] <= m["rx_notification"] + m["hold_timer_expirations"]
    /\ m["tx_notification"] <= m["hold_timer_expirations"]
    /\ m["routes_loc_rib"] <= m["routes_received"]

LEMMA CoveredLess ==
    ASSUME NEW W, NEW small \in Nat, NEW large \in Nat, Covered(small, W, large)
    PROVE  small <= large
  BY FS_CardinalityType DEF Covered

LEMMA ComparedValues ==
    ASSUME NEW m \in [Counters -> Nat]
    PROVE  /\ \A c \in Bringing : m[c] \in Nat
           /\ \A c \in Compared : m[c] \in Nat
           /\ Bringing \subseteq Compared /\ Est \in Compared
  <1>1. Compared \subseteq Counters
    BY CounterNames DEF Compared
  <1>2. Bringing \subseteq Compared /\ Est \in Compared
    BY DEF Bringing, Compared, Est
  <1> QED  BY <1>1, <1>2

LEMMA CountersSum ==
    /\ CountersInv => Sums(metrics)
    /\ CountersInv' => Sums(metrics')
  <1>1. ASSUME CountersInv PROVE Sums(metrics)
    <2>1. metrics \in [Counters -> Nat]
      BY <1>1 DEF CountersInv, CountersTypeOK
    <2>2. \A c \in Bringing : metrics[Est] <= metrics[c]
      BY <1>1, <2>1, ComparedValues, CoveredLess DEF CountersInv, EstCovered
    <2>3. metrics["sessions_failed"] <= metrics["rx_notification"] + metrics["hold_timer_expirations"]
      BY <1>1, <2>1, CounterNames, CoveredLess DEF CountersInv, FailedCovered
    <2>4. metrics["tx_notification"] <= metrics["hold_timer_expirations"]
      BY <1>1, <2>1, CounterNames, CoveredLess DEF CountersInv, NotifiedCovered
    <2> QED  BY <1>1, <2>2, <2>3, <2>4 DEF Sums, CountersInv, RoutesCovered
  <1>2. ASSUME CountersInv' PROVE Sums(metrics')
    <2>1. metrics' \in [Counters -> Nat]
      BY <1>2 DEF CountersInv, CountersTypeOK
    <2>2. \A c \in Bringing : metrics'[Est] <= metrics'[c]
      BY <1>2, <2>1, ComparedValues, CoveredLess DEF CountersInv, EstCovered
    <2>3. metrics'["sessions_failed"] <= metrics'["rx_notification"] + metrics'["hold_timer_expirations"]
      BY <1>2, <2>1, CounterNames, CoveredLess DEF CountersInv, FailedCovered
    <2>4. metrics'["tx_notification"] <= metrics'["hold_timer_expirations"]
      BY <1>2, <2>1, CounterNames, CoveredLess DEF CountersInv, NotifiedCovered
    <2> QED  BY <1>2, <2>2, <2>3, <2>4 DEF Sums, CountersInv, RoutesCovered
  <1> QED  BY <1>1, <1>2

\* Nothing read: the report would show the counters as they are.
LEMMA NothingSeen ==
    ASSUME NEW r, NEW m, DOMAIN r.seen = {}, Sums(m)
    PROVE  AddsUp(r, m)
  BY DEF AddsUp, Sums, Shown

\* Counters that go up while a report is read leave it adding up.
LEMMA AddsUpKept ==
    ASSUME NEW r, ReportOK(r), NEW m \in [Counters -> Nat], NEW m2 \in [Counters -> Nat],
           AddsUp(r, m), Sums(m2),
           \A c \in Compared : c # "routes_loc_rib" => m[c] <= m2[c]
    PROVE  AddsUp(r, m2)
  <1> DEFINE D == DOMAIN r.seen
  <1>1. /\ \A c \in Compared : m[c] \in Nat /\ m2[c] \in Nat
        /\ \A c \in D : r.seen[c] \in Nat
        /\ Bringing \subseteq Compared /\ Est \in Compared
    BY ComparedValues, SmallFirst
  <1>2. ASSUME NEW a \in Compared, NEW b \in Compared, b # "routes_loc_rib",
               b \in D => a \in D, m2[a] <= m2[b], Shown(r, m, a) <= Shown(r, m, b)
        PROVE  Shown(r, m2, a) <= Shown(r, m2, b)
    <2>1. m[b] <= m2[b] /\ m[b] \in Nat /\ m2[b] \in Nat /\ m2[a] \in Nat /\ m[a] \in Nat
      BY <1>1, <1>2
    <2>2. CASE a \in D /\ b \in D
      BY <1>2, <2>2 DEF Shown
    <2>3. CASE a \in D /\ b \notin D
      BY <1>1, <1>2, <2>1, <2>3 DEF Shown
    <2>4. CASE a \notin D
      BY <1>2, <2>4 DEF Shown
    <2> QED  BY <2>2, <2>3, <2>4
  <1>3. \A c \in Bringing : Shown(r, m2, Est) <= Shown(r, m2, c)
    <2> SUFFICES ASSUME NEW c \in Bringing PROVE Shown(r, m2, Est) <= Shown(r, m2, c)
      OBVIOUS
    <2>1. c \in D => Est \in D
      BY SmallFirst
    <2>2. m2[Est] <= m2[c] /\ Shown(r, m, Est) <= Shown(r, m, c)
      BY DEF Sums, AddsUp
    <2>3. c \in Compared /\ c # "routes_loc_rib"
      BY DEF Bringing, Compared
    <2> HIDE DEF D
    <2> QED  BY <1>1, <1>2, <2>1, <2>2, <2>3
  <1>4. Shown(r, m2, "tx_notification") <= Shown(r, m2, "hold_timer_expirations")
    <2>1. "hold_timer_expirations" \in D => "tx_notification" \in D
      BY SmallFirst
    <2>2. "hold_timer_expirations" \in Compared /\ "tx_notification" \in Compared
      BY DEF Compared
    <2>3. /\ m2["tx_notification"] <= m2["hold_timer_expirations"]
          /\ Shown(r, m, "tx_notification") <= Shown(r, m, "hold_timer_expirations")
      BY DEF Sums, AddsUp
    <2> HIDE DEF D
    <2> QED  BY <1>2, <2>1, <2>2, <2>3
  <1>5. r.order = SummaryOrder =>
          Shown(r, m2, "routes_loc_rib") <= Shown(r, m2, "routes_received")
    <2> SUFFICES ASSUME r.order = SummaryOrder
                 PROVE  Shown(r, m2, "routes_loc_rib") <= Shown(r, m2, "routes_received")
      OBVIOUS
    <2>1. "routes_received" \in D => "routes_loc_rib" \in D
      BY SmallFirst
    <2>2. "routes_received" \in Compared /\ "routes_loc_rib" \in Compared
      BY DEF Compared
    <2>3. /\ m2["routes_loc_rib"] <= m2["routes_received"]
          /\ Shown(r, m, "routes_loc_rib") <= Shown(r, m, "routes_received")
      BY DEF Sums, AddsUp
    <2> HIDE DEF D
    <2> QED  BY <1>2, <2>1, <2>2, <2>3
  <1>6. Shown(r, m2, "sessions_failed")
          <= Shown(r, m2, "rx_notification") + Shown(r, m2, "hold_timer_expirations")
    <2> DEFINE f == "sessions_failed"
               x == "rx_notification"
               y == "hold_timer_expirations"
    <2>1. (x \in D => f \in D) /\ (y \in D => f \in D)
      BY SmallFirst
    <2>2. {f, x, y} \subseteq Compared
      BY DEF Compared
    <2>3. /\ m[f] \in Nat /\ m2[f] \in Nat /\ m[x] \in Nat /\ m2[x] \in Nat /\ m[x] <= m2[x]
          /\ m[y] \in Nat /\ m2[y] \in Nat /\ m[y] <= m2[y]
      BY <1>1, <2>2
    <2>4. m2[f] <= m2[x] + m2[y] /\ Shown(r, m, f) <= Shown(r, m, x) + Shown(r, m, y)
      BY DEF Sums, AddsUp
    <2>5. CASE f \notin D
      <3>1. Shown(r, m2, f) = m2[f] /\ Shown(r, m2, x) = m2[x] /\ Shown(r, m2, y) = m2[y]
        BY <2>1, <2>5 DEF Shown
      <3> QED  BY <2>4, <3>1
    <2>6. CASE f \in D
      <3>1. Shown(r, m2, f) = Shown(r, m, f) /\ Shown(r, m, f) \in Nat
        BY <1>1, <2>6 DEF Shown
      <3>2. /\ Shown(r, m, x) \in Nat /\ Shown(r, m2, x) \in Nat /\ Shown(r, m, x) <= Shown(r, m2, x)
        BY <1>1, <2>3 DEF Shown
      <3>3. /\ Shown(r, m, y) \in Nat /\ Shown(r, m2, y) \in Nat /\ Shown(r, m, y) <= Shown(r, m2, y)
        BY <1>1, <2>3 DEF Shown
      <3> QED  BY <2>4, <3>1, <3>2, <3>3
    <2> QED  BY <2>5, <2>6
  <1> QED  BY <1>3, <1>4, <1>5, <1>6 DEF AddsUp

\* Compared counters never go down, but for the gauge of the Loc-RIB.
LEMMA CountersGrow ==
    ASSUME CountersInv, NEW s \in Sessions, Step(s)
    PROVE  \A c \in Compared : c # "routes_loc_rib" => metrics[c] <= metrics'[c]
  <1> DEFINE e == Head(sess[s].todo)
  <1>1. /\ metrics \in [Counters -> Nat] /\ sess[s].todo \in Seq(Op)
        /\ sess[s].todo # <<>> /\ Effect(s, e)
    BY DEF CountersInv, CountersTypeOK, Planned, Plan, Step
  <1>2. e \in Op
    BY <1>1, TailFacts
  <1> HIDE DEF e
  <1>3. \A c \in Compared : c \in Counters /\ metrics[c] \in Nat /\ c # "sessions_active"
    <2>1. \A c \in Compared : c \in Counters /\ c # "sessions_active"
      BY CounterNames DEF Compared
    <2> QED  BY <1>1, <2>1
  <1>4. CASE e.op = "add"
    <2>1. metrics' = [metrics EXCEPT ![e.counter] = @ + e.by] /\ e.by \in Nat
      BY <1>1, <1>2, <1>4, OpKinds DEF Effect
    <2> QED  BY <1>1, <1>3, <2>1
  <1>5. CASE e.op = "inactive"
    <2>1. metrics' = [metrics EXCEPT !["sessions_active"] = 0]
      BY <1>1, <1>5 DEF Effect
    <2> QED  BY <1>1, <1>3, <2>1
  <1>6. CASE e.op = "update"
    <2>1. \E n : metrics' = [metrics EXCEPT !["routes_loc_rib"] = n]
      BY <1>1, <1>6 DEF Effect, StoreUpdate
    <2> QED  BY <1>1, <1>3, <2>1
  <1>7. CASE e.op \in {"leave", "try", "end"}
    <2>1. metrics' = metrics
      BY <1>1, <1>7 DEF Effect
    <2> QED  BY <1>3, <2>1
  <1> QED  BY <1>2, <1>4, <1>5, <1>6, <1>7, OpKinds

\* A session moves while a report is read.
LEMMA SessionMoves ==
    ASSUME ManagementInv, CountersInv', reading' = reading,
           \A c \in Compared : c # "routes_loc_rib" => metrics[c] <= metrics'[c]
    PROVE  ManagementInv'
  <1>1. metrics \in [Counters -> Nat] /\ metrics' \in [Counters -> Nat]
    BY DEF ManagementInv, CountersInv, CountersTypeOK
  <1>2. Sums(metrics')
    BY CountersSum
  <1>3. ReportOK(reading) /\ AddsUp(reading, metrics)
    BY DEF ManagementInv
  <1>4. AddsUp(reading, metrics')
    BY <1>1, <1>2, <1>3, AddsUpKept
  <1> QED  BY <1>3, <1>4 DEF ManagementInv

\* The connection moves, and the report if there is one stays as it is.
LEMMA ConnectionMoves ==
    ASSUME ManagementInv, UNCHANGED sessionVars, reading' = reading
    PROVE  ManagementInv'
  <1>1. CountersInv'
    BY DEF ManagementInv, sessionVars, CountersInv, CountersTypeOK, Planned, EstCovered,
           FailedCovered, NotifiedCovered, RoutesCovered
  <1> QED  BY <1>1 DEF ManagementInv, sessionVars

\* A report with nothing in it yet.
LEMMA EmptyReport ==
    ASSUME ManagementInv, UNCHANGED sessionVars, ReportOK(reading'), DOMAIN reading'.seen = {}
    PROVE  ManagementInv'
  <1>1. CountersInv'
    BY DEF ManagementInv, sessionVars, CountersInv, CountersTypeOK, Planned, EstCovered,
           FailedCovered, NotifiedCovered, RoutesCovered
  <1>2. Sums(metrics')
    BY <1>1, CountersSum
  <1>3. AddsUp(reading', metrics')
    BY <1>2, NothingSeen
  <1> QED  BY <1>1, <1>3 DEF ManagementInv

LEMMA BeginReportPreserves ==
    ASSUME ManagementInv, BeginReport
    PROVE  ManagementInv'
  <1> DEFINE none == [c \in {} |-> 0]
             o == IF Head(inbox) = "metrics" THEN PrometheusOrder ELSE SummaryOrder
  <1>1. reading' = [order |-> o, pos |-> 0, seen |-> none] /\ UNCHANGED sessionVars
    BY DEF BeginReport
  <1>2. o \in {PrometheusOrder, SummaryOrder} /\ DOMAIN none = {}
    OBVIOUS
  <1> HIDE DEF none, o
  <1>3. reading'.order = o /\ reading'.pos = 0 /\ reading'.seen = none
    BY <1>1
  <1>4. {reading'.order[i] : i \in 1..0} \cap Compared = {}
    OBVIOUS
  <1>5. ReportOK(reading')
    BY <1>1, <1>2, <1>3, <1>4 DEF ReportOK
  <1> QED  BY <1>1, <1>2, <1>3, <1>5, EmptyReport

LEMMA WriteReportPreserves ==
    ASSUME ManagementInv, WriteReport
    PROVE  ManagementInv'
  <1>1. reading' = NoReport /\ UNCHANGED sessionVars
    BY DEF WriteReport
  <1>2. DOMAIN reading'.seen = {}
    BY <1>1 DEF NoReport
  <1> QED  BY <1>1, <1>2, EmptyReport DEF ReportOK

LEMMA ReportRecord ==
    ASSUME NEW r, r = [order |-> r.order, pos |-> r.pos, seen |-> r.seen], NEW i, NEW f
    PROVE  [[r EXCEPT !.pos = i] EXCEPT !.seen = f] = [order |-> r.order, pos |-> i, seen |-> f]
  <1> DEFINE q == [[r EXCEPT !.pos = i] EXCEPT !.seen = f]
             z == [order |-> r.order, pos |-> i, seen |-> f]
             D == {"order", "pos", "seen"}
  <1>1. DOMAIN r = D
    OBVIOUS
  <1>2. q = [x \in D |-> q[x]]
    BY <1>1
  <1>3. z = [x \in D |-> z[x]]
    OBVIOUS
  <1>4. q["order"] = z["order"]
    BY <1>1
  <1>5. q["pos"] = z["pos"] /\ q["seen"] = z["seen"]
    BY <1>1
  <1> HIDE DEF q, z
  <1>6. \A x \in D : q[x] = z[x]
    BY <1>4, <1>5
  <1>7. q = z
    BY <1>2, <1>3, <1>6
  <1> QED  BY <1>7 DEF q, z

LEMMA ReadCounterPreserves ==
    ASSUME ManagementInv, ReadCounter
    PROVE  ManagementInv'
  <1> DEFINE o == reading.order
             old == reading.seen
  <1>1. PICK i \in Unread :
          /\ \A j \in Unread : i <= j
          /\ reading' = [reading EXCEPT
                           !.pos  = i,
                           !.seen = [d \in DOMAIN @ \cup {o[i]} |->
                                       IF d = o[i] THEN metrics[o[i]] ELSE @[d]]]
    BY DEF ReadCounter
  <1> DEFINE c == o[i]
             new == [d \in DOMAIN old \cup {c} |-> IF d = c THEN metrics[c] ELSE old[d]]
  <1>2. UNCHANGED sessionVars /\ i \in DOMAIN o /\ reading.pos < i /\ c \in Compared
    BY DEF ReadCounter, Unread
  <1>3. reading # NoReport
    BY <1>2 DEF NoReport
  <1>4. /\ reading = [order |-> o, pos |-> reading.pos, seen |-> old]
        /\ o \in {PrometheusOrder, SummaryOrder} /\ reading.pos \in 0..18
        /\ DOMAIN old = {o[k] : k \in 1..reading.pos} \cap Compared
        /\ \A d \in DOMAIN old : old[d] \in Nat
    BY <1>3 DEF ManagementInv, ReportOK
  <1>5. reading' = [order |-> o, pos |-> i, seen |-> new]
    <2>1. reading' = [[reading EXCEPT !.pos = i] EXCEPT !.seen = new]
      BY <1>1, <1>4
    <2>2. reading = [order |-> reading.order, pos |-> reading.pos, seen |-> reading.seen]
      BY <1>4
    <2> HIDE DEF new, old
    <2>3. [[reading EXCEPT !.pos = i] EXCEPT !.seen = new] = [order |-> reading.order, pos |-> i, seen |-> new]
      BY <2>2, ReportRecord
    <2> QED  BY <2>1, <2>3
  <1>6. /\ DOMAIN new = DOMAIN old \cup {c} /\ new[c] = metrics[c]
        /\ \A d \in DOMAIN old : d # c => new[d] = old[d]
    OBVIOUS
  <1> HIDE DEF new
  <1>7. reading'.order = o /\ reading'.pos = i /\ reading'.seen = new
    BY <1>5
  <1>8. DOMAIN o = 1..18 /\ i \in 1..18
    BY <1>2, <1>4, OrderPlaces
  <1>9. c \notin DOMAIN old
    <2> SUFFICES ASSUME c \in DOMAIN old PROVE FALSE
      OBVIOUS
    <2>1. PICK k \in 1..reading.pos : o[k] = o[i]
      BY <1>4
    <2>2. k \in 1..18 /\ k < i
      BY <1>2, <1>4, <1>8
    <2> QED  BY <1>4, <1>8, <2>1, <2>2, OrderOnce
  <1> HIDE DEF o, old
  <1>10. DOMAIN new = {o[k] : k \in 1..i} \cap Compared
    <2>1. ASSUME NEW k \in 1..i, o[k] \in Compared PROVE o[k] \in DOMAIN old \cup {c}
      <3>1. CASE k <= reading.pos
        <4>1. k \in 1..reading.pos
          BY <1>4, <1>8, <3>1
        <4> QED  BY <1>4, <2>1, <4>1
      <3>2. CASE reading.pos < k
        <4>1. k \in Unread
          BY <1>8, <2>1, <3>2 DEF Unread, o
        <4>2. k = i
          BY <1>1, <1>8, <4>1
        <4> QED  BY <4>2
      <3> QED  BY <1>4, <1>8, <3>1, <3>2
    <2>2. ASSUME NEW d \in DOMAIN old PROVE d \in Compared /\ \E k \in 1..i : o[k] = d
      <3>1. PICK k \in 1..reading.pos : o[k] = d
        BY <1>4
      <3>2. k \in 1..i
        BY <1>2, <1>4, <1>8
      <3> QED  BY <1>4, <3>1, <3>2
    <2>3. c \in Compared /\ \E k \in 1..i : o[k] = c
      BY <1>2, <1>8
    <2> HIDE DEF c
    <2> QED  BY <1>6, <2>1, <2>2, <2>3
  <1>11. metrics \in [Counters -> Nat] /\ metrics[c] \in Nat
    <2>1. metrics \in [Counters -> Nat]
      BY DEF ManagementInv, CountersInv, CountersTypeOK
    <2> QED  BY <1>2, <2>1, ComparedValues
  <1>12. \A d \in DOMAIN new : new[d] \in Nat
    BY <1>4, <1>6, <1>11
  <1>13. ReportOK(reading')
    BY <1>4, <1>5, <1>7, <1>8, <1>10, <1>12 DEF ReportOK
  <1>14. \A d : Shown(reading', metrics, d) = Shown(reading, metrics, d)
    BY <1>6, <1>7, <1>9 DEF Shown, old
  <1>15. AddsUp(reading, metrics) /\ metrics' = metrics
    BY <1>2 DEF ManagementInv, sessionVars
  <1>16. AddsUp(reading', metrics)
    BY <1>7, <1>14, <1>15 DEF AddsUp, o
  <1>17. CountersInv'
    BY <1>2 DEF ManagementInv, sessionVars, CountersInv, CountersTypeOK, Planned, EstCovered,
           FailedCovered, NotifiedCovered, RoutesCovered
  <1> QED  BY <1>13, <1>15, <1>16, <1>17 DEF ManagementInv

LEMMA ManagementInitially ==
    ManagementInit => ManagementInv
  <1> SUFFICES ASSUME ManagementInit PROVE ManagementInv
    OBVIOUS
  <1>1. CountersInv
    BY CountersInit
  <1>2. reading = NoReport
    BY DEF ManagementInit
  <1>3. DOMAIN reading.seen = {}
    BY <1>2 DEF NoReport
  <1>4. AddsUp(reading, metrics)
    BY <1>1, <1>3, CountersSum, NothingSeen
  <1> QED  BY <1>1, <1>2, <1>4 DEF ManagementInv, ReportOK

LEMMA ManagementStep ==
    ManagementInv /\ [ManagementNext]_managementVars => ManagementInv'
  <1> SUFFICES ASSUME ManagementInv, [ManagementNext]_managementVars PROVE ManagementInv'
    OBVIOUS
  <1>1. CountersInv /\ metrics \in [Counters -> Nat]
    BY DEF ManagementInv, CountersInv, CountersTypeOK
  <1>2. \A c \in Compared : metrics[c] \in Nat
    BY <1>1, ComparedValues
  <1>3. ASSUME NEW s \in Sessions,
               \/ Accept(s) \/ RecvOpen(s) \/ RecvKeepalive(s)
               \/ \E nlri \in SUBSET Nlri, withdrawn \in SUBSET Nlri : RecvUpdate(s, nlri, withdrawn)
               \/ RecvNotification(s) \/ HoldExpires(s) \/ SendKeepalive(s) \/ Eof(s)
        PROVE  ManagementInv'
    <2>1. CountersInv'
      BY <1>1, <1>3, HandlersPreserve
    <2>2. metrics' = metrics /\ reading' = reading
      BY <1>3 DEF Accept, RecvOpen, RecvKeepalive, RecvUpdate, RecvNotification, HoldExpires,
                  SendKeepalive, Eof, Begin, connVars
    <2> QED  BY <1>2, <2>1, <2>2, SessionMoves
  <1>4. ASSUME NEW s \in Sessions, Step(s) PROVE ManagementInv'
    <2>1. CountersInv'
      BY <1>1, <1>4, StepPreserves
    <2>2. reading' = reading
      BY <1>4 DEF Step, connVars
    <2> QED  BY <1>1, <1>4, <2>1, <2>2, CountersGrow, SessionMoves
  <1>5. ASSUME NEW s \in Sessions, Fail(s) PROVE ManagementInv'
    <2>1. CountersInv'
      BY <1>1, <1>5, FailPreserves
    <2>2. metrics' = metrics /\ reading' = reading
      BY <1>5 DEF Fail, connVars
    <2> QED  BY <1>2, <2>1, <2>2, SessionMoves
  <1>6. CASE \/ \E line \in Lines : SendLine(line)
             \/ ClientLeaves \/ AnswerOther \/ Garbled
    BY <1>6, ConnectionMoves DEF SendLine, ClientLeaves, AnswerOther, Garbled
  <1>7. CASE BeginReport
    BY <1>7, BeginReportPreserves
  <1>8. CASE ReadCounter
    BY <1>8, ReadCounterPreserves
  <1>9. CASE WriteReport
    BY <1>9, WriteReportPreserves
  <1>10. CASE UNCHANGED managementVars
    <2>1. UNCHANGED sessionVars /\ reading' = reading
      BY <1>10 DEF managementVars, connVars
    <2> QED  BY <2>1, ConnectionMoves
  <1> QED  BY <1>3, <1>4, <1>5, <1>6, <1>7, <1>8, <1>9, <1>10 DEF ManagementNext, Serve

\* The inductive invariant of a management connection beside any number of
\* sessions: the counters of metrics.rs cover each other, however the handlers
\* of peer.rs are interleaved, and a report that is half read adds up with
\* what it would read now.
THEOREM ManagementInvariant ==
    ManagementSpec => []ManagementInv
  BY ManagementInitially, ManagementStep, PTL DEF ManagementSpec

LEMMA ReportComplete ==
    ManagementInv => ReportsAddUp
  <1> SUFFICES ASSUME ManagementInv, Complete PROVE ReportsAddUp
    BY DEF ReportsAddUp
  <1> DEFINE r == reading.seen
             o == reading.order
  <1>1. /\ reading # NoReport /\ Unread = {}
        /\ AddsUp(reading, metrics) /\ ReportOK(reading)
    BY DEF Complete, ManagementInv
  <1>2. /\ o \in {PrometheusOrder, SummaryOrder} /\ reading.pos \in 0..18
        /\ DOMAIN r = {o[k] : k \in 1..reading.pos} \cap Compared
    BY <1>1 DEF ReportOK
  <1>3. DOMAIN o = 1..18
    BY <1>2, OrderPlaces
  <1>4. ASSUME NEW c \in Compared PROVE c \in DOMAIN r
    <2>1. PICK k \in 1..18 : o[k] = c
      BY <1>2, OrderOnce
    <2>2. ~(reading.pos < k)
      BY <1>1, <1>3, <2>1 DEF Unread
    <2>3. k \in 1..reading.pos
      BY <1>2, <2>2
    <2> QED  BY <1>2, <2>1, <2>3
  <1>5. \A c \in Compared : Shown(reading, metrics, c) = r[c]
    BY <1>4 DEF Shown
  <1>6. \A c \in {"rx_open", "rx_keepalive", "tx_open", "tx_keepalive"} : r["sessions_established"] <= r[c]
    BY <1>1, <1>5 DEF AddsUp, Bringing, Compared, Est
  <1>7. /\ r["sessions_failed"] <= r["rx_notification"] + r["hold_timer_expirations"]
        /\ r["tx_notification"] <= r["hold_timer_expirations"]
        /\ o = SummaryOrder => r["routes_loc_rib"] <= r["routes_received"]
    BY <1>1, <1>5 DEF AddsUp, Compared
  <1> QED  BY <1>6, <1>7 DEF ReportsAddUp

\* A report of prometheus_text or text_summary adds up, though it is read
\* counter by counter while any number of session tasks count, for any
\* prefixes and any number of messages, timeouts and failures.
THEOREM ManagementReportsAddUp ==
    ManagementSpec => []ReportsAddUp
  BY ManagementInvariant, ReportComplete, PTL

-----------------------------------------------------------------------------
(* The commands that show the RIB *)

\* The order of the lines: by the address, then by the length.
InOrder(k, j) ==
    \/ k.address < j.address
    \/ k.address = j.address /\ k.prefix_len < j.prefix_len

\* Of two keys exactly one comes first, so that the order in which the hash map
\* gives them does not matter.
LEMMA InOrderTotal ==
    ASSUME NEW k \in PrefixKey, NEW j \in PrefixKey
    PROVE  /\ ~InOrder(k, k)
           /\ InOrder(k, j) => ~InOrder(j, k)
           /\ k # j => InOrder(k, j) \/ InOrder(j, k)
<1>1. /\ k.address \in Int /\ k.prefix_len \in Int /\ j.address \in Int /\ j.prefix_len \in Int
      /\ k = [address |-> k.address, prefix_len |-> k.prefix_len]
      /\ j = [address |-> j.address, prefix_len |-> j.prefix_len]
  BY DEF PrefixKey, Address
<1> QED  BY <1>1 DEF InOrder

\* The key that comes first of all.
LEMMA FirstKey ==
    ASSUME NEW S \in SUBSET PrefixKey, S # {}
    PROVE  \E m \in S : \A k \in S : k # m => InOrder(m, k)
<1>1. \A k \in S : k \in PrefixKey /\ k.address \in Nat /\ k.prefix_len \in Nat
  <2> SUFFICES ASSUME NEW k \in S PROVE k \in PrefixKey /\ k.address \in Nat /\ k.prefix_len \in Nat
    OBVIOUS
  <2>1. k \in PrefixKey
    OBVIOUS
  <2> QED  BY <2>1, WidthAssumption DEF PrefixKey, Address
<1> DEFINE A == {k.address : k \in S}
<1>2. A \in SUBSET Nat /\ A # {}
  BY <1>1
<1>3. PICK a \in A : \A b \in A : a <= b
  BY <1>2, LeastElement
<1> DEFINE T == {k \in S : k.address = a}
           L == {k.prefix_len : k \in T}
<1>4. L \in SUBSET Nat /\ L # {}
  BY <1>1
<1>5. PICK l \in L : \A b \in L : l <= b
  BY <1>4, LeastElement
<1>6. PICK m \in S : m.address = a /\ m.prefix_len = l
  BY <1>5
<1>7. ASSUME NEW k \in S, k # m PROVE InOrder(m, k)
  <2>1. a <= k.address
    BY <1>3
  <2>2. CASE k.address = a
    <3>1. l <= k.prefix_len
      BY <1>5, <2>2
    <3>2. k.prefix_len # l
      BY <1>1, <1>6, <1>7, <2>2 DEF PrefixKey
    <3> QED  BY <1>1, <1>6, <2>2, <3>1, <3>2 DEF InOrder
  <2>3. CASE k.address # a
    BY <1>1, <1>6, <2>1, <2>3 DEF InOrder
  <2> QED  BY <2>2, <2>3
<1> QED  BY <1>7

\* s lists the keys of S, which are n, in their order.
Lists(s, S, n) ==
    /\ s \in [1..n -> S]
    /\ \A k \in S : \E i \in 1..n : s[i] = k
    /\ \A i, j \in 1..n : i < j => InOrder(s[i], s[j])

LEMMA KeysListed ==
    ASSUME NEW S \in SUBSET PrefixKey, IsFiniteSet(S)
    PROVE  \E s : Lists(s, S, Cardinality(S))
<1> DEFINE T == {n \in Nat : \A K \in SUBSET PrefixKey :
                    IsFiniteSet(K) /\ Cardinality(K) = n => \E s : Lists(s, K, n)}
<1>1. 0 \in T
  <2> SUFFICES ASSUME NEW K \in SUBSET PrefixKey, IsFiniteSet(K), Cardinality(K) = 0
               PROVE  \E s : Lists(s, K, 0)
    OBVIOUS
  <2>1. K = {}
    BY FS_EmptySet
  <2>2. Lists([i \in 1..0 |-> i], K, 0)
    BY <2>1 DEF Lists
  <2> QED  BY <2>2
<1>2. ASSUME NEW n \in Nat, n \in T PROVE n + 1 \in T
  <2> SUFFICES ASSUME NEW K \in SUBSET PrefixKey, IsFiniteSet(K), Cardinality(K) = n + 1
               PROVE  \E s : Lists(s, K, n + 1)
    OBVIOUS
  <2>1. K # {}
    BY FS_EmptySet
  <2>2. PICK m \in K : \A k \in K : k # m => InOrder(m, k)
    BY <2>1, FirstKey
  <2> DEFINE R == K \ {m}
  <2>3. IsFiniteSet(R) /\ Cardinality(R) = n /\ R \in SUBSET PrefixKey
    <3>1. IsFiniteSet(R) /\ Cardinality(R) = Cardinality(K) - 1
      BY FS_RemoveElement, Zenon
    <3>2. (n + 1) - 1 = n
      OBVIOUS
    <3> QED  BY <3>1, <3>2
  <2>4. PICK s : Lists(s, R, n)
    BY <1>2, <2>3
  <2>5. /\ s \in [1..n -> R] /\ \A k \in R : \E i \in 1..n : s[i] = k
        /\ \A i, j \in 1..n : i < j => InOrder(s[i], s[j])
    BY <2>4 DEF Lists
  <2> DEFINE t == [i \in 1..(n + 1) |-> IF i = 1 THEN m ELSE s[i - 1]]
  <2>6. \A i \in 2..(n + 1) : i - 1 \in 1..n /\ t[i] = s[i - 1] /\ i \in 1..(n + 1)
    OBVIOUS
  <2>7. t[1] = m /\ DOMAIN t = 1..(n + 1) /\ 1 \in 1..(n + 1)
    OBVIOUS
  <2>8. \A i \in 1..(n + 1) : i = 1 \/ i \in 2..(n + 1)
    OBVIOUS
  <2>9. \A i \in 2..(n + 1) : t[i] \in R
    BY <2>5, <2>6
  <2>10. t \in [1..(n + 1) -> K]
    <3>1. \A i \in 1..(n + 1) : t[i] \in K
      BY <2>7, <2>8, <2>9
    <3> QED  BY <3>1
  <2> HIDE DEF t
  <2>11. ASSUME NEW k \in K PROVE \E i \in 1..(n + 1) : t[i] = k
    <3>1. CASE k = m
      BY <2>7, <3>1
    <3>2. CASE k # m
      <4>1. PICK i \in 1..n : s[i] = k
        BY <2>5, <3>2
      <4>2. i + 1 \in 2..(n + 1) /\ (i + 1) - 1 = i
        OBVIOUS
      <4> QED  BY <2>6, <4>1, <4>2
    <3> QED  BY <3>1, <3>2
  <2>12. ASSUME NEW i \in 1..(n + 1), NEW j \in 1..(n + 1), i < j PROVE InOrder(t[i], t[j])
    <3>1. j \in 2..(n + 1)
      BY <2>12
    <3>2. CASE i = 1
      BY <2>2, <2>7, <2>9, <3>1, <3>2
    <3>3. CASE i # 1
      <4>1. i \in 2..(n + 1) /\ i - 1 < j - 1
        BY <2>12, <3>3
      <4>2. i - 1 \in 1..n /\ j - 1 \in 1..n /\ t[i] = s[i - 1] /\ t[j] = s[j - 1]
        BY <2>6, <3>1, <4>1
      <4> QED  BY <2>5, <4>1, <4>2
    <3> QED  BY <3>2, <3>3
  <2>13. Lists(t, K, n + 1)
    BY <2>10, <2>11, <2>12 DEF Lists
  <2> QED  BY <2>13
<1> HIDE DEF T
<1>3. \A n \in Nat : n \in T
  BY <1>1, <1>2, SetInduction
<1>4. Cardinality(S) \in T
  BY <1>3, FS_CardinalityType
<1> QED  BY <1>4 DEF T

\* What each of the commands sorts by.
SortKey(S) == [k \in S |-> <<k.address, k.prefix_len>>]

\* sort_by_key makes such a list of it.
LEMMA SortedLists ==
    ASSUME NEW S \in SUBSET PrefixKey, IsFiniteSet(S)
    PROVE  Lists(SortByKey(S, SortKey(S)), S, Cardinality(S)) /\ Cardinality(S) \in Nat
<1> DEFINE n == Cardinality(S)
           P(s) == /\ \A i, j \in 1..n : i # j => s[i] # s[j]
                   /\ \A i, j \in 1..n : i < j => ~Before(SortKey(S)[s[j]], SortKey(S)[s[i]])
<1>1. n \in Nat
  BY FS_CardinalityType
<1>2. PICK l : Lists(l, S, n)
  BY KeysListed
<1>3. \A k, j \in S : Before(SortKey(S)[k], SortKey(S)[j]) <=> InOrder(k, j)
  BY DEF Before, SortKey, InOrder
<1>4. l \in [1..n -> S] /\ P(l)
  <2>1. l \in [1..n -> S] /\ \A i, j \in 1..n : i < j => InOrder(l[i], l[j])
    BY <1>2 DEF Lists
  <2>2. \A i \in 1..n : l[i] \in S /\ l[i] \in PrefixKey
    BY <2>1
  <2>3. \A i, j \in 1..n : i # j => i < j \/ j < i
    BY <1>1
  <2>4. \A i, j \in 1..n : i # j => l[i] # l[j]
    BY <2>1, <2>2, <2>3, InOrderTotal
  <2>5. \A i, j \in 1..n : i < j => ~InOrder(l[j], l[i])
    BY <2>1, <2>2, InOrderTotal
  <2> QED  BY <1>3, <2>1, <2>2, <2>4, <2>5
<1> DEFINE s == SortByKey(S, SortKey(S))
<1>5. s = CHOOSE r \in [1..n -> S] : P(r)
  BY DEF SortByKey
<1>6. s \in [1..n -> S] /\ P(s)
  <2> HIDE DEF n, P, s
  <2> QED  BY <1>4, <1>5
<1> HIDE DEF s
<1>7. ASSUME NEW i \in 1..n, NEW j \in 1..n, i < j PROVE InOrder(s[i], s[j])
  <2>1. s[i] \in S /\ s[j] \in S /\ s[i] \in PrefixKey /\ s[j] \in PrefixKey
    BY <1>6
  <2>2. s[i] # s[j]
    BY <1>1, <1>6, <1>7
  <2>3. ~InOrder(s[j], s[i])
    BY <1>3, <1>6, <1>7, <2>1
  <2> QED  BY <2>1, <2>2, <2>3, InOrderTotal
<1>8. ASSUME NEW k \in S PROVE \E i \in 1..n : s[i] = k
  <2>1. s \in Injection(1..n, S)
    BY <1>6 DEF Injection, IsInjective
  <2>2. IsFiniteSet(1..n) /\ Cardinality(1..n) = n
    BY <1>1, FS_Interval
  <2> SUFFICES ASSUME \A i \in 1..n : s[i] # k PROVE FALSE
    OBVIOUS
  <2> DEFINE R == S \ {k}
  <2>3. s \in Injection(1..n, R)
    BY <1>6, <2>1 DEF Injection
  <2>4. IsFiniteSet(R) /\ Cardinality(R) = n - 1
    BY FS_RemoveElement, Zenon
  <2> HIDE DEF R, n
  <2>5. n <= n - 1
    BY <2>2, <2>3, <2>4, FS_Injection
  <2> QED  BY <1>1, <2>5
<1> QED  BY <1>1, <1>6, <1>7, <1>8 DEF Lists, s

\* The AS numbers that a path shows are those of its segments.
LEMMA PathShows ==
    ASSUME NEW p \in Seq(Seq(Nat)), NEW asn
    PROVE  /\ FlattenSeq(p) \in Seq(Nat)
           /\ Contains(FlattenSeq(p), asn)
                <=> \E s \in DOMAIN p : \E i \in DOMAIN p[s] : p[s][i] = asn
<1> DEFINE n == Len(p)
           In(k) == \E s \in 1..k : \E i \in DOMAIN p[s] : p[s][i] = asn
           Shows(q) == \E i \in 1..Len(q) : q[i] = asn
<1>1. n \in Nat /\ DOMAIN p = 1..n /\ \A s \in 1..n : p[s] \in Seq(Nat)
  OBVIOUS
<1>2. PICK h \in [0..n -> Seq(Nat)] : Steps(h, p)
  BY StepsExist
<1>3. h[0] = <<>> /\ \A i \in 1..n : h[i] = h[i - 1] \o p[i]
  BY <1>2 DEF Steps
<1>4. FlattenSeq(p) = h[n]
  <2>1. CASE n = 0
    BY <1>3, <2>1 DEF FlattenSeq
  <2>2. CASE n # 0
    <3>1. FlattenSeq(p) = LastStep(p)
      BY <2>2 DEF FlattenSeq, LastStep
    <3> QED  BY <1>2, <2>2, <3>1, LastStepOf
  <2> QED  BY <2>1, <2>2
<1> DEFINE T == {k \in Nat : k <= n => (Shows(h[k]) <=> In(k))}
<1> HIDE DEF n
<1>5. 0 \in T
  BY <1>1, <1>3
<1>6. ASSUME NEW k \in Nat, k \in T PROVE k + 1 \in T
  <2> SUFFICES ASSUME k + 1 <= n PROVE Shows(h[k + 1]) <=> In(k + 1)
    OBVIOUS
  <2>1. k + 1 \in 1..n /\ (k + 1) - 1 = k /\ k \in 0..n /\ k <= n
    BY <1>1
  <2> DEFINE u == h[k]
             v == p[k + 1]
  <2>2. h[k + 1] = u \o v /\ u \in Seq(Nat) /\ v \in Seq(Nat)
    BY <1>1, <1>3, <2>1
  <2>3. Shows(u) <=> In(k)
    BY <1>6, <2>1
  <2>4. In(k + 1) <=> In(k) \/ \E i \in DOMAIN v : v[i] = asn
    <3> DEFINE Seg(s) == \E i \in DOMAIN p[s] : p[s][i] = asn
    <3>1. \A s : s \in 1..(k + 1) <=> s \in 1..k \/ s = k + 1
      OBVIOUS
    <3> HIDE DEF Seg
    <3>2. (\E s \in 1..(k + 1) : Seg(s)) <=> (\E s \in 1..k : Seg(s)) \/ Seg(k + 1)
      BY <3>1
    <3> QED  BY <3>2 DEF Seg
  <2> HIDE DEF u, v, In
  <2>5. Shows(u \o v) <=> Shows(u) \/ Shows(v)
    <3> DEFINE l == Len(u)
               r == Len(v)
    <3>1. /\ l \in Nat /\ r \in Nat /\ Len(u \o v) = l + r
          /\ \A i \in 1..l : (u \o v)[i] = u[i]
          /\ \A i \in 1..r : (u \o v)[l + i] = v[i]
      BY <2>2
    <3> DEFINE w == u \o v
    <3> HIDE DEF w, l, r
    <3>2. ASSUME NEW i \in 1..(l + r), w[i] = asn
          PROVE  (\E x \in 1..l : u[x] = asn) \/ (\E x \in 1..r : v[x] = asn)
      <4>1. CASE i <= l
        <5>1. i \in 1..l
          BY <3>1, <4>1
        <5> QED  BY <3>1, <3>2, <5>1 DEF w
      <4>2. CASE ~(i <= l)
        <5>1. i - l \in 1..r /\ l + (i - l) = i
          BY <3>1, <4>2
        <5>2. w[l + (i - l)] = v[i - l]
          BY <3>1, <5>1 DEF w
        <5> QED  BY <3>2, <5>1, <5>2
      <4> QED  BY <4>1, <4>2
    <3>3. ASSUME NEW i \in 1..l, u[i] = asn PROVE \E x \in 1..(l + r) : w[x] = asn
      <4>1. i \in 1..(l + r)
        BY <3>1
      <4> QED  BY <3>1, <3>3, <4>1 DEF w
    <3>4. ASSUME NEW i \in 1..r, v[i] = asn PROVE \E x \in 1..(l + r) : w[x] = asn
      <4>1. l + i \in 1..(l + r)
        BY <3>1
      <4> QED  BY <3>1, <3>4, <4>1 DEF w
    <3>5. Len(w) = l + r
      BY <3>1 DEF w
    <3> QED  BY <3>2, <3>3, <3>4, <3>5 DEF w, l, r
  <2>6. DOMAIN v = 1..Len(v)
    BY <2>2
  <2> QED  BY <2>2, <2>3, <2>4, <2>5, <2>6 DEF u
<1> HIDE DEF T, In
<1>7. \A k \in Nat : k \in T
  BY <1>5, <1>6, SetInduction
<1>8. Shows(h[n]) <=> In(n)
  BY <1>1, <1>7 DEF T
<1>9. FlattenSeq(p) \in Seq(Nat)
  BY <1>1, <1>2, <1>4
<1> QED  BY <1>1, <1>4, <1>8, <1>9 DEF Contains, In

SortedKeys(S) == SortByKey(S, SortKey(S))

Kept(F, S) == {i \in 1..Cardinality(S) : SortedKeys(S)[i] \in F}

\* Where the keys of F, sorted, are among those of S, sorted.
Places(at, F, S) ==
    /\ at \in [1..Cardinality(F) -> Kept(F, S)]
    /\ \A k \in Kept(F, S) : \E i \in 1..Cardinality(F) : at[i] = k
    /\ \A i, j \in 1..Cardinality(F) : i < j => at[i] < at[j]
    /\ \A i \in 1..Cardinality(F) :
         SortedKeys(F)[i] \in F /\ SortedKeys(F)[i] = SortedKeys(S)[at[i]]

LEMMA FilterPlaces ==
    ASSUME NEW S \in SUBSET PrefixKey, IsFiniteSet(S), NEW F \in SUBSET S
    PROVE  \E at : Places(at, F, S)
<1> DEFINE s == SortedKeys(S)
           f == SortedKeys(F)
           n == Cardinality(S)
           m == Cardinality(F)
           kept == Kept(F, S)
<1>1. IsFiniteSet(F) /\ F \in SUBSET PrefixKey
  BY FS_Subset
<1>2. Lists(s, S, n) /\ n \in Nat
  BY SortedLists DEF SortedKeys
<1>3. Lists(f, F, m) /\ m \in Nat
  BY <1>1, SortedLists DEF SortedKeys
<1>3a. kept = {i \in 1..n : s[i] \in F}
  BY DEF Kept
<1> HIDE DEF s, f, n, m, kept
<1>4. /\ s \in [1..n -> S] /\ \A k \in S : \E i \in 1..n : s[i] = k
      /\ \A i, j \in 1..n : i < j => InOrder(s[i], s[j])
  BY <1>2 DEF Lists
<1>5. /\ f \in [1..m -> F] /\ \A k \in F : \E i \in 1..m : f[i] = k
      /\ \A i, j \in 1..m : i < j => InOrder(f[i], f[j])
  BY <1>3 DEF Lists
<1> DEFINE at == [i \in 1..m |-> CHOOSE k \in 1..n : s[k] = f[i]]
<1>6. ASSUME NEW i \in 1..m PROVE at[i] \in 1..n /\ s[at[i]] = f[i]
  <2>1. f[i] \in S
    BY <1>5
  <2>2. \E k \in 1..n : s[k] = f[i]
    BY <1>4, <2>1
  <2> QED  BY <2>2
<1>7. at = [i \in 1..m |-> at[i]]
  OBVIOUS
<1> HIDE DEF at
<1>8. at \in [1..m -> kept]
  <2>1. \A i \in 1..m : at[i] \in kept
    BY <1>5, <1>6, <1>3a
  <2> QED  BY <1>7, <2>1
<1>9. \A i, j \in 1..n : s[i] = s[j] => i = j
  <2> SUFFICES ASSUME NEW i \in 1..n, NEW j \in 1..n, s[i] = s[j], i # j PROVE FALSE
    OBVIOUS
  <2>1. i < j \/ j < i
    BY <1>2
  <2>2. InOrder(s[i], s[i])
    BY <1>4, <2>1
  <2>3. s[i] \in PrefixKey
    BY <1>4
  <2> QED  BY <2>2, <2>3, InOrderTotal
<1>10. ASSUME NEW k \in kept PROVE \E i \in 1..m : at[i] = k
  <2>1. k \in 1..n /\ s[k] \in F
    BY <1>3a
  <2>2. PICK i \in 1..m : f[i] = s[k]
    BY <1>5, <2>1
  <2> QED  BY <1>6, <1>9, <2>1, <2>2
<1>11. ASSUME NEW i \in 1..m, NEW j \in 1..m, i < j PROVE at[i] < at[j]
  <2>1. InOrder(s[at[i]], s[at[j]]) /\ at[i] \in 1..n /\ at[j] \in 1..n
    BY <1>5, <1>6, <1>11
  <2>2. s[at[i]] \in PrefixKey /\ s[at[j]] \in PrefixKey
    BY <1>4, <2>1
  <2>3. ~InOrder(s[at[j]], s[at[i]]) /\ s[at[i]] # s[at[j]]
    BY <2>1, <2>2, InOrderTotal
  <2>4. at[i] # at[j] /\ ~(at[j] < at[i])
    BY <1>4, <2>1, <2>3
  <2> QED  BY <1>2, <2>1, <2>4
<1>12. \A i \in 1..m : f[i] \in F /\ f[i] = s[at[i]]
  BY <1>5, <1>6
<1>14. Places(at, F, S)
  BY <1>8, <1>10, <1>11, <1>12 DEF Places, s, f, n, m, kept
<1> QED  BY <1>14

\* Lines that are made of the sorted keys in the same way, as far as some
\* columns go, are selected as the keys are.
LEMMA FilterSelects ==
    ASSUME NEW S \in SUBSET PrefixKey, IsFiniteSet(S), NEW F \in SUBSET S, NEW columns,
           NEW rows, DOMAIN rows = 1..Cardinality(S),
           NEW some, DOMAIN some = 1..Cardinality(F),
           \A i \in DOMAIN some, j \in DOMAIN rows :
             SortedKeys(F)[i] \in F /\ SortedKeys(F)[i] = SortedKeys(S)[j]
               => \A c \in columns : some[i][c] = rows[j][c]
    PROVE  Selected(some, rows, Kept(F, S), columns)
<1> DEFINE m == Cardinality(F)
           kept == Kept(F, S)
           D == DOMAIN some
<1>1. PICK at : Places(at, F, S)
  BY FilterPlaces
<1>2. /\ at \in [1..m -> kept]
      /\ \A k \in kept : \E i \in 1..m : at[i] = k
      /\ \A i, j \in 1..m : i < j => at[i] < at[j]
      /\ \A i \in 1..m : SortedKeys(F)[i] \in F /\ SortedKeys(F)[i] = SortedKeys(S)[at[i]]
  BY <1>1 DEF Places
<1>3. \A i \in 1..m : at[i] \in DOMAIN rows
  BY <1>2 DEF Kept
<1>4. \A i \in 1..m, c \in columns : some[i][c] = rows[at[i]][c]
  BY <1>2, <1>3
<1>5. D = 1..m
  OBVIOUS
<1> HIDE DEF D, m, kept
<1>6. /\ at \in [D -> kept]
      /\ \A k \in kept : \E i \in D : at[i] = k
      /\ \A i, j \in D : i < j => at[i] < at[j]
      /\ \A i \in D, c \in columns : some[i][c] = rows[at[i]][c]
  BY <1>2, <1>4, <1>5
<1> QED  BY <1>6, Zenon DEF Selected, D, kept

\* The commands of the management interface agree on every table: for any keys
\* and routes and whatever is asked for, the filters of cmd_bgp_rib_aspath and
\* cmd_bgp_rib_nexthop, which look at the attributes, leave the lines that a
\* reader of cmd_bgp_rib would leave, in the same order and with the same
\* entries, and cmd_bgp_rib_prefix has the entries of the line of its prefix.
THEOREM ViewsShowOneTable ==
    ASSUME table \in [Keys -> Routes \cup {NoRoute}]
    PROVE  ViewsAgree
<1> DEFINE S == Installed
           n == Cardinality(S)
           s == SortedKeys(S)
           shown == CmdBgpRib
           Text(k) == AsNumbers(table[k])
           Line(k) == [network    |-> k,
                       local_pref |-> UnwrapOr(table[k].local_pref, 100),
                       med        |-> UnwrapOr(table[k].med, 0),
                       as_path    |-> IF Text(k) = <<>> THEN Dash ELSE Text(k),
                       next_hop   |-> UnwrapOr(table[k].next_hop, Dash),
                       origin     |-> UnwrapOr(table[k].origin, Question)]
<1>1. /\ S \in SUBSET PrefixKey /\ IsFiniteSet(S)
      /\ \A k \in S : table[k] \in Routes /\ table[k].as_path \in Seq(Seq(Nat))
  <2>1. S \in SUBSET Keys
    BY DEF Installed
  <2>2. \A k \in S : table[k] \in Routes
    BY DEF Installed
  <2> QED  BY <2>1, <2>2, ViewsAssumption, FS_Subset
<1>2. Lists(s, S, n) /\ n \in Nat
  BY <1>1, SortedLists DEF SortedKeys
<1>3. /\ s \in [1..n -> S] /\ \A k \in S : \E i \in 1..n : s[i] = k
  BY <1>2 DEF Lists
<1>4. shown = [i \in 1..n |-> Line(s[i])]
  BY DEF CmdBgpRib, SortKey, SortedKeys
<1>5. DOMAIN shown = 1..n /\ \A i \in 1..n : shown[i] = Line(s[i])
  BY <1>4
<1>6. ASSUME NEW k \in S, NEW asn
      PROVE  /\ Text(k) \in Seq(Nat)
             /\ Contains(Text(k), asn) <=>
                  \E g \in DOMAIN table[k].as_path :
                    \E i \in DOMAIN table[k].as_path[g] : table[k].as_path[g][i] = asn
  <2> DEFINE p == table[k].as_path
  <2>1. p \in Seq(Seq(Nat))
    BY <1>1
  <2>2. Text(k) = FlattenSeq(p)
    BY DEF AsNumbers
  <2> HIDE DEF p
  <2>3. /\ FlattenSeq(p) \in Seq(Nat)
        /\ Contains(FlattenSeq(p), asn)
             <=> \E g \in DOMAIN p : \E i \in DOMAIN p[g] : p[g][i] = asn
    BY <2>1, PathShows
  <2> QED  BY <2>2, <2>3 DEF p
<1> HIDE DEF n, s, shown, Text
<1>7. ASSUME NEW asn \in Asked
      PROVE  Selected(CmdBgpRibAspath(asn), shown,
                      {i \in DOMAIN shown : shown[i].as_path # Dash /\ Contains(shown[i].as_path, asn)},
                      {"network", "next_hop", "as_path"})
  <2> DEFINE F == {k \in S : \E g \in DOMAIN table[k].as_path :
                     \E i \in DOMAIN table[k].as_path[g] : table[k].as_path[g][i] = asn}
             f == SortedKeys(F)
             m == Cardinality(F)
             Short(k) == [network  |-> k,
                          next_hop |-> UnwrapOr(table[k].next_hop, Dash),
                          as_path  |-> Text(k)]
             some == CmdBgpRibAspath(asn)
             kept == {i \in DOMAIN shown : shown[i].as_path # Dash /\ Contains(shown[i].as_path, asn)}
             columns == {"network", "next_hop", "as_path"}
  <2>1. some = [i \in 1..m |-> Short(f[i])]
    BY DEF CmdBgpRibAspath, SortKey, SortedKeys, Text
  <2>2. \A k \in S : k \in F <=> Contains(Text(k), asn)
    BY <1>6
  <2>3. F \in SUBSET S
    OBVIOUS
  <2> HIDE DEF F
  <2>4. \A k \in S : /\ Text(k) \in Seq(Nat) /\ Text(k) # Dash
                     /\ k \in F => Text(k) # <<>>
    <3> SUFFICES ASSUME NEW k \in S
                 PROVE  Text(k) \in Seq(Nat) /\ Text(k) # Dash /\ (k \in F => Text(k) # <<>>)
      OBVIOUS
    <3>1. Text(k) \in Seq(Nat)
      BY <1>6
    <3>2. k \in F => \E i \in 1..Len(Text(k)) : Text(k)[i] = asn
      BY <2>2 DEF Contains
    <3>3. k \in F => Text(k) # <<>>
      BY <3>1, <3>2
    <3> QED  BY <3>1, <3>3, ViewsAssumption
  <2>5. \A k \in S : (Line(k).as_path # Dash /\ Contains(Line(k).as_path, asn)) <=> k \in F
    <3> SUFFICES ASSUME NEW k \in S
                 PROVE  (Line(k).as_path # Dash /\ Contains(Line(k).as_path, asn)) <=> k \in F
      OBVIOUS
    <3>1. CASE Text(k) = <<>>
      BY <2>4, <3>1
    <3>2. CASE Text(k) # <<>>
      <4>1. Line(k).as_path = Text(k)
        BY <3>2
      <4> QED  BY <2>2, <2>4, <4>1
    <3> QED  BY <3>1, <3>2
  <2>6. \A k \in F : \A c \in columns : Short(k)[c] = Line(k)[c]
    <3> SUFFICES ASSUME NEW k \in F
                 PROVE  /\ Short(k).network = Line(k).network
                        /\ Short(k).next_hop = Line(k).next_hop
                        /\ Short(k).as_path = Line(k).as_path
      OBVIOUS
    <3>1. Text(k) # <<>>
      BY <2>3, <2>4
    <3> QED  BY <3>1
  <2> HIDE DEF Line, Short
  <2>7. kept = Kept(F, S)
    <3>1. \A i \in 1..n : (shown[i].as_path # Dash /\ Contains(shown[i].as_path, asn)) <=> s[i] \in F
      BY <1>3, <1>5, <2>5
    <3> QED  BY <1>5, <3>1 DEF s, n, Kept
  <2>8. DOMAIN some = 1..m /\ \A i \in 1..m : some[i] = Short(f[i])
    BY <2>1
  <2>9. \A i \in DOMAIN some, j \in DOMAIN shown :
           f[i] \in F /\ f[i] = s[j] => \A c \in columns : some[i][c] = shown[j][c]
    BY <1>5, <2>6, <2>8
  <2> HIDE DEF S, kept, some, columns
  <2>10. Selected(some, shown, kept, columns)
    BY <1>1, <1>5, <2>3, <2>7, <2>8, <2>9, FilterSelects DEF s, n
  <2> QED  BY <2>10, Zenon DEF kept, some, columns
<1>8. ASSUME NEW target \in Asked
      PROVE  Selected(CmdBgpRibNexthop(target), shown,
                      {i \in DOMAIN shown : shown[i].next_hop = target},
                      {"network", "local_pref", "as_path"})
  <2> DEFINE F == {k \in S : table[k].next_hop = target}
             f == SortedKeys(F)
             m == Cardinality(F)
             Short(k) == [network    |-> k,
                          local_pref |-> UnwrapOr(table[k].local_pref, 100),
                          as_path    |-> IF Text(k) = <<>> THEN Dash ELSE Text(k)]
             some == CmdBgpRibNexthop(target)
             kept == {i \in DOMAIN shown : shown[i].next_hop = target}
             columns == {"network", "local_pref", "as_path"}
  <2>1. some = [i \in 1..m |-> Short(f[i])]
    BY DEF CmdBgpRibNexthop, SortKey, SortedKeys, Text
  <2>2. \A k \in S : Line(k).next_hop = target <=> k \in F
    <3>1. target # None /\ target # Dash
      BY ViewsAssumption
    <3> QED  BY <3>1 DEF UnwrapOr
  <2>3. F \in SUBSET S
    OBVIOUS
  <2>4. \A k \in F : \A c \in columns : Short(k)[c] = Line(k)[c]
    OBVIOUS
  <2> HIDE DEF F, Line, Short
  <2>5. kept = Kept(F, S)
    <3>1. \A i \in 1..n : shown[i].next_hop = target <=> s[i] \in F
      BY <1>3, <1>5, <2>2
    <3> QED  BY <1>5, <3>1 DEF s, n, Kept
  <2>6. DOMAIN some = 1..m /\ \A i \in 1..m : some[i] = Short(f[i])
    BY <2>1
  <2>7. \A i \in DOMAIN some, j \in DOMAIN shown :
           f[i] \in F /\ f[i] = s[j] => \A c \in columns : some[i][c] = shown[j][c]
    BY <1>5, <2>4, <2>6
  <2> HIDE DEF S, kept, some, columns
  <2>8. Selected(some, shown, kept, columns)
    BY <1>1, <1>5, <2>3, <2>5, <2>6, <2>7, FilterSelects DEF s, n
  <2> QED  BY <2>8, Zenon DEF kept, some, columns
<1>9. ASSUME NEW k \in PrefixKey
      PROVE  LET detail == CmdBgpRibPrefix(k)
                 found  == {i \in DOMAIN shown : shown[i].network = k}
             IN  /\ found = {} => detail = None
                 /\ \A i \in found :
                      /\ \A c \in {"next_hop", "local_pref", "med", "origin"} :
                           detail[c] = shown[i][c]
                      /\ detail.as_path =
                           IF shown[i].as_path = Dash THEN Empty ELSE shown[i].as_path
  <2> DEFINE found == {i \in DOMAIN shown : shown[i].network = k}
             detail == CmdBgpRibPrefix(k)
  <2>1. found = {i \in 1..n : s[i] = k}
    BY <1>5
  <2>2. CASE k \notin S
    <3>1. found = {} /\ detail = None
      BY <1>3, <2>1, <2>2 DEF CmdBgpRibPrefix
    <3> QED  BY <3>1
  <2>3. CASE k \in S
    <3>1. found # {} /\ \A i \in found : shown[i] = Line(k)
      BY <1>3, <1>5, <2>1, <2>3
    <3>2. detail = [next_hop   |-> UnwrapOr(table[k].next_hop, Dash),
                    local_pref |-> UnwrapOr(table[k].local_pref, 100),
                    med        |-> UnwrapOr(table[k].med, 0),
                    origin     |-> UnwrapOr(table[k].origin, Question),
                    as_path    |-> IF Text(k) = <<>> THEN Empty ELSE Text(k)]
      BY <2>3 DEF CmdBgpRibPrefix, Text
    <3>3. Text(k) # Dash
      BY <1>6, <2>3, ViewsAssumption
    <3>4. /\ detail.next_hop = Line(k).next_hop /\ detail.local_pref = Line(k).local_pref
          /\ detail.med = Line(k).med /\ detail.origin = Line(k).origin
      BY <3>2
    <3>5. detail.as_path = IF Line(k).as_path = Dash THEN Empty ELSE Line(k).as_path
      BY <3>2, <3>3
    <3> HIDE DEF Line, found, detail
    <3>6. \A i \in found :
            /\ \A c \in {"next_hop", "local_pref", "med", "origin"} : detail[c] = shown[i][c]
            /\ detail.as_path = IF shown[i].as_path = Dash THEN Empty ELSE shown[i].as_path
      BY <3>1, <3>4, <3>5
    <3> QED  BY <3>1, <3>6 DEF found, detail
  <2> QED  BY <2>2, <2>3
<1>10. CmdBgpSummary = Len(shown)
  <2>1. Len(shown) = n
    BY <1>2, <1>4
  <2> QED  BY <2>1 DEF CmdBgpSummary, n
<1> HIDE DEF Line
<1> QED  BY <1>7, <1>8, <1>9, <1>10 DEF ViewsAgree, shown
=============================================================================
