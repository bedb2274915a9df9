# PathForge in TLA+

This directory specifies PathForge, a BGP-4 speaker written in Rust: its routing
information base, the session state machine and timers, the daemon in which many
sessions share one RIB, the framing and the codecs of messages, prefix lists and
origin validation, route reflection, the management interface, and start-up. The
specifications are checked with TLC on small instances, and the results that
matter most are proved with TLAPS for every value of the constants. Line numbers
refer to `src/src/` of the repository.

## 1. The system

| Component | State | Operations | Talks to |
|---|---|---|---|
| Server (`server.rs`) | listener, shared RIB and metrics | `run`: accept, spawn a task per connection | sessions (spawn) |
| Session (`peer.rs`) | `state`, `remote_as`, `peer_capabilities`, `negotiated_hold_time`, `timers`, read buffer | `handle_incoming`, `run_session`, `handle_message`, `handle_disconnect`, `transition` | remote speaker (TCP), RIB (write lock), metrics (atomics) |
| State machine (`fsm.rs`) | `BgpState`, `BgpEvent` | `Peer::transition` | session |
| Timers (`timer.rs`) | hold time, keepalive interval, two start instants | `new`, two resets, `hold_timer_expired`, `keepalive_due` | session |
| RIB (`rib.rs`) | Adj-RIB-In per peer, Loc-RIB | `process_update`, `remove_peer`, `mark_peer_stale`, `remove_stale_for_peer`, `run_decision_process`, `longest_match`, `summary` | dampening, RPKI; called by sessions and the management interface |
| Dampening (`dampening.rs`) | penalty and suppression per (peer, prefix) | `record_withdrawal`, `check_advertisement`, `remove_peer` | RIB |
| RPKI (`rpki.rs`) | mode, ROA table | `add_roa`, `validate`, `should_reject` | RIB |
| Metrics (`metrics.rs`) | atomic counters and gauges | `inc`, `set`, rendering | sessions write, management reads |
| Path attributes (`attr.rs`) | origin, AS_PATH, MED, LOCAL_PREF, communities, ... | parse, serialize, `as_path_len` | UPDATE codec, decision process |
| Messages (`message/`) | none | framing, OPEN / UPDATE / NOTIFICATION / KEEPALIVE / ROUTE-REFRESH codecs | session |
| Capabilities (`capabilities.rs`), multiprotocol (`mp.rs`) | none | codecs | session; `mp.rs` is not called |
| Policy (`policy.rs`) | prefix and community lists | `apply`, `matches_community_list` | not called by the daemon |
| Route reflector (`rr.rs`) | cluster id, router id | `should_reflect`, `prepare_reflected_attrs`, `has_loop` | not called by the daemon |
| Management (`mgmt.rs`) | socket file, one task per client | remove and bind the socket, answer line by line | RIB (read lock), metrics |
| Configuration and start-up (`config.rs`, `main.rs`) | settings | load, validate, precedence of file and flags, start of the two servers | all |

What is hard here:

* **Concurrency.** Every session is a task; the RIB is behind a `RwLock`, the
  counters are relaxed atomics. A method of the RIB is atomic, but what one
  session left there may be out of date after the next session's method, and the
  decision process runs only for the prefixes a method thinks it touched.
* **Order.** `handle_disconnect` tests a state that its callers have changed
  before; an UPDATE lists a prefix as withdrawn and announced; a NOTIFICATION
  leaves the loop running; an OPEN can come twice. A report reads eighteen
  counters one by one while sessions go on counting.
* **Failure.** A connection ends by end-of-file, hold timer, read error, write
  error or a message that does not parse, and only the first two clean up. An
  address may be used again while the task of the earlier connection has not
  learned of a reset. A killed daemon leaves its management socket behind.
* **Time.** Hold timer, keepalives, decay of penalties, `max_suppress_time`,
  the age of routes as a tie break.
* **Arithmetic at the edge.** Shifts by `32 - prefix_len`; hold times below 3,
  for which the keepalive interval is 0; lengths of one byte or two, several of
  them in one message, all written by the remote end.
* **Distribution.** A reflected route comes back on other ways, in any order.

What makes the components correct:

* RIB: the Loc-RIB is at all times the best of the Adj-RIBs-In; third parties do
  not move a best path; suppressed or contradicted routes are not installed.
* Dampening: further flaps do not move the start of a suppression, and an
  advertisement at its maximum ends it.
* RPKI: `covers` computes containment of address blocks; an added ROA never
  turns Valid into something worse.
* Framing: a session is a channel of messages, however TCP cuts the stream into
  reads; it loses messages only when the connection, the hold timer or a handler
  ends it, and then only the last ones; the read buffer stays bounded.
* Codecs: parsing takes back what serialising did; a message that is cut short is
  refused or loses the end of its last list, and never turns into another; what
  was read can be passed on.
* Route reflection: a route visits no cluster twice, never returns to where it
  came from, comes to rest, and still reaches everybody it should.
* Policy: an entry of a prefix list matches a set of address blocks, and what
  stands above in the file is never overruled by what stands below.
* Session: an Established session is supervised by its hold timer and supplies
  the remote end with keepalives; a silent or closed connection is noticed;
  after a NOTIFICATION it stays down.
* Daemon: no route and no flap penalty outlives a session that ended in order;
  counters agree with what happened.
* Management: reports add up although they are not read at one instant; every
  line is answered; the commands show one table.
* Start-up: a daemon that died, at whatever moment, comes up again with its
  management socket.

## 2. The modules

```
Option ------------------+-> Dampening --+
                         |               |
Addresses -> Rpki -> BestPath -----------+-> Rib --> MCRib
  |            |                              |
  |            +-> RpkiValidator -----+       |
  |                                   |       |
  |  Fsm -----------------------------|-------+-> Daemon --> MCDaemon
  |   |                               |
  |   +-> Session <-- Timers          |
  |   +-> Management -----------------|-----> MCManagement
  |                                   |             ^
  +-> Views --------------------------|-------------+
  +-> Policy -------------------------+-> MCConfiguration
                           Startup ---+         ^
            Reflection --> MCReflection --------+

Octets -> AttrCodec -> UpdateCodec --+
   +----> OpenCodec -----------------+-> Codecs --> MCWire
   +----> MpCodec -------------------+                ^
                                        Framing ------+
                                           | implements
                                        Channel

Session ----------------------------> SessionProofs
Daemon (with Rib), Arithmetic ------> DaemonProofs
Framing, Arithmetic ----------------> FramingProofs
Codecs, Arithmetic -----------------> CodecProofs
Reflection -------------------------> ReflectionProofs
RpkiValidator, Policy, Arithmetic --> ConfigurationProofs
Management, Views, Arithmetic ------> ManagementProofs
```

An arrow is EXTENDS; Option is extended by most. **Arithmetic** has no part of
the program: it states and proves facts about powers of two, division, least
elements and concatenations of any number of sequences that the other proofs share.

**Option** has optional numbers (`Option<u32>`, `Option<Instant>`).
**Addresses** has addresses of `Width` bits, prefixes, and the block of addresses
that a prefix stands for; the block is the reference that three pieces of shift
and mask code are compared with: `covers`, `longest_match` and `is_subnet`.

**BestPath** has routes and the comparator of `run_decision_process`. Missing
attributes are `None` and the comparator's defaults are applied to them. The
sort is stable and its input comes in `HashMap` order, so `Best` is the *set* of
routes that may come first. Of an AS_PATH only its length is kept; next hop,
communities and the other attributes are not compared and are left out.

**Dampening** has the entry of one (peer, prefix) pair. Penalties are natural
numbers and time is in ticks. The exponential decay is a constant operator of
which only `Decay(p, e) \in 0..p` is assumed; TLC gets halving per tick.
`suppress_count` is left out, nothing reads it.

**Rpki** has the judgement of one route. Shifts
are those of a release build: the amount is taken modulo the width. A debug
build panics where the amount is 32; the model follows the release build.
**RpkiValidator** lets the ROA table grow and compares `covers` with block
containment.

**Rib** has the maps of `rib.rs` as total functions (`NoRoute`, `NoEntry` for an
absent key) and one action per method: `ProcessUpdate`, `RemovePeer`,
`MarkPeerStale`, `RemoveStaleForPeer`, and `Tick` for time. A method runs under
the write lock and is one action. `ProcessUpdate` keeps the order of the code:
record the withdrawals, check each announcement, insert what is accepted, remove
what is withdrawn, decide what was touched. An UPDATE carries sets of prefixes;
one that lists a prefix twice has the effect of two UPDATEs in a row.
`LongestMatch` is the lookup of the management interface, a pure operator. The origin
AS given to the validation is the AS of the peer, as in the code (`rib.rs:139`).
That the lock may be poisoned is left out: no code that holds it can panic on
the values modelled here. A prefix that one UPDATE both withdraws and announces
ends up removed (`rib.rs:153`).

**Fsm** is `Peer::transition`, **Timers** is `BgpTimers` with ages in place of
instants; an age stops growing at the limit it is compared with.

**Session** is the loop of one session in seconds: `pc` distinguishes sending
the OPEN, the top of the loop (timer checks), and the select. Messages arrive
parsed, in any order. `Tick` is a second that passes while the loop waits; the
program wakes up every 100 ms, so it checks its timers between any two seconds.
When one read brings several messages the program handles them without looking
at the timers in between; the model looks at them, but no second passes, so
nothing new can have expired. `silence` is the time since our last message.
`ConfirmDelay` bounds how long the remote end takes from our KEEPALIVE to its
own first one: the code sends no KEEPALIVE in OpenConfirm, so a slower remote
end may expire its own timer first, which is not this program's doing.

**Daemon** composes sessions with the RIB and the metrics. A connection is a
record with the phase of its task, the fields of `Peer` that matter, whether the
hold timer runs, and the remote end. `Accept` is `Server::run` with
`handle_incoming`; `RecvOpen`, `RecvKeepalive`, `RecvUpdate`, `RecvEndOfRib`,
`RecvNotification` are the arms of `handle_message`; `HoldExpires`, `Eof` and
`SessionError` are the ends of `run_session`. A handler is one action since it
takes the lock once. `SessionError` stands for read errors, write errors,
messages that do not parse and panics of a parser: all end the task with no
cleanup. An address is accepted again only when its earlier connection is gone,
or was reset without the task knowing yet: the kernel does not hold two
connections with the same pair of addresses.

**Framing** is the read of `run_session` and the loop that cuts messages out of
the buffer (`BgpMessage::parse`, `Header::parse`). The first byte of a header
stands for all it says; a parse that starts anywhere else finds no marker. The
remote end claims any length, right or wrong, and any type. The reference,
`Messages`, cuts a whole stream at once: a recursive function of the place where
the next message begins (`MessagesFrom`). The loop is left in five ways: `Eof`,
`HoldExpires`, `LoopFails` (a read or a write at the top of the loop returns an
error), `HandleFails` (the `?` behind `handle_message`: a body that does not parse
or an answer that cannot be written, whatever else is in the buffer), `BadHeader`
(the `?` behind the parse). Only messages with a body can fail (`Fallible`).
**Channel** is what a session promises its users: messages come out once each, in
the order they were put in, and all of them in the end, unless the channel
breaks. Framing implements it (`ImplementsChannel`) with
`sent <- Messages(stream)`, `received <- handled` and
`broken <- pc \in {"expired", "failed"}`; an end of file and an improper header do
not excuse a message that is not delivered.

**Octets**, **AttrCodec**, **UpdateCodec**, **OpenCodec**, **MpCodec** and
**Codecs** are the parsers and serialisers of message bodies as operators on
sequences of bytes, with `Err` and `Panic` for the two ways to fail. The size of
a byte, of a `u32` and of an address are constants, so that TLC can use small
ones; the loops that take items off a buffer are one operator, `Cut`, written as
a recursive function. In Codecs a body is the serialised form of a message that
then loses bytes at its end, or it grows byte by byte from what its kind begins
with: all short bodies over an alphabet that has the type codes, lengths and
flags that matter. `LocalOpen` is the OPEN the daemon sends. In the other
modules messages arrive parsed: a body that does not parse is `ParseFails` of
Session and `SessionError` of Daemon.

**Policy** has the prefix lists of a configuration and grows them entry by
entry, with the verdicts of the engine as operators. A prefix that does not
parse is `None`. Lengths above the width of an address, which `parse_prefix` lets
through, are left out.

**Startup** is `main`, `Config::validate` and the first lines of the two servers.
The configuration file and the socket file outlive the process; a crash may come
between any two steps. A password stands for its length, a router ID for the
classes that the validation tells apart. `Taken` are ports in use by others.
A socket file is `"foreign"` when it cannot be removed, and `"nowhere"` when its
directory is missing or takes no file, so that the bind fails with no file there.

**Reflection** is `rr.rs` in a network: every router decides by `should_reflect`,
`prepare_reflected_attrs` and `has_loop`. The code that will call them does not
exist yet, so `Bring`, `Discard` and `Accept` are marked external; they follow
the comments of `rr.rs`. Everything that passes the loop checks is reflected,
which is the most that best-path selection could let through, so that what holds
of it holds of any selection, except `LoopDetectionLosesNothing`, which is about
the loop checks alone.

**Management** has a client's connection beside the sessions. In Daemon a handler
is one action; here it is a sequence of effects on shared state (`OnOpen`,
`OnUpdate`, ...), each a step, and a report reads one counter per step, so that
every interleaving of reads and increments occurs. A report knows its order and
how far it got; a step reads the next counter that the properties compare. The atomics are relaxed; the
model lets them take effect in program order, which x86-64 guarantees for what
the compiler emits here and ARM does not (`.github/workflows/docker.yml` builds
for both). **Views** has the RIB commands as operators on a table, each with its
own filter, order, columns and defaults, as it is written in `mgmt.rs`; layout and
the columns that no two commands share are left out.

Definitions whose names start like another one and whose comment says *mutant*
are plausible mistakes (a dropped guard, a swapped order, a missing reset).
Each property has one that breaks it, so that the properties are known to be
able to fail. They take part in no specification.

## 3. The runs

| Run | Instance | Shows | Distinct states |
|---|---|---|---|
| `rib_selection` | 3 peers (symmetric), 1 prefix, 4 attribute sets, 2 AS numbers, strict RPKI, 2 instants | `RibTypeOK`, `LocRibIsBest`, `NoInvalidSelected`, `BestPathStable` | 44 k |
| `rib_dampening` | 1 peer, 2 prefixes, one the default route, 6 instants, default thresholds | `SuppressedNotInstalled`, `LookupMostSpecific`, `SuppressionNotExtended`, `SuppressionCapped` | 154 k |
| `session` | local hold time 7, proposals 0, 3, 6, 9 | `TypeOK`, `EstablishedSupervised`, `KeepalivesInTime`, `IdleIsFinal`, `SilentPeerDetected`, `CloseDetected` | 5 k |
| `daemon` | 2 connections, 2 addresses, 1 prefix, 2 instants, fair | `DaemonTypeOK`, `RoutesHaveOwner`, `EstablishedCounted`, `LocRibGaugeNotBehind`, `NeverStale`, `HistoryHasOwner`, `ClosedPeerRoutesRemoved` | 895 k |
| `configuration` | tables of 2 ROAs and lists of 2 entries over 2-bit addresses; 4 routers on a ring with a chord, every choice of roles and missing sessions, own or shared clusters; 108 files, 16 command lines, crashes at any moment; fair | `CoversIsContainment`, `VerdictsMonotone`, `VerdictIsFirstMatch`, `ClusterListsSimple`, `OriginNeverLearnsItsOwn`, `LoopDetectionLosesNothing`, `Quiescence`, `RestartServed` | 374 k |
| `wire` | headers of 2 bytes, messages of at most 4, reads of 3, streams of 7 bytes, 2 types of which one may fail, fair; bodies of 7 kinds with bytes of 5 bits | `ReadsDoNotMatter`, `BufferBounded`, `ImplementsChannel`, `RoundTrip`, `TruncationSafe`, `ForwardsWhatItRead`, `CapabilitiesInOrder` | 742 k |
| `management` | 2 sessions, 4 events, 3 lines, fair; every table of 4 prefixes and 9 routes | `ReportsAddUp`, `LinesAnswered`, `ViewsAgree` | 1 037 k |

Where a run has several independent modules (`configuration`, `wire`,
`management`) one moves while the others are in their initial state: they share
no variable, so every state of each is reached.

Bounds, and why they are enough to be interesting:

* Three peers are the fewest for which a third one can disturb the choice
  between two others. The attribute sets have a missing attribute, its default
  given explicitly, a better value in a higher rank with a worse one in a lower
  rank, so that every level of the comparator decides somewhere; two instants
  make ages differ or tie. `MaxPenalty = 4` allows one flap there: suppression
  is the subject of the next run.
* A tick of the dampening is one half-life and 4 units of penalty are the
  program's 1000, so the defaults become flap 4, suppress 8, reuse 3, at most 4
  ticks. `MaxPenalty = 12` lets a suppressed prefix flap again and `MaxTime = 5`
  goes past `max_suppress_time`. The two prefixes are the default route and one
  inside it, so that a lookup has something to choose from.
* 2-bit addresses have lengths 0 to 2: both ends, and a middle. Two ROAs are the
  fewest that can contradict each other.
* A header of 2 bytes can be split by a read; reads of 3 bytes and streams of 7
  have one read that brings more than one message, messages that need several
  reads, and lengths that are too small, too large or do not agree with what was
  sent, so that the next parse starts inside a body.
* Two entries are the fewest that overlap and disagree, two lists the fewest
  that share a name; bits 0 to 2 and bounds unset, 1 or 2 have every order of `ge`,
  `le` and the length of a prefix that is not the default route's.
* The hold times are off, the shortest legal one, below and above the local one;
  7 is no multiple of 3, so the rounding of the interval shows.
* Two connections are the fewest for which one ends while another runs, from
  the same address or from another. `MaxFailures = 1` bounds the counter of
  failures, which would otherwise grow without end by repeated NOTIFICATIONs.
  With one address all of `Next` is explored; once both addresses are in use no
  time passes and every OPEN brings Graceful Restart and a hold time, since what
  two addresses add is how routes of one meet those of the other.
* A byte of 5 bits overflows at 32, so that values of 31, 32 and 33 bytes, and AS
  numbers above what fits a `u16`, occur in short messages. The samples have every
  attribute, lists empty and not, an IPv6 address, capabilities spread over
  parameters. Free bodies reach 5 to 17 bytes, enough for two attributes, two
  prefixes or two capabilities in a row and for every early return.
* The files cover each test of the validation passing and failing, with and
  without neighbors, and the flags each setting with and without a file.
* Four routers on a ring with a chord are the fewest with two ways back to the
  origin, reflectors that are clients of each other, and a shared cluster on a
  detour.
* Four events bring one session up (connect, OPEN, KEEPALIVE) with a step of the
  other in between, or let both announce; sessions run while the client asks for
  one report, and without sessions the client sends three lines of any kind. A
  report reads the eleven counters that the properties compare; the other seven
  reads would change nothing.
* `CHECK_DEADLOCK FALSE` is said where the system may stop: a session that has
  ended, or a daemon whose connections are used up.

**Fairness.** The tasks of the tokio runtime are polled, and no session blocks
another one: the lock is held by methods that terminate. Session assumes weak
fairness of its own steps and of the passing of time (`SendOpen`, `CheckTimers`,
`HoldExpires`, `Eof`, `Tick`); the read of a closed connection is ready at once
and wins the select against the 100 ms sleep, so `Tick` is not enabled then. Part
of this is that writes come to an end: `write_all` (`peer.rs:118`, `:140`, `:254`)
has no timeout, and a remote end that keeps the connection open and does not read
until all buffers on the way are full would hold the task there. Daemon assumes
weak fairness of `Eof`, Framing of reads, of the end of file and of the loop over
the buffer: bytes that were sent arrive unless the connection breaks. Startup
assumes it of the two tasks that come up, as long as the process lives;
Management of the task of the connection, which no session can block, and with it
of a client that reads the answers it is sent (`write_all` in `mgmt.rs:110`);
Reflection of the delivery of announcements that are under way. Beyond that
nothing is assumed of the remote end, of the client or of the operator.

### Where the code does not do what it says

These runs are expected to end in a violation; the counterexamples are short.

| Run | Property | What happens |
|---|---|---|
| `rpki_invalid` | `InvalidAsDocumented` | A prefix longer than the max-length of the only ROA that contains it is NotFound: `covers` tests the max-length (`rpki.rs:47`), so the ROA does not count as covering. The module says Invalid (`rpki.rs:12`, `:62`). |
| `daemon_graceful_restart` | `GracefulRestartKeepsRoutes` | The routes of an Established peer with Graceful Restart are removed when it disconnects: the transition before `handle_disconnect` leaves Established (`peer.rs:198`). |
| `daemon_error_leak` | `RoutesNeedRunningSession` | A session that ends in an error leaves its routes behind (`peer.rs:162`, `:172`). |
| `flags_ignored` | `FlagsOverrideConfig` | With `--config` the daemon takes its AS, router ID and hold time from the file alone (`main.rs:59`). The help text of `--local-as`, `--router-id` and `--hold-time` says of each that it "overrides config" (`main.rs:26`, `:30`, `:34`). |
| `update_panic` | `UpdateNeverPanics` | When the withdrawn routes of an UPDATE leave fewer than two bytes, the attribute length is read all the same, and the read panics (`update.rs:113`). The README (`:262`) requires parsers to return `Err` or `None`. |

More disagreements came up and have no run of their own.

* RPKI: a ROA of length 0 shifts by 32 (`rpki.rs:51`), which a release build takes
  for 0, so that it covers only its own address; `CoversIsContainment` excludes
  length 0.
* Timers: a hold time of 1 or 2 seconds is taken over (`peer.rs:251`) although
  `open.rs:15` says 0 or at least 3, and the keepalive interval becomes 0;
  `KeepalivesInTime` asks for at least 3.
* Dampening: `max_suppress_time` is looked at only when a prefix is advertised
  again (`dampening.rs:135`); `SuppressionCapped` states what holds then.
* Session: UPDATEs are applied in every state, also before the OPEN with AS 0
  (`peer.rs:269`); the AS of a peer is taken from the two bytes of the OPEN even
  if a FourOctetAsn capability says otherwise (`peer.rs:249`); a NOTIFICATION
  counts a failure without ending the session (`peer.rs:329`).
* Metrics: the end of any session sets the gauge of active sessions to 0
  (`peer.rs:133`, `:154`, `:331`), though `metrics.rs:106` calls it "Currently
  active BGP sessions"; the Loc-RIB gauge is not stored when routes are removed
  (`peer.rs:312`), for which `LocRibGaugeNotBehind` states what does hold;
  `messages_tx_update`, `routes_advertised`, `parse_errors` and `fsm_errors` are
  reported and never incremented.
* Codecs: an unknown attribute with the extended-length flag and a short value is
  passed on with the flag and a one-byte length (`attr.rs:394`), so that it cannot
  be read again; `ForwardsWhatItRead` excludes it (`LongFlagKept`). AS_PATH is
  read with 4-byte AS numbers only (`attr.rs:202`). Prefix lengths from 33 to 255 are
  accepted, and serialising such a prefix panics (`update.rs:60`). Host bits are
  kept, so that one prefix may have several keys. `MpReachNlri::parse` panics when
  nothing follows the next hops (`mp.rs:185`). A capability may run past the end
  of its parameter (`capabilities.rs:88`); `CapabilitiesInOrder` is about
  parameters in which it does not.
* Start-up: without a configuration file nothing is validated. A second daemon removes the socket of a running
  one (`mgmt.rs:74`).
* Management: `quit` is announced to close the connection (`mgmt.rs:461`) and only
  answers; the list of peers has no writer, so that `show bgp summary` and
  `show bgp neighbors` never show one.
* Route reflector: `RrConfig.enabled` is read by nobody.

## 4. The proofs

`DaemonProofs` begins with `RibSpec` and proves about it, for any sets of peers, prefixes, attributes
and AS numbers, any ROA table and mode, and any dampening configuration:

* `PreferredIsStrictWeakOrder`: the comparator is what `sort_by` requires;
* `RibInvariant`: the inductive invariant `RibInv`;
* `RibTypeCorrect`, `LocRibCorrect`, `SuppressionEnforced`, `StrictModeEnforced`:
  the invariants of the runs;
* `BestPathStability`, `SuppressionStartKept`, `SuppressionCap`: the action
  properties.

`RibInv` has six parts. `LocRibIsBest` is preserved because each method decides
every prefix whose candidates it changes (`LocRibStep`); only `mark_peer_stale`
changes candidates and decides nothing, which is why the property speaks of
routes up to their mark and why `PreferredUnmarked` is needed.
`SuppressedNotInstalled` is inductive because a suppression starts only with a
withdrawal, which also removes the route, and because an announcement is skipped
for as long as the entry is suppressed; it needs `HistoryOK` for the entries to
be comparable. `NoInvalidInstalled` says of the Adj-RIBs-In what
`NoInvalidSelected` says of the Loc-RIB: the former is inductive, and the latter
follows as the Loc-RIB holds candidates. `OwnRoutes` is what `BestPathStability`
identifies the sender of a route by.

It then proves about `Spec` of Daemon, for any number of connections:

* `DaemonTypeCorrect`;
* `DaemonLocRibCorrect`: the Loc-RIB is correct after every step of every session.
  Sessions reach the RIB through its methods only (`DaemonIsRib`), so what is proved
  of `RibSpec` carries over;
* `RoutesOwned`, `HistoryOwned` and `GracefulRestartUnreachable`, from
  `OwnershipInv`: routes and penalties are added by running sessions under their
  own address only, and a session that ends in order removes all of them because
  `handle_disconnect` is never reached in Established (`DisconnectNotEstablished`).

`ReflectionProofs` proves about `ReflectionSpec`, for any set of routers, any
sessions, roles and clusters:

* `ReflectionClusterListsSimple`: an announcement is reflected only after
  `has_cluster_loop` has found the reflector's cluster not to be in the list, so
  that prepending it keeps the list free of repetitions;
* `ReflectionOriginNeverLearns`: `OriginatorNamed` says that an announcement uses
  a session and names the origin as originator, or nobody, and then comes from
  the origin itself; no router has a session with itself, so what reaches the
  origin names it and is dropped by `has_originator_loop`;
* `ReflectionLosesNothing`: where every router is a cluster of its own and nothing
  is under way any more, exactly the ends of the paths of reflection have the
  route. `PathInv` has both directions. Every announcement has come along a path,
  and its CLUSTER_LIST names everybody on it but possibly the origin (`OnPaths`),
  so that a router that takes it is on no earlier place of that path and ends a
  longer one. On every path the last router has the route or an announcement is
  on its way between two routers of it that names only clusters of the routers
  before (`PathsServed`), so that what is dropped for a loop was never the
  announcement a path waits for. Finitely many routers bound the length of paths.

`SessionProofs` proves about `Spec` of Session, for any local hold time and any
proposals of the remote end:

* `SessionTypeCorrect`, `SessionInvariant` (the inductive invariant `SessionInv`);
* `SessionSupervised`, `SessionKeepalives`, `SessionIdleFinal`: the invariants and
  the action property of the run.

`SessionInv` has four parts beside the types. `HandshakeInv` and `TimersInv` say
that a session past OpenSent had its OPEN and that a hold timer runs from then on.
`WaitingInv` says that while the loop waits neither timer is overdue, because the
head of the loop saw to it. `KeepaliveInv` ties what the remote end sees to what
the program measures: our last message is older than the keepalive timer by
`ConfirmDelay` at most. `KeepalivesInTime` follows as a third of the hold time,
rounded down, leaves room for that delay; this is where hold times below 3 drop
out.

`DaemonProofs` also has `SessionsCounted` and `GaugeNeverBehind`. The first
follows from counting connections by sets: the counter lies between the sessions
that are up (`Up`) and the connections that are past the handshake for good
(`Past`), and a step moves the counter together with the two sets. The second rests on
`process_update` being the only method after which the Loc-RIB can have more
prefixes, and on the gauge being stored under the same lock.

`FramingProofs` proves about `FramingSpec`, for any sizes of header, message and
read and any stream:

* `FramingInvariant`: `FramingInv` says that the buffer is the end of what was
  read, and that what was handled is what the reference cuts in front of the
  buffer, whatever bytes follow (`HandledIsCut`): the next read is not known yet,
  so the invariant speaks of every stream that agrees up to there;
* `FramingReadsDoNotMatter` and `FramingBufferBounded`;
* `FramingImplementsChannel`: initial states and steps of the framing, its error
  exits included, are those of a channel that may break: what was handled is at
  all times a prefix of what was sent, and nothing is handled after a break. It is
  the safety part of `ImplementsChannel`.

The proof about the reference goes by induction over the distance to the end of
the stream: appending bytes changes nothing in front of the first message that was
not whole. Induction is over sets of numbers (`SetInduction` of Arithmetic, from
the least element that is not in the set), since the theorems of the library that
take a predicate cannot be used by the provers installed.

`ConfigurationProofs` proves

* `RpkiCoversIsContainment` and `RpkiVerdictsMonotone` for any address width,
  table and order of additions;
* `PolicyVerdictIsFirstMatch` for any width, lists and names

and `DaemonProofs` has `RibLookupMostSpecific`. The three pieces of shift and mask
code, `covers`, `is_subnet` and `longest_match`, are compared with one relation,
`Sharing(W, a, n)` of Arithmetic, the numbers of W bits whose first n bits are
those of a: it is the block of a prefix, it is wider for fewer bits, and two of
them are nested exactly when the one with fewer bits has the other's number.

`ManagementProofs` proves `ManagementReportsAddUp` for any number of sessions and
any number of messages, timeouts and failures. `ManagementInv` has two halves.

* *The counters* (`CountersInv`). To say that failures are never more than the
  notifications and expiries is not inductive: between two steps of a handler one
  is counted and the other is not. For each comparison there is a set of sessions
  that have counted the larger side and may yet count the smaller one (`AheadOf`,
  `FailingOf`, `NotifyingOf`), and the larger counter exceeds the smaller one by at least the
  size of that set. For this the handlers are known by `Plan`: what they may
  still count, and in which order. For the Loc-RIB the set holds prefixes: those
  in some Adj-RIB-In, and those of an UPDATE that is counted and not yet applied
  (`KnownOf`).
* *The report* (`AddsUp`). `Shown` is what the report has read of a counter, or
  what it would read now. Reading changes no `Shown`; sessions only raise
  counters, and a counter on the larger side is never read before those on the
  smaller side (`SmallFirst`). The gauge of the Loc-RIB can sink, but it is only
  on the smaller side.

It also proves `ViewsShowOneTable`: `ViewsAgree` holds of every table, for any
finite set of prefixes and any routes. `SortByKey` is a CHOOSE, so the proof starts
with the list being there: a finite set of prefixes is put in order by taking its
first one off (induction over its size). The prefixes that the filter of a command
leaves are then at increasing places of the full list, and those places are the
lines that show the AS number or next hop asked for: the filter looks into
segments, and the path shown has the AS numbers of all segments and no other, so
that a line with an empty path is never among them. What remains is that the
columns the commands have in common are filled with the same defaults.

`CodecProofs` proves about `CodecSpec`, for any width of bytes, words and
addresses, any messages that fit their length fields and any bodies:

* `CodecsRoundTrip`: each of the seven parsers gives back what its serialiser was
  given. The loops that take items off a buffer are recursive functions in a LET;
  `LoopExists` shows that such a function exists, by induction over the distance
  to the end of the buffer, and from then on only its equation is used. Items
  written one after the other are taken off again because at the start of each
  the length that is read is the one that was written. For attributes, what is
  written type by type is collected type by type (`OfType` of a concatenation).
* `CodecsSurviveTruncation`, from `LeftInv`: a body that began as a message is the
  first bytes of it. Over such a body the loop takes the same items as over the
  whole one, up to the item that was cut (`CutWalks`), and refuses that one or
  stops in front of it.
* `CapabilitiesStayInOrder`, from `BytesInv`: bodies are bytes. The inner loop
  flattens the capabilities of one parameter, the outer one those of all
  parameters; in the data they share, each parameter stands where the lengths in
  front of it say (`ParamsCut`, `CapabilitiesRead`, `CapabilitiesInTurn`).
* `CodecsForwardWhatTheyRead`, from `BytesInv` too, which also says that a body of
  attributes is no longer than two bytes can tell. `MessageRead` shows that what a
  parser returns for any bytes is one of `MessagesOf`, so that `EveryMessageBack`,
  the lemma behind `CodecsRoundTrip`, applies to it. Items that a loop takes off
  stand one behind the other in the buffer and put together are the buffer again
  (`WalkAdjacent`, `AdjacentFlatten`), which is also why prefixes are written as they
  came. That attributes fit the length field again is the hard part: they are
  written type by type, several of one type as one. For each type, what is
  written takes no more bytes than the attributes of that type took when they were
  read (`GroupFits`, `ListRead`, `LastRead`, `UnknownsRead`); room adds up over
  types (`RoomsAdd`, `WithinAll`), so the whole list never grows
  (`AttributesShrink`).

`MessagesOf` says which messages fit: lists no longer than their length field
tells, addresses zero beyond their prefix, flags of unknown attributes that
agree with the length of their value.

Assumptions are named and stand in the module that declares the constants
(`NoneAssumption`, `WidthAssumption`, `DampeningAssumption`, `RibAssumption`,
`DaemonAssumption`, `SessionAssumption`, `RpkiValidatorAssumption`,
`PolicyAssumption`, `OctetsAssumption`, `OpenCodecAssumption`, `CodecsAssumption`,
`ManagementAssumption`, `ViewsAssumption`, `ReflectionAssumption`,
`FramingAssumption`). They say what the sets are, that sessions have two ends and
none joins a router to itself, that penalties do not grow by waiting, that the
prefixes, connections and routers are finitely many, that an AS_PATH shown is a list of lists of numbers and the dash for an empty one
is no such list, that only known types of messages can fail, that 0, the AS of a peer before its OPEN, is
one of the AS numbers, that bodies are made of bytes, that a body of attributes is no
longer than the length field of an UPDATE tells (`update.rs:122` is the only caller
outside tests and fuzzing), that what a parser returns when it fails is none of the values it returns otherwise, and that the remote end confirms within 2 seconds
(`ConfirmDelay`; with a hold time of 3, a slower one would be at its limit before
the first KEEPALIVE that the program sends in Established). `MaxPenalty`,
`MaxTime`, `MaxEvents` and `MaxLines` bound the model; they are arbitrary in the
proofs.

Every invariant and every safety action property of the passing runs is stated by a
theorem. Model-checked only:

* all liveness (`SilentPeerDetected`, `CloseDetected`, `ClosedPeerRoutesRemoved`,
  `RestartServed`, `LinesAnswered`, `Quiescence`, and the delivery that
  `ImplementsChannel` promises), which is out of the prover's reach.

## 5. What is not modelled

Not modelled, and why:

* community lists of the policy engine (`policy.rs:77-96`): a membership test on
  parsed strings, with no state and no caller;
* TOML, the command line, addresses and prefixes as text: the parsing is done by
  libraries;
* layout: tables of the management interface, Prometheus text, `Display`;
* logging; `adj_rib_out` and `suppress_count`, which nothing reads;
* read-only counts (`suppressed_count`, `stale_route_count`);
* `build_capabilities`, which has no caller;
* keys with host bits in the RIB runs, and prefix lengths above the width.
