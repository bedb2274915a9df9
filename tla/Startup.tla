------------------------------ MODULE Startup -------------------------------
(***************************************************************************)
(* How the daemon comes up, and comes up again after a crash (main.rs;     *)
(* config.rs, Config; the first lines of server.rs and of MgmtServer::run  *)
(* in mgmt.rs).  The configuration file and the file of the management     *)
(* socket outlive the process; everything else starts anew.  The BGP       *)
(* server and the management server are tasks of their own and come up in  *)
(* either order.                                                           *)
(***************************************************************************)
EXTENDS Option, Sequences

CONSTANTS
    Files,          \* contents of the configuration file, parsed
    Flags,          \* command lines
    Taken           \* listen addresses that some other program uses

\* Router IDs, by what the validation asks of them.
RouterIds == {"legal", "unspecified", "broadcast", "loopback"}

VARIABLES
    file,       \* the configuration file
    cli,        \* the flags the daemon was started with
    proc,       \* "down" or "up"
    local,      \* LocalConfig: [local_as, router_id, hold_time]
    listen,     \* address of the BGP server
    server,     \* the BGP server: "off", "bind" or "listening"
    mgmt,       \* the management server: "off", "remove", "bind", "listening" or "failed"
    socket      \* the socket file: "none", "stale", "live", "foreign" or "nowhere"

startupVars == <<file, cli, proc, local, listen, server, mgmt, socket>>

\* LocalConfig::new
DefaultLocal == [local_as |-> 65000, router_id |-> "legal", hold_time |-> 90]

\* A file that is not of the daemon's user cannot be removed, and nothing can
\* be put into a directory that is not there or not writable.
StartupInit ==
    /\ file \in Files
    /\ cli \in Flags
    /\ proc = "down"
    /\ local = DefaultLocal
    /\ listen = None
    /\ server = "off"
    /\ mgmt = "off"
    /\ socket \in {"none", "stale", "foreign", "nowhere"}

-----------------------------------------------------------------------------
(* The configuration file *)

HoldTimeOK(t) == t = 0 \/ t >= 3

\* The loop over the neighbors: seen are those above the i-th.
NeighborOK(neighbors, i) ==
    LET n == neighbors[i]
    IN  /\ n.addr \notin {neighbors[j].addr : j \in 1..(i - 1)}
        /\ n.remote_as # 0
        /\ n.hold_time # None => HoldTimeOK(n.hold_time)
        /\ n.md5_password # None => n.md5_password \in 1..80

\* Config::validate; a password stands for its length.
ValidConfig(cfg) ==
    LET r == cfg.router
    IN  /\ r.local_as # 0
        /\ r.router_id \notin {"unspecified", "broadcast", "loopback"}
        /\ HoldTimeOK(r.hold_time)
        /\ r.keepalive_interval # None =>
             /\ r.keepalive_interval # 0
             /\ r.hold_time # 0 => r.keepalive_interval < r.hold_time
        /\ \A i \in DOMAIN cfg.neighbors : NeighborOK(cfg.neighbors, i)

\* main: what the daemon runs with.  Flags other than --listen are looked at
\* without --config only, and nobody validates them.
LocalOf ==
    IF cli.config
    THEN [local_as  |-> file.router.local_as,
          router_id |-> file.router.router_id,
          hold_time |-> file.router.hold_time]
    ELSE [local_as  |-> UnwrapOr(cli.local_as, DefaultLocal.local_as),
          router_id |-> UnwrapOr(cli.router_id, DefaultLocal.router_id),
          hold_time |-> UnwrapOr(cli.hold_time, DefaultLocal.hold_time)]

ListenOf == UnwrapOr(cli.listen, IF cli.config THEN file.router.listen ELSE 179)

-----------------------------------------------------------------------------
(* The process *)

\* main up to the start of the two servers.  A file that does not validate
\* ends the program before it has touched anything.
Start ==
    /\ proc = "down"
    /\ cli.config => ValidConfig(file)
    /\ proc' = "up"
    /\ local' = LocalOf
    /\ listen' = ListenOf
    /\ server' = "bind"
    /\ mgmt' = "remove"
    /\ UNCHANGED <<file, cli, socket>>

\* Server::run binds.
ServerBind ==
    /\ server = "bind"
    /\ listen \notin Taken
    /\ server' = "listening"
    /\ UNCHANGED <<file, cli, proc, local, listen, mgmt, socket>>

\* The process is gone, and with it the listeners; the socket file stays.
Exit ==
    /\ proc' = "down"
    /\ server' = "off"
    /\ mgmt' = "off"
    /\ socket' = IF socket = "live" THEN "stale" ELSE socket
    /\ local' = DefaultLocal
    /\ listen' = None
    /\ UNCHANGED <<file, cli>>

\* Server::run cannot bind: main returns, wherever the other task is.
ServerBindFails == server = "bind" /\ listen \in Taken /\ Exit

\* Killed, at any moment, and started again later with other flags perhaps.
Crash == proc = "up" /\ Exit

Reconfigure(flags) ==
    /\ proc = "down"
    /\ cli' = flags
    /\ UNCHANGED <<file, proc, local, listen, server, mgmt, socket>>

\* Mutant of MgmtRemove: the file of the last run is left where it is.
MgmtRemoveNothing ==
    /\ mgmt = "remove"
    /\ mgmt' = "bind"
    /\ UNCHANGED <<file, cli, proc, local, listen, server, socket>>

\* MgmtServer::run removes the socket file if it can; an error is ignored.
MgmtRemove ==
    /\ mgmt = "remove"
    /\ mgmt' = "bind"
    /\ socket' = IF socket = "stale" THEN "none" ELSE socket
    /\ UNCHANGED <<file, cli, proc, local, listen, server>>

\* It binds, or ends with an error that main logs: there is a file, or there
\* can be none.
MgmtBind ==
    /\ mgmt = "bind"
    /\ IF socket = "none" THEN mgmt' = "listening" /\ socket' = "live"
                          ELSE mgmt' = "failed" /\ UNCHANGED socket
    /\ UNCHANGED <<file, cli, proc, local, listen, server>>

StartupNext ==
    \/ Start \/ ServerBind \/ ServerBindFails \/ Crash
    \/ \E flags \in Flags : Reconfigure(flags)
    \/ MgmtRemove \/ MgmtBind

\* Both tasks are polled as long as the process lives.
StartupFairness ==
    /\ WF_startupVars(ServerBind \/ ServerBindFails)
    /\ WF_startupVars(MgmtRemove \/ MgmtBind)

StartupSpec == StartupInit /\ [][StartupNext]_startupVars /\ StartupFairness

-----------------------------------------------------------------------------
(* Properties *)

\* As the help text of the flags --local-as, --router-id and --hold-time has
\* it (main.rs:26, 30, 34: "overrides config"): a daemon that is started with
\* one of them beside --config runs with what the flag says.
FlagsOverrideConfig ==
    (proc = "up" /\ cli.config) =>
        /\ cli.local_as # None => local.local_as = cli.local_as
        /\ cli.router_id # None => local.router_id = cli.router_id
        /\ cli.hold_time # None => local.hold_time = cli.hold_time

\* A daemon that has its port is reachable for management in the end, be the
\* socket file of an earlier run there or not and whenever that run crashed,
\* unless the file is none of its own, its directory takes none, or it goes
\* down again.
RestartServed ==
    (server = "listening") ~> \/ mgmt = "listening" /\ socket = "live"
                              \/ socket \in {"foreign", "nowhere"}
                              \/ proc = "down"
=============================================================================
