------------------------------ MODULE HudServers ------------------------------
(***************************************************************************)
(* HudLauncher and HudServer of mission-center-runtime: a table of the     *)
(* loopback servers of one process, one per workspace, that several        *)
(* threads launch, reuse and shut down.  launch holds the lock of the      *)
(* table to its end; shutdown_all takes the servers out and lets go of the *)
(* lock before it stops them; whoever was handed a server may stop it too. *)
(*                                                                         *)
(* The version of a server and its nonce are one value.  A port is one     *)
(* that the configuration names; port 0 clashes with nothing.  A server    *)
(* thread may panic, which shutdown reports when it joins the thread; no   *)
(* lock is poisoned.                                                       *)
(***************************************************************************)
EXTENDS Naturals, FiniteSets

CONSTANTS
    Callers,        \* threads that use the launcher
    Nobody,         \* none of them
    Workspaces,     \* workspace fingerprints
    Nonces,         \* versions and nonces
    NoNonce,        \* the configuration leaves the nonce open
    Ports,          \* ports that configurations name
    AnyPort,        \* port 0
    Configs,        \* the configurations that callers launch with
    NoConfig,       \* the caller launches nothing
    MaxServers,     \* bound on the servers started
    MaxAssets       \* bound on changes of the assets

Config == [workspace : Workspaces, nonce : Nonces \cup {NoNonce},
           port : Ports \cup {AnyPort}]

ASSUME ServersAssumption ==
    MaxServers \in Nat /\ MaxAssets \in Nat /\ Nobody \notin Callers /\ Configs \subseteq Config

VARIABLES
    assets,     \* the assets on disk, by the number of changes
    table,      \* HudLauncher.servers
    holder,     \* who holds its lock
    servers,    \* the servers started so far
    at,         \* where each caller is
    job,        \* what it is about
    abandoned   \* history: the servers that a shutdown_all gave up

hudServerVars == <<assets, table, holder, servers, at, job, abandoned>>

ServerIds == 1 .. MaxServers
NoServer == 0

\* The thread of a server, run_server: it takes connections, it has left its loop
\* and stored running, it has returned, or it has panicked.  The listener is its
\* own and closed when it is gone.
Threads == {"serving", "closing", "ended", "panicked"}

Server == [workspace : Workspaces, nonce : Nonces \cup {NoNonce},
           port : Ports \cup {AnyPort}, assets : 0 .. MaxAssets,
           running : BOOLEAN, stop : BOOLEAN, thread : Threads]

\* then: where the caller goes on when a shutdown is done.
Job == [config : Configs \cup {NoConfig}, assets : 0 .. MaxAssets,
        server : ServerIds \cup {NoServer}, todo : SUBSET ServerIds,
        then : {"idle", "bind", "unlock", "next"}]

NoJob == [config |-> NoConfig, assets |-> 0, server |-> NoServer, todo |-> {},
          then |-> "idle"]

Places == {"idle", "lock", "check", "bind", "probe", "unlock", "next",
           "swap", "stop", "join"}

HudServersTypeOK ==
    /\ assets \in 0 .. MaxAssets
    /\ table \in [Workspaces -> ServerIds \cup {NoServer}]
    /\ holder \in Callers \cup {Nobody}
    /\ DOMAIN servers \in {1 .. n : n \in 0 .. MaxServers}
    /\ \A s \in DOMAIN servers : servers[s] \in Server
    /\ at \in [Callers -> Places]
    /\ job \in [Callers -> Job]
    /\ abandoned \subseteq ServerIds

-------------------------------------------------------------------------------
Started == DOMAIN servers

\* HudServer::is_running.
IsRunning(s) == servers[s].running /\ ~servers[s].stop

\* The listener goes with the thread, after running was stored.
Listening(s) == servers[s].thread \in {"serving", "closing"}

\* The health check needs the thread, and may time out nevertheless.
Healthy(s) == servers[s].thread = "serving"

SameNonce(config, s) == config.nonce \in {NoNonce, servers[s].nonce}

PortTaken(port) ==
    port # AnyPort /\ \E s \in Started : Listening(s) /\ servers[s].port = port

Goto(c, place) == at' = [at EXCEPT ![c] = place]

\* A caller that has nothing left to do forgets its job.
GoOn(c, place) == /\ Goto(c, place)
                  /\ job' = IF place = "idle" THEN [job EXCEPT ![c] = NoJob] ELSE job

\* The caller shuts s down and goes on with then.
ShutDown(c, s, then) ==
    /\ job' = [job EXCEPT ![c].server = s, ![c].then = then]
    /\ Goto(c, "swap")

HudServersEmpty ==
    /\ assets = 0
    /\ table = [w \in Workspaces |-> NoServer]
    /\ holder = Nobody
    /\ servers = <<>>
    /\ at = [c \in Callers |-> "idle"]
    /\ job = [c \in Callers |-> NoJob]
    /\ abandoned = {}

HudServersInit == HudServersEmpty

(* HudLauncher::launch. *)

\* The assets are loaded before the table is locked.
Launch(c, config) ==
    /\ at[c] = "idle"
    /\ job' = [job EXCEPT ![c].config = config, ![c].assets = assets,
                          ![c].server = NoServer]
    /\ Goto(c, "lock")
    /\ UNCHANGED <<assets, table, holder, servers>>

LockTable(c) == /\ at[c] = "lock"
                /\ holder = Nobody
                /\ holder' = c
                /\ Goto(c, "check")
                /\ UNCHANGED <<assets, table, servers, job>>

\* No server is known for the workspace.
CheckNone(c) == /\ at[c] = "check"
                /\ table[job[c].config.workspace] = NoServer
                /\ Goto(c, "bind")
                /\ UNCHANGED <<assets, table, holder, servers, job>>

\* One of another version or nonce is left alone: the call fails.  A live one
\* with the same assets is handed out.
CheckKept(c) ==
    /\ at[c] = "check"
    /\ LET s == table[job[c].config.workspace]
       IN  /\ s # NoServer
           /\ \/ ~SameNonce(job[c].config, s)
              \/ IsRunning(s) /\ Healthy(s) /\ servers[s].assets = job[c].assets
    /\ Goto(c, "unlock")
    /\ UNCHANGED <<assets, table, holder, servers, job>>

\* Mutant of DropStale: the entry is dropped and its server forgotten.
ForgetStale(c, s) ==
    /\ table' = [table EXCEPT ![job[c].config.workspace] = NoServer]
    /\ Goto(c, "bind")
    /\ UNCHANGED job

\* The entry is dropped and its server stopped before a new one is bound.
DropStale(c, s) ==
    /\ table' = [table EXCEPT ![job[c].config.workspace] = NoServer]
    /\ ShutDown(c, s, "bind")

\* A server that is dead, does not answer in time or has other assets.
CheckStale(c) ==
    /\ at[c] = "check"
    /\ LET s == table[job[c].config.workspace]
       IN  s # NoServer /\ SameNonce(job[c].config, s) /\ DropStale(c, s)
    /\ UNCHANGED <<assets, holder, servers>>

\* start_server: the listener is bound and its thread runs.
Bind(c) ==
    /\ at[c] = "bind"
    /\ ~PortTaken(job[c].config.port)
    /\ Cardinality(Started) < MaxServers
    /\ LET new == Cardinality(Started) + 1
       IN  /\ servers' = [s \in Started \cup {new} |->
                 IF s = new
                 THEN [workspace |-> job[c].config.workspace,
                       nonce |-> job[c].config.nonce, port |-> job[c].config.port,
                       assets |-> job[c].assets, running |-> TRUE, stop |-> FALSE,
                       thread |-> "serving"]
                 ELSE servers[s]]
           /\ job' = [job EXCEPT ![c].server = new]
    /\ Goto(c, "probe")
    /\ UNCHANGED <<assets, table, holder>>

\* The port is taken, or no thread can be started.
BindFails(c) == /\ at[c] = "bind"
                /\ Goto(c, "unlock")
                /\ UNCHANGED <<assets, table, holder, servers, job>>

\* The new server answers and is entered.
ProbeOk(c) ==
    /\ at[c] = "probe"
    /\ Healthy(job[c].server)
    /\ table' = [table EXCEPT ![job[c].config.workspace] = job[c].server]
    /\ Goto(c, "unlock")
    /\ UNCHANGED <<assets, holder, servers, job>>

\* It does not answer in time: it is shut down and the call fails.
ProbeFails(c) == /\ at[c] = "probe"
                 /\ ShutDown(c, job[c].server, "unlock")
                 /\ UNCHANGED <<assets, table, holder, servers>>

UnlockTable(c) == /\ at[c] = "unlock"
                  /\ holder' = Nobody
                  /\ GoOn(c, "idle")
                  /\ UNCHANGED <<assets, table, servers>>

(* HudLauncher::shutdown_all. *)

\* The table is emptied under its lock, which is let go of at once.
DrainTable(c) ==
    /\ at[c] = "idle"
    /\ holder = Nobody
    /\ table' = [w \in Workspaces |-> NoServer]
    /\ job' = [job EXCEPT ![c].todo = {table[w] : w \in Workspaces} \ {NoServer}]
    /\ Goto(c, "next")
    /\ UNCHANGED <<assets, holder, servers>>

ShutDownNext(c, s) == /\ at[c] = "next"
                      /\ s \in job[c].todo
                      /\ job' = [job EXCEPT ![c].server = s, ![c].then = "next",
                                            ![c].todo = @ \ {s}]
                      /\ Goto(c, "swap")
                      /\ UNCHANGED <<assets, table, holder, servers>>

AllShutDown(c) == /\ at[c] = "next"
                  /\ job[c].todo = {}
                  /\ GoOn(c, "idle")
                  /\ UNCHANGED <<assets, table, holder, servers>>

(* HudServer::shutdown. *)

\* A caller stops a server that it was handed.
ShutDownOne(c, s) == /\ at[c] = "idle"
                     /\ s \in Started
                     /\ ShutDown(c, s, "idle")
                     /\ UNCHANGED <<assets, table, holder, servers>>

\* Only the first caller goes on to stop the thread; the others are done.
SwapRunning(c) ==
    /\ at[c] = "swap"
    /\ LET s == job[c].server
       IN  /\ servers' = [servers EXCEPT ![s].running = FALSE]
           /\ GoOn(c, IF servers[s].running THEN "stop" ELSE job[c].then)
    /\ UNCHANGED <<assets, table, holder>>

StoreStop(c) == /\ at[c] = "stop"
                /\ servers' = [servers EXCEPT ![job[c].server].stop = TRUE]
                /\ Goto(c, "join")
                /\ UNCHANGED <<assets, table, holder, job>>

\* join returns when the thread has.
JoinThread(c) == /\ at[c] = "join"
                 /\ servers[job[c].server].thread = "ended"
                 /\ GoOn(c, job[c].then)
                 /\ UNCHANGED <<assets, table, holder, servers>>

\* Where a caller goes on when the thread had panicked: a launch fails, and
\* shutdown_all returns without a look at the servers that are left.
AfterPanic(then) == CASE then = "bind" -> "unlock"
                      [] then = "next" -> "idle"
                      [] OTHER -> then

JoinFails(c) == /\ at[c] = "join"
                /\ servers[job[c].server].thread = "panicked"
                /\ abandoned' = abandoned \cup (IF job[c].then = "next" THEN job[c].todo ELSE {})
                /\ GoOn(c, AfterPanic(job[c].then))
                /\ UNCHANGED <<assets, table, holder, servers>>

(* The server threads and the disk. *)

\* run_server leaves its loop when it sees the flag, or on an error of accept.
ThreadLeaves(s) ==
    /\ s \in Started
    /\ servers[s].thread = "serving"
    /\ servers' = [servers EXCEPT ![s].thread = "closing", ![s].running = FALSE]
    /\ UNCHANGED <<assets, table, holder, at, job>>

\* It returns, and its listener is dropped.
ListenerCloses(s) ==
    /\ s \in Started
    /\ servers[s].thread = "closing"
    /\ servers' = [servers EXCEPT ![s].thread = "ended"]
    /\ UNCHANGED <<assets, table, holder, at, job>>

\* It panics in a request, and does not come to store running.
ThreadPanics(s) ==
    /\ s \in Started
    /\ servers[s].thread = "serving"
    /\ servers' = [servers EXCEPT ![s].thread = "panicked"]
    /\ UNCHANGED <<assets, table, holder, at, job>>

AssetsChange == /\ assets < MaxAssets
                /\ assets' = assets + 1
                /\ UNCHANGED <<table, holder, servers, at, job>>

-------------------------------------------------------------------------------
LaunchNext(c) ==
    \/ \E config \in Configs : Launch(c, config)
    \/ LockTable(c) \/ CheckNone(c) \/ CheckKept(c) \/ CheckStale(c)
    \/ Bind(c) \/ BindFails(c) \/ ProbeOk(c) \/ ProbeFails(c) \/ UnlockTable(c)

ShutdownNext(c) ==
    \/ DrainTable(c) \/ AllShutDown(c) \/ SwapRunning(c) \/ StoreStop(c)
    \/ JoinThread(c)
    \/ \E s \in ServerIds : ShutDownNext(c, s) \/ ShutDownOne(c, s)

ThreadNext(s) == ThreadLeaves(s) \/ ListenerCloses(s) \/ ThreadPanics(s)

HudServersNext ==
    \/ /\ \/ \E c \in Callers : LaunchNext(c) \/ ShutdownNext(c)
          \/ \E s \in ServerIds : ThreadNext(s)
          \/ AssetsChange
       /\ UNCHANGED abandoned
    \/ \E c \in Callers : JoinFails(c)

HudServersSpec == HudServersInit /\ [][HudServersNext]_hudServerVars

-------------------------------------------------------------------------------
\* The caller is about to stop s, or is stopping it.
Stopping(c, s) == \/ s \in job[c].todo
                  \/ at[c] \in {"swap", "stop", "join"} /\ s = job[c].server

\* Every server that listens is on its way out or can be reached: it was told to
\* stop or is closing, it is in the table, it is being launched, or somebody is
\* stopping it.  Those that a shutdown_all gave up, because the thread of another
\* one had panicked, are excepted.
ListenersAccounted ==
    \A s \in Started : Listening(s) =>
        \/ servers[s].stop \/ servers[s].thread = "closing"
        \/ table[servers[s].workspace] = s
        \/ \E c \in Callers : at[c] = "probe" /\ job[c].server = s
        \/ \E c \in Callers : Stopping(c, s)
        \/ s \in abandoned

\* A launch finds the listener of its workspace's former server closed, unless
\* another thread is still stopping that server, its thread has left its loop
\* untold and is about to close it, which the comment in launch does not know of,
\* or a shutdown_all gave it up.
PortHandedOver ==
    \A c \in Callers, s \in Started :
        at[c] = "bind" /\ Listening(s) /\ servers[s].workspace = job[c].config.workspace
        => \/ \E d \in Callers \ {c} : Stopping(d, s)
           \/ servers[s].thread = "closing" /\ ~servers[s].stop
           \/ s \in abandoned
===============================================================================
