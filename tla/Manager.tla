------------------------------- MODULE Manager -------------------------------
(***************************************************************************)
(* ss-manager and the ss-server processes it starts and stops              *)
(* (src/src/manager.c, with daemonize of utils.c and the part of server.c  *)
(* that talks to the manager).                                             *)
(*                                                                         *)
(* The manager and its servers share no memory.  The manager starts a      *)
(* server with system(), which returns when the server has turned itself   *)
(* into a daemon and its pid is in the pid file; it stops one by sending   *)
(* SIGTERM to whatever pid that file names.  The servers report their      *)
(* traffic, and users send their commands, in datagrams that may be lost,  *)
(* duplicated and reordered: the manager may receive any command at any    *)
(* time, and a report of a server that is long gone.  Servers die, the     *)
(* manager is killed (or exits, when it cannot bind its socket) and        *)
(* started again; pid files outlive both, and pids are reused.             *)
(*                                                                         *)
(* Of the traffic a server has reported the model keeps that it was        *)
(* reported, or zero (the initial value), or whatever malloc left there.   *)
(***************************************************************************)
EXTENDS Naturals, FiniteSets

CONSTANTS
    Ports, Passwords, Pids,
    Nobody,         \* no process, no entry, no file
    MaxCommands,    \* bound: commands the manager receives
    MaxKills,       \* bound: times the manager is killed
    Worlds          \* what may happen, and how the manager is configured

Server == [port : Ports, password : Passwords, term : BOOLEAN]
Entry == [password : Passwords, traffic : {"zero", "reported", "garbage"}]

ASSUME ManagerAssumption ==
    /\ MaxCommands \in Nat /\ MaxKills \in Nat
    /\ Nobody \notin Pids \cup Passwords \cup Server \cup Entry
    /\ Worlds \subseteq [conf : [Ports -> Passwords \cup {Nobody}], badDisk : BOOLEAN, reuse : BOOLEAN]

VARIABLES
    world,      \* conf: conf->port_password; badDisk: config files may be unwritable;
                \* reuse: pids are reused
    mgr,        \* "down", "starting", "up", "stopped" (SIGTERM)
    todo,       \* ports of conf->port_password that main has still to start
    table,      \* server_table
    conf,       \* the password in .shadowsocks_<port>.conf
    pidfile,    \* .shadowsocks_<port>.pid
    procs,      \* the ss-server processes
    spent,      \* pids that were in use
    commands, kills

files == <<conf, pidfile>>
bounds == <<commands, kills>>
vars == <<world, mgr, todo, table, files, procs, spent, bounds>>

Running == {pid \in Pids : procs[pid] # Nobody}

\* The servers of a port that have not been told to stop.
Serving(port) == {pid \in Running : procs[pid].port = port /\ ~procs[pid].term}

-----------------------------------------------------------------------------
(* Starting and stopping servers.                                          *)

\* The processes after stop_server(port).
stop_server(port) ==
    IF pidfile[port] \in Running THEN [procs EXCEPT ![pidfile[port]].term = TRUE] ELSE procs

\* Mutant: the entry is dropped, the process is not.
remove_server_entry_only(port) == procs

\* remove_server drops the entry of the table and leaves these processes.
remove_server(port) == stop_server(port)

\* build_config, which reports a file it cannot write and goes on.
build_config(port, password) ==
    \/ conf' = [conf EXCEPT ![port] = password]
    \/ world.badDisk /\ UNCHANGED conf

FreePids(ps) == {pid \in Pids : ps[pid] = Nobody /\ (world.reuse \/ pid \notin spent)}

\* Mutant: there is one pid file for all ports.
daemonize_one_file(port, pid) == pidfile' = [p \in Ports |-> pid]

\* daemonize: the parent writes the pid of the child and exits.
daemonize(port, pid) == pidfile' = [pidfile EXCEPT ![port] = pid]

\* system(cmd): the server reads its config file and becomes a daemon, or does
\* not get that far.
system(port, ps) ==
    \/ \E pid \in FreePids(ps) :
        /\ conf'[port] # Nobody
        /\ procs' = [ps EXCEPT ![pid] = [port |-> port, password |-> conf'[port],
                                         term |-> FALSE]]
        /\ spent' = spent \cup {pid}
        /\ daemonize(port, pid)
    \/ procs' = ps /\ UNCHANGED <<spent, pidfile>>

\* add_server, with the processes ps it finds.
add_server(port, password, traffic, ps) ==
    /\ table' = [table EXCEPT ![port] = [password |-> password, traffic |-> traffic]]
    /\ build_config(port, password)
    /\ system(port, ps)

-----------------------------------------------------------------------------
(* The manager.                                                            *)

NoServers == [p \in Ports |-> Nobody]
Configured == {p \in Ports : world.conf[p] # Nobody}

\* main, until it has a table.
Start ==
    /\ mgr \in {"down", "stopped"}
    /\ mgr' = "starting"
    /\ todo' = Configured
    /\ table' = NoServers
    /\ UNCHANGED <<world, files, procs, spent, bounds>>

\* main starts a server of its config file; nobody initialises its traffic.
StartConfigured ==
    /\ mgr = "starting"
    /\ \E p \in todo : add_server(p, world.conf[p], "garbage", procs) /\ todo' = todo \ {p}
    /\ UNCHANGED <<world, mgr, bounds>>

Started ==
    /\ mgr = "starting" /\ todo = {}
    /\ mgr' = "up"
    /\ UNCHANGED <<world, todo, table, files, procs, spent, bounds>>

Receive ==
    /\ mgr = "up" /\ commands < MaxCommands
    /\ commands' = commands + 1
    /\ UNCHANGED <<world, mgr, todo, kills>>

\* manager_recv_cb.
Add(port, password) ==
    /\ Receive
    /\ add_server(port, password, "zero", remove_server(port))

Remove(port) ==
    /\ Receive
    /\ table' = [table EXCEPT ![port] = Nobody]
    /\ procs' = remove_server(port)
    /\ UNCHANGED <<files, spent>>

update_stat(port) ==
    table' = IF table[port] = Nobody THEN table ELSE [table EXCEPT ![port].traffic = "reported"]

\* A report of stat_update_cb arrives: there has been a server to send it.
Stat(port) ==
    /\ mgr = "up" /\ pidfile[port] # Nobody
    /\ update_stat(port)
    /\ UNCHANGED <<world, mgr, todo, files, procs, spent, bounds>>

\* Mutant: the servers are left running.
Stop_leaves_servers ==
    /\ mgr = "up"
    /\ mgr' = "stopped"
    /\ UNCHANGED <<world, todo, table, files, procs, spent, bounds>>

\* SIGTERM: main stops the servers of the table.
Stop ==
    /\ mgr = "up"
    /\ mgr' = "stopped"
    /\ procs' = [pid \in Pids |->
                   IF pid \in Running /\ \E p \in Ports : table[p] # Nobody /\ pidfile[p] = pid
                   THEN [procs[pid] EXCEPT !.term = TRUE] ELSE procs[pid]]
    /\ UNCHANGED <<world, todo, table, files, spent, bounds>>

Killed ==
    /\ kills < MaxKills /\ mgr' = "down" /\ kills' = kills + 1
    /\ table' = NoServers /\ todo' = {}
    /\ UNCHANGED <<world, commands>>

Kill == mgr \in {"starting", "up"} /\ Killed /\ UNCHANGED <<files, procs, spent>>

\* The manager is killed while it handles an "add".
KillInAdd(port, password) ==
    /\ mgr = "up" /\ Killed
    /\ conf' = conf \/ build_config(port, password)
    /\ \/ procs' = remove_server(port) /\ UNCHANGED <<pidfile, spent>>
       \/ system(port, remove_server(port))

-----------------------------------------------------------------------------
(* The servers.                                                            *)

\* A server dies: it cannot bind its port, say.
Die(pid) ==
    /\ pid \in Running
    /\ procs' = [procs EXCEPT ![pid] = Nobody]
    /\ UNCHANGED <<world, mgr, todo, table, files, spent, bounds>>

\* A server that was sent SIGTERM ends: by default, or its loop does.
End(pid) == pid \in Running /\ procs[pid].term /\ Die(pid)

Init ==
    /\ world \in Worlds /\ mgr = "down" /\ todo = {}
    /\ table = NoServers /\ conf = NoServers /\ pidfile = NoServers
    /\ procs = [pid \in Pids |-> Nobody] /\ spent = {}
    /\ commands = 0 /\ kills = 0

Next ==
    \/ Start \/ StartConfigured \/ Started \/ Stop \/ Kill
    \/ \E p \in Ports :
        \/ Remove(p) \/ Stat(p)
        \/ \E pw \in Passwords : Add(p, pw) \/ KillInAdd(p, pw)
    \/ \E pid \in Pids : Die(pid) \/ End(pid)

Spec == Init /\ [][Next]_vars

\* A server that is sent SIGTERM handles it.
FairSpec == Spec /\ \A pid \in Pids : WF_vars(End(pid))

-----------------------------------------------------------------------------
(* What is claimed.                                                        *)

TypeOK ==
    /\ world \in Worlds /\ mgr \in {"down", "starting", "up", "stopped"}
    /\ todo \subseteq Configured
    /\ table \in [Ports -> Entry \cup {Nobody}]
    /\ conf \in [Ports -> Passwords \cup {Nobody}] /\ pidfile \in [Ports -> Pids \cup {Nobody}]
    /\ procs \in [Pids -> Server \cup {Nobody}] /\ spent \subseteq Pids
    /\ commands \in 0..MaxCommands /\ kills \in 0..MaxKills

\* A server that has not been told to stop can be, whatever was killed,
\* restarted or lost before: the pid file of its port names it, so the next
\* "add" or "remove" reaches it, and no port has two servers (remove_server
\* before add_server in manager_recv_cb, daemonize).  Ports of the config file
\* are the exception when the manager was killed: main does not stop the server
\* that is still there.
Stoppable ==
    \A p \in Ports :
        p \notin Configured \/ kills = 0 => \A pid \in Serving(p) : pidfile[p] = pid

\* The server of a port the manager manages uses the password it was last added
\* with, although it gets it from a file (build_config, construct_command_line);
\* unless the file could not be written.
PasswordAgrees ==
    ~world.badDisk => \A p \in Ports : table[p] # Nobody /\ (p \notin Configured \/ kills = 0) =>
        \A pid \in Serving(p) : procs[pid].password = table[p].password

\* A pid file names a server of its port, or a process that is gone, unless pids
\* are reused: the manager signals no server of another port (stop_server).
SignalsItsOwn ==
    ~world.reuse => \A p \in Ports : pidfile[p] \in Running => procs[pidfile[p]].port = p

\* A manager that was never killed and is stopped leaves no server behind, unless
\* it is started again meanwhile.
StopStopsAll ==
    (mgr = "stopped" /\ kills = 0) ~> (mgr # "stopped" \/ Running = {})
=============================================================================
