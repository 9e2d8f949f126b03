---------------------------- MODULE Manager_proofs ----------------------------
(***************************************************************************)
(* Manager's safety properties for any number of ports, passwords, pids,   *)
(* commands and kills.                                                     *)
(*                                                                         *)
(* Stoppable is not inductive: main starts the servers of its config file  *)
(* without stopping what is there.  NothingLeft says why that is harmless  *)
(* as long as the manager was never killed: a server that has not been     *)
(* told to stop has an entry in the table, and main has none for what it   *)
(* has still to start.  SignalsItsOwn needs that a pid a file or a process *)
(* has is spent, so that the next server gets another (PidsSpent).         *)
(***************************************************************************)
EXTENDS Manager, TLAPS

\* The leaves are for the SMT solver, unless they cite another prover.
USE SMTT(60)

NothingLeft ==
    kills = 0 =>
        /\ \A p \in Ports : Serving(p) # {} => table[p] # Nobody /\ mgr \in {"starting", "up"}
        /\ mgr = "starting" => \A p \in todo : table[p] = Nobody

PidsSpent ==
    /\ \A p \in Ports : pidfile[p] # Nobody => pidfile[p] \in spent
    /\ Running \subseteq spent

IInv == TypeOK /\ NothingLeft /\ PidsSpent /\ Stoppable /\ PasswordAgrees /\ SignalsItsOwn

\* The processes qs are the processes ps, some told to stop and some gone.
Shrinks(qs, ps) ==
    /\ qs \in [Pids -> Server \cup {Nobody}]
    /\ \A pid \in Pids : qs[pid] # Nobody =>
        /\ ps[pid] # Nobody
        /\ qs[pid].port = ps[pid].port /\ qs[pid].password = ps[pid].password
        /\ ps[pid].term => qs[pid].term

\* None of the processes ps serves the port.
Quiet(ps, port) == \A pid \in Pids : ps[pid] # Nobody /\ ps[pid].port = port => ps[pid].term

-----------------------------------------------------------------------------
(* The steps.                                                              *)

\* stop_server adds no process, and tells what its pid file names to stop.
LEMMA StopShrinks ==
    ASSUME TypeOK, NEW port \in Ports
    PROVE  Shrinks(stop_server(port), procs)
BY ManagerAssumption, ZenonT(30) DEF TypeOK, stop_server, Shrinks, Running, Server

\* Where the pid file names the one server of the port, stop_server quiets it.
LEMMA StopQuiets ==
    ASSUME TypeOK, Stoppable, NEW port \in Ports, port \notin Configured \/ kills = 0
    PROVE  Quiet(stop_server(port), port)
<1> SUFFICES ASSUME NEW pid \in Pids, stop_server(port)[pid] # Nobody,
                    stop_server(port)[pid].port = port
             PROVE  stop_server(port)[pid].term
    BY DEF Quiet
<1>1. procs[pid] # Nobody /\ procs[pid].port = port
    BY StopShrinks DEF Shrinks
<1>2. CASE procs[pid].term
    BY <1>1, <1>2, StopShrinks DEF Shrinks
<1>3. CASE ~procs[pid].term
    <2>1. pidfile[port] = pid
        BY <1>1, <1>3 DEF Stoppable, Serving, Running
    <2> QED BY <1>1, <2>1, ManagerAssumption DEF TypeOK, stop_server, Running, Server
<1> QED BY <1>2, <1>3

\* Processes that only end or are told to stop keep what is said of processes.
LEMMA ShrinkKeeps ==
    ASSUME IInv, Shrinks(procs', procs), UNCHANGED <<world, pidfile, spent>>,
           kills' = 0 => kills = 0
    PROVE  /\ Running' \subseteq Running
           /\ \A p \in Ports : Serving(p)' \subseteq Serving(p)
           /\ PidsSpent' /\ Stoppable' /\ SignalsItsOwn'
<1>1. Running' \subseteq Running
    BY DEF Shrinks, Running
<1>2. \A p \in Ports : Serving(p)' \subseteq Serving(p)
    BY DEF Shrinks, Running, Serving, IInv, TypeOK, Server
<1>3. PidsSpent'
    BY <1>1 DEF IInv, PidsSpent
<1>4. Stoppable'
    BY <1>2 DEF IInv, Stoppable, Configured
<1>5. SignalsItsOwn'
    BY <1>1, ManagerAssumption DEF IInv, SignalsItsOwn, Shrinks, Running, TypeOK
<1> QED BY <1>1, <1>2, <1>3, <1>4, <1>5

\* A server that is started is the one of its port, if the others are quiet.
LEMMA Launch ==
    ASSUME IInv, NEW port \in Ports, NEW ps, Shrinks(ps, procs), system(port, ps),
           conf' \in [Ports -> Passwords \cup {Nobody}], UNCHANGED world, kills' = 0 => kills = 0,
           port \notin Configured \/ kills' = 0 => Quiet(ps, port)
    PROVE  /\ procs' \in [Pids -> Server \cup {Nobody}] /\ spent' \subseteq Pids
           /\ pidfile' \in [Ports -> Pids \cup {Nobody}]
           /\ \A p \in Ports : p # port => Serving(p)' \subseteq Serving(p)
           /\ \A p \in Ports : \A pid \in Serving(p)' : p # port =>
                procs'[pid].password = procs[pid].password
           /\ port \notin Configured \/ kills' = 0 =>
                \A pid \in Serving(port)' : procs'[pid].password = conf'[port]
           /\ PidsSpent' /\ Stoppable' /\ SignalsItsOwn'
<1> USE ManagerAssumption
<1>1. CASE procs' = ps /\ UNCHANGED <<spent, pidfile>>
    <2>1. PidsSpent' /\ Stoppable' /\ SignalsItsOwn' /\ \A p \in Ports : Serving(p)' \subseteq Serving(p)
        BY <1>1, ShrinkKeeps
    <2>2. port \notin Configured \/ kills' = 0 => Serving(port)' = {}
        BY <1>1 DEF Quiet, Serving, Running
    <2>3. \A p \in Ports : \A pid \in Serving(p)' : procs'[pid].password = procs[pid].password
        BY <1>1 DEF Shrinks, Serving, Running
    <2> QED BY <1>1, <2>1, <2>2, <2>3 DEF Shrinks, IInv, TypeOK
<1>2. CASE \E pid \in FreePids(ps) :
                /\ conf'[port] # Nobody
                /\ procs' = [ps EXCEPT ![pid] = [port |-> port, password |-> conf'[port],
                                                 term |-> FALSE]]
                /\ spent' = spent \cup {pid}
                /\ daemonize(port, pid)
    <2> PICK new \in FreePids(ps) :
                /\ conf'[port] # Nobody
                /\ procs' = [ps EXCEPT ![new] = [port |-> port, password |-> conf'[port],
                                                 term |-> FALSE]]
                /\ spent' = spent \cup {new}
                /\ daemonize(port, new)
        BY <1>2, Zenon
    <2>1. new \in Pids /\ conf'[port] \in Passwords /\ pidfile' = [pidfile EXCEPT ![port] = new]
        BY DEF FreePids, daemonize
    <2>2. /\ procs' \in [Pids -> Server \cup {Nobody}] /\ spent' \subseteq Pids
          /\ pidfile' \in [Ports -> Pids \cup {Nobody}]
        BY <2>1 DEF Shrinks, IInv, TypeOK, Server
    <2>3. /\ procs'[new] = [port |-> port, password |-> conf'[port], term |-> FALSE]
          /\ \A pid \in Pids : pid # new => procs'[pid] = ps[pid]
        BY <2>1 DEF Shrinks
    <2>4. \A p \in Ports : \A pid \in Serving(p)' :
              \/ pid = new /\ p = port
              \/ pid # new /\ pid \in Serving(p) /\ procs'[pid].password = procs[pid].password
        <3> SUFFICES ASSUME NEW p \in Ports, NEW pid \in Serving(p)', ~(pid = new /\ p = port)
                     PROVE  pid # new /\ pid \in Serving(p) /\ procs'[pid].password = procs[pid].password
            OBVIOUS
        <3>1. pid \in Pids /\ procs'[pid] # Nobody /\ procs'[pid].port = p /\ ~procs'[pid].term
            BY DEF Serving, Running
        <3>2. pid # new
            BY <3>1, <2>3
        <3>3. procs'[pid] = ps[pid]
            BY <3>1, <3>2, <2>3
        <3> QED BY <3>1, <3>2, <3>3 DEF Shrinks, Serving, Running
    <2>5. port \notin Configured \/ kills' = 0 => \A pid \in Serving(port)' : pid = new
        BY <2>3 DEF Quiet, Serving, Running
    <2>6. PidsSpent'
        BY <2>1, <2>2, <2>3 DEF PidsSpent, Running, IInv, TypeOK, Shrinks
    <2>7. Stoppable'
        <3> SUFFICES ASSUME NEW p \in Ports, p \notin Configured' \/ kills' = 0, NEW pid \in Serving(p)'
                     PROVE  pidfile'[p] = pid
            BY DEF Stoppable
        <3>1. Configured' = Configured
            BY DEF Configured
        <3>2. CASE p = port
            BY <2>1, <2>5, <3>1, <3>2 DEF IInv, TypeOK
        <3>3. CASE p # port
            BY <2>1, <2>4, <3>1, <3>3 DEF IInv, TypeOK, Stoppable
        <3> QED BY <3>2, <3>3
    <2>8. SignalsItsOwn'
        <3> SUFFICES ASSUME ~world.reuse, NEW p \in Ports, pidfile'[p] \in Running'
                     PROVE  procs'[pidfile'[p]].port = p
            BY DEF SignalsItsOwn
        <3>1. new \notin spent
            BY DEF FreePids
        <3>2. CASE p = port
            BY <2>1, <2>3, <3>2 DEF IInv, TypeOK
        <3>3. CASE p # port
            <4>1. pidfile'[p] = pidfile[p] /\ pidfile[p] \in Pids
                BY <2>1, <3>3 DEF IInv, TypeOK, Running
            <4>2. pidfile[p] # new
                BY <4>1, <3>1, Zenon DEF IInv, PidsSpent
            <4>3. procs'[pidfile[p]] = ps[pidfile[p]] /\ ps[pidfile[p]] # Nobody
                BY <4>1, <4>2, <2>3 DEF Running
            <4> QED BY <4>1, <4>3, Zenon DEF IInv, SignalsItsOwn, Running, Shrinks
        <3> QED BY <3>2, <3>3
    <2> QED BY <2>2, <2>3, <2>4, <2>5, <2>6, <2>7, <2>8
<1> QED BY <1>1, <1>2 DEF system

\* add_server, when what the port had is quiet wherever that is promised.
LEMMA AddKeeps ==
    ASSUME IInv, NEW port \in Ports, NEW password \in Passwords, NEW traffic \in {"zero", "garbage"},
           NEW ps, Shrinks(ps, procs), add_server(port, password, traffic, ps),
           port \notin Configured \/ kills = 0 => Quiet(ps, port),
           mgr \in {"starting", "up"}, todo' \subseteq todo \ {port} \/ (mgr = "up" /\ UNCHANGED todo),
           UNCHANGED <<world, mgr, kills>>, commands' \in 0..MaxCommands
    PROVE  IInv'
<1> USE ManagerAssumption
<1>1. /\ table' = [table EXCEPT ![port] = [password |-> password, traffic |-> traffic]]
      /\ build_config(port, password)
      /\ system(port, ps)
    BY DEF add_server
<1>2. conf' \in [Ports -> Passwords \cup {Nobody}]
    BY <1>1 DEF IInv, TypeOK, build_config
<1>3. /\ procs' \in [Pids -> Server \cup {Nobody}] /\ spent' \subseteq Pids
      /\ pidfile' \in [Ports -> Pids \cup {Nobody}]
      /\ \A p \in Ports : p # port => Serving(p)' \subseteq Serving(p)
      /\ \A p \in Ports : \A pid \in Serving(p)' : p # port =>
            procs'[pid].password = procs[pid].password
      /\ port \notin Configured \/ kills' = 0 =>
            \A pid \in Serving(port)' : procs'[pid].password = conf'[port]
      /\ PidsSpent' /\ Stoppable' /\ SignalsItsOwn'
    BY <1>1, <1>2, Launch
<1>4. /\ table' \in [Ports -> Entry \cup {Nobody}]
      /\ table'[port] = [password |-> password, traffic |-> traffic] /\ table'[port] # Nobody
      /\ \A p \in Ports : p # port => table'[p] = table[p]
    BY <1>1 DEF IInv, TypeOK, Entry
<1>5. TypeOK'
    BY <1>2, <1>3, <1>4, Zenon DEF IInv, TypeOK, Configured
<1>6. NothingLeft'
    <2> SUFFICES ASSUME kills = 0
                 PROVE  /\ \A p \in Ports : Serving(p)' # {} => table'[p] # Nobody
                        /\ mgr = "starting" => \A p \in todo' : table'[p] = Nobody
        BY DEF NothingLeft
    <2>1. \A p \in Ports : Serving(p)' # {} => table'[p] # Nobody
        BY <1>3, <1>4, Zenon DEF IInv, NothingLeft
    <2>2. mgr = "starting" => \A p \in todo' : table'[p] = Nobody
        BY <1>4, Zenon DEF IInv, NothingLeft, TypeOK, Configured
    <2> QED BY <2>1, <2>2
<1>7. PasswordAgrees'
    <2> SUFFICES ASSUME ~world.badDisk, NEW p \in Ports, table'[p] # Nobody,
                        p \notin Configured' \/ kills = 0, NEW pid \in Serving(p)'
                 PROVE  procs'[pid].password = table'[p].password
        BY DEF PasswordAgrees
    <2>1. Configured' = Configured
        BY DEF Configured
    <2>2. CASE p = port
        <3>1. conf'[port] = password
            BY <1>1, Zenon DEF IInv, TypeOK, build_config
        <3> QED BY <1>3, <1>4, <2>1, <2>2, <3>1
    <2>3. CASE p # port
        BY <1>3, <1>4, <2>1, <2>3 DEF IInv, PasswordAgrees
    <2> QED BY <2>2, <2>3
<1> QED BY <1>3, <1>5, <1>6, <1>7, Zenon DEF IInv

\* A step that starts nothing, and leaves the passwords of the table or drops them.
LEMMA DropKeeps ==
    ASSUME IInv, Shrinks(procs', procs), UNCHANGED <<world, pidfile, spent>>, kills' = 0 => kills = 0,
           TypeOK', NothingLeft',
           \A p \in Ports : table'[p] # Nobody =>
               table[p] # Nobody /\ table'[p].password = table[p].password
    PROVE  IInv'
<1>1. /\ \A p \in Ports : Serving(p)' \subseteq Serving(p)
      /\ PidsSpent' /\ Stoppable' /\ SignalsItsOwn'
    BY ShrinkKeeps
<1>2. \A p \in Ports : \A pid \in Serving(p)' : procs'[pid].password = procs[pid].password
    BY DEF Shrinks, Serving, Running
<1>3. PasswordAgrees'
    BY <1>1, <1>2, ZenonT(30) DEF IInv, PasswordAgrees, Configured
<1> QED BY <1>1, <1>3 DEF IInv

\* One step per action.
LEMMA StepKeeps ==
    ASSUME IInv, [Next]_vars
    PROVE  IInv'
<1> USE ManagerAssumption
<1>1. CASE Start
    <2>1. Shrinks(procs', procs)
        BY <1>1 DEF Start, Shrinks, IInv, TypeOK
    <2>2. TypeOK'
        BY <1>1 DEF Start, IInv, TypeOK, files, bounds, NoServers, Configured
    <2>3. NothingLeft'
        BY <1>1 DEF Start, IInv, NothingLeft, TypeOK, files, bounds, NoServers, Configured, Serving, Running
    <2> QED BY <1>1, <2>1, <2>2, <2>3, DropKeeps DEF Start, files, bounds, NoServers
<1>2. CASE StartConfigured
    <2> PICK p \in todo : add_server(p, world.conf[p], "garbage", procs) /\ todo' = todo \ {p}
        BY <1>2 DEF StartConfigured
    <2>1. p \in Ports /\ p \in Configured /\ world.conf[p] \in Passwords
        BY DEF IInv, TypeOK, Configured
    <2>2. Shrinks(procs, procs)
        BY DEF Shrinks, IInv, TypeOK
    <2>3. p \notin Configured \/ kills = 0 => Quiet(procs, p)
        BY <1>2, <2>1, Zenon DEF StartConfigured, IInv, NothingLeft, Quiet, Serving, Running
    <2>4. /\ mgr \in {"starting", "up"} /\ UNCHANGED <<world, mgr, kills>>
          /\ commands' \in 0..MaxCommands
        BY <1>2 DEF StartConfigured, IInv, TypeOK, bounds
    <2>5. todo' \subseteq todo \ {p} \/ (mgr = "up" /\ UNCHANGED todo)
        OBVIOUS
    <2> QED BY <2>1, <2>2, <2>3, <2>4, <2>5, AddKeeps
<1>3. CASE Started
    <2>1. Shrinks(procs', procs)
        BY <1>3 DEF Started, Shrinks, IInv, TypeOK
    <2>2. TypeOK'
        BY <1>3 DEF Started, IInv, TypeOK, files, bounds, Configured
    <2>3. NothingLeft'
        BY <1>3 DEF Started, IInv, NothingLeft, files, bounds, Serving, Running
    <2> QED BY <1>3, <2>1, <2>2, <2>3, DropKeeps, Zenon DEF Started, files, bounds
<1>4. CASE Stop
    <2>1. Shrinks(procs', procs)
        <3>1. \A pid \in Pids :
                  \/ procs'[pid] = procs[pid]
                  \/ procs[pid] # Nobody /\ procs'[pid] = [procs[pid] EXCEPT !.term = TRUE]
            BY <1>4 DEF Stop, Running
        <3>2. procs \in [Pids -> Server \cup {Nobody}]
            BY DEF IInv, TypeOK
        <3>3. ASSUME NEW pid \in Pids
              PROVE  /\ procs'[pid] \in Server \cup {Nobody}
                     /\ procs'[pid] # Nobody =>
                          /\ procs[pid] # Nobody
                          /\ procs'[pid].port = procs[pid].port
                          /\ procs'[pid].password = procs[pid].password
                          /\ procs[pid].term => procs'[pid].term
            BY <3>1, <3>2, ZenonT(30) DEF Server
        <3>4. procs' = [pid \in Pids |-> procs'[pid]]
            BY <1>4 DEF Stop
        <3> QED BY <3>3, <3>4 DEF Shrinks
    <2>2. TypeOK'
        BY <1>4, <2>1 DEF Stop, IInv, TypeOK, files, bounds, Configured, Shrinks
    <2>3. ASSUME kills = 0, NEW p \in Ports, NEW pid \in Serving(p)'
          PROVE  FALSE
        <3>1. pid \in Serving(p)
            BY <1>4, <2>1, <2>3, ShrinkKeeps DEF Stop, files, bounds
        <3>2. table[p] # Nobody /\ pidfile[p] = pid
            BY <2>3, <3>1 DEF IInv, NothingLeft, Stoppable
        <3>3. procs'[pid].term
            BY <1>4, <3>1, <3>2 DEF Stop, Serving, IInv, TypeOK, Server, Running
        <3> QED BY <2>3, <3>3 DEF Serving
    <2>4. NothingLeft'
        BY <1>4, <2>3 DEF Stop, NothingLeft, bounds
    <2> QED BY <1>4, <2>1, <2>2, <2>4, DropKeeps DEF Stop, files, bounds
<1>5. CASE Kill
    <2>1. Shrinks(procs', procs)
        BY <1>5 DEF Kill, Shrinks, IInv, TypeOK
    <2>2. TypeOK' /\ kills' # 0
        BY <1>5 DEF Kill, Killed, IInv, TypeOK, files, bounds, Configured, NoServers
    <2> QED BY <1>5, <2>1, <2>2, DropKeeps, Zenon DEF Kill, Killed, NothingLeft, files, NoServers
<1>6. CASE \E p \in Ports : Remove(p)
    <2> PICK p \in Ports : Remove(p)
        BY <1>6
    <2>1. Shrinks(procs', procs)
        BY StopShrinks DEF Remove, remove_server, IInv
    <2>2. TypeOK'
        BY <2>1 DEF Remove, Receive, IInv, TypeOK, files, Configured, Shrinks
    <2>3. kills = 0 => Serving(p)' = {}
        BY StopQuiets, Zenon DEF Remove, remove_server, Quiet, Serving, Running, IInv
    <2>4. \A q \in Ports : Serving(q)' \subseteq Serving(q)
        BY <2>1, ShrinkKeeps DEF Remove, Receive, files
    <2>5. NothingLeft'
        BY <2>3, <2>4 DEF Remove, Receive, IInv, NothingLeft, TypeOK
    <2> QED BY <2>1, <2>2, <2>5, DropKeeps, Zenon DEF Remove, Receive, files, IInv, TypeOK
<1>7. CASE \E p \in Ports : Stat(p)
    <2> PICK p \in Ports : Stat(p)
        BY <1>7
    <2>1. Shrinks(procs', procs)
        BY DEF Stat, Shrinks, IInv, TypeOK
    <2>2. /\ table' \in [Ports -> Entry \cup {Nobody}]
          /\ \A q \in Ports : table'[q] # Nobody =>
               table[q] # Nobody /\ table'[q].password = table[q].password
          /\ \A q \in Ports : table[q] # Nobody => table'[q] # Nobody
        BY DEF Stat, update_stat, IInv, TypeOK, Entry
    <2>3. TypeOK'
        BY <2>2, Zenon DEF Stat, IInv, TypeOK, files, bounds, Configured
    <2>4. NothingLeft'
        BY <2>2 DEF Stat, IInv, NothingLeft, files, bounds, Serving, Running
    <2> QED BY <2>1, <2>2, <2>3, <2>4, DropKeeps, Zenon DEF Stat, files, bounds
<1>8. CASE \E p \in Ports : \E pw \in Passwords : Add(p, pw)
    <2> PICK p \in Ports, pw \in Passwords : Add(p, pw)
        BY <1>8
    <2>1. /\ add_server(p, pw, "zero", stop_server(p)) /\ mgr = "up"
          /\ UNCHANGED <<world, mgr, todo, kills>> /\ commands' \in 0..MaxCommands
        BY DEF Add, Receive, remove_server, IInv, TypeOK
    <2>2. Shrinks(stop_server(p), procs)
        BY StopShrinks DEF IInv
    <2>3. p \notin Configured \/ kills = 0 => Quiet(stop_server(p), p)
        BY StopQuiets DEF IInv
    <2> QED BY <2>1, <2>2, <2>3, AddKeeps
<1>9. CASE \E p \in Ports : \E pw \in Passwords : KillInAdd(p, pw)
    <2> PICK p \in Ports, pw \in Passwords : KillInAdd(p, pw)
        BY <1>9
    <2>1. Shrinks(stop_server(p), procs)
        BY StopShrinks DEF IInv
    <2>2. p \notin Configured \/ kills' = 0 => Quiet(stop_server(p), p)
        BY StopQuiets DEF IInv, KillInAdd, Killed, TypeOK
    <2>3. conf' \in [Ports -> Passwords \cup {Nobody}]
        BY Zenon DEF KillInAdd, build_config, IInv, TypeOK
    <2>4. /\ kills' # 0 /\ UNCHANGED <<world, commands>> /\ mgr' = "down" /\ todo' = {}
          /\ kills' \in 0..MaxKills /\ table' = [q \in Ports |-> Nobody]
        BY DEF KillInAdd, Killed, IInv, TypeOK, NoServers
    <2>5. CASE procs' = stop_server(p) /\ UNCHANGED <<pidfile, spent>>
        <3>1. TypeOK'
            BY <2>1, <2>3, <2>4, <2>5 DEF IInv, TypeOK, Shrinks
        <3> QED BY <2>1, <2>4, <2>5, <3>1, DropKeeps, Zenon DEF NothingLeft
    <2>6. CASE system(p, stop_server(p))
        <3>1. /\ procs' \in [Pids -> Server \cup {Nobody}] /\ spent' \subseteq Pids
              /\ pidfile' \in [Ports -> Pids \cup {Nobody}]
              /\ PidsSpent' /\ Stoppable' /\ SignalsItsOwn'
            BY <2>1, <2>2, <2>3, <2>4, <2>6, Launch, Zenon
        <3>2. TypeOK'
            BY <2>3, <2>4, <3>1 DEF IInv, TypeOK
        <3> QED BY <2>4, <3>1, <3>2, Zenon DEF IInv, NothingLeft, PasswordAgrees
    <2> QED BY <2>5, <2>6 DEF KillInAdd, remove_server
<1>10. CASE \E pid \in Pids : Die(pid) \/ End(pid)
    <2> PICK pid \in Pids : Die(pid)
        BY <1>10, Zenon DEF End
    <2>1. Shrinks(procs', procs)
        BY Zenon DEF Die, Shrinks, IInv, TypeOK
    <2>2. TypeOK'
        BY <2>1, Zenon DEF Die, IInv, TypeOK, files, bounds, Configured, Shrinks
    <2>3. \A q \in Ports : Serving(q)' \subseteq Serving(q)
        BY <2>1, ShrinkKeeps DEF Die, files, bounds
    <2>4. NothingLeft'
        BY <2>3 DEF Die, IInv, NothingLeft, bounds
    <2> QED BY <2>1, <2>2, <2>4, DropKeeps, Zenon DEF Die, files, bounds
<1>11. CASE UNCHANGED vars
    BY <1>11 DEF vars, files, bounds, IInv, TypeOK, NothingLeft, PidsSpent, Stoppable, PasswordAgrees,
        SignalsItsOwn, Serving, Running, Configured
<1> QED BY <1>1, <1>2, <1>3, <1>4, <1>5, <1>6, <1>7, <1>8, <1>9, <1>10, <1>11 DEF Next

LEMMA InitHolds == Init => IInv
BY ManagerAssumption DEF Init, IInv, TypeOK, NothingLeft, PidsSpent, Stoppable, PasswordAgrees,
    SignalsItsOwn, Serving, Running, Configured, NoServers

-----------------------------------------------------------------------------
(* The theorems.                                                           *)

\* Whatever is lost, killed or started again, the next "add" or "remove" of a
\* port reaches its server and a port has one (remove_server before add_server,
\* daemonize).
THEOREM ServersStoppable == Spec => []Stoppable
<1>1. IInv => Stoppable
    BY DEF IInv
<1> QED BY <1>1, InitHolds, StepKeeps, PTL DEF Spec

\* A server uses the password its port was last added with (build_config).
THEOREM PasswordsAgree == Spec => []PasswordAgrees
<1>1. IInv => PasswordAgrees
    BY DEF IInv
<1> QED BY <1>1, InitHolds, StepKeeps, PTL DEF Spec

\* As long as pids are not reused, stop_server signals servers of its port only.
THEOREM SignalsOwn == Spec => []SignalsItsOwn
<1>1. IInv => SignalsItsOwn
    BY DEF IInv
<1> QED BY <1>1, InitHolds, StepKeeps, PTL DEF Spec

\* The variables have their types.
THEOREM Types == Spec => []TypeOK
<1>1. IInv => TypeOK
    BY DEF IInv
<1> QED BY <1>1, InitHolds, StepKeeps, PTL DEF Spec
=============================================================================
