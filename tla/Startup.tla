------------------------------ MODULE Startup -------------------------------
(***************************************************************************)
(* How the programs start: options, privileges, listening sockets.         *)
(***************************************************************************)
EXTENDS Integers, Sequences, TLC, FiniteSets

(***************************************************************************)
(* How the five programs start: the command line and the config file       *)
(* (main of server.c, local.c, tunnel.c, redir.c and manager.c, jconf.c),  *)
(* and what they do until they enter the event loop.  What may fail on the *)
(* way is chosen with the input.                                           *)
(*                                                                         *)
(* An option is <<letter, argument>>, a member of the config file          *)
(* <<name, type, value>>; argument and value are what to_string makes of   *)
(* them.                                                                   *)
(***************************************************************************)

CONSTANTS
    MAX_REMOTE_NUM, MAX_DNS_NUM, MAX_PORT_NUM,
    Boots           \* programs with their arguments and files, and what fails

VARIABLE boot       \* one of them

LOCAL Seqs == INSTANCE SequencesExt

Unset == "unset"

-----------------------------------------------------------------------------
(* The programs.                                                           *)

ServerOptions == {"s", "p", "k", "f", "t", "m", "c", "i", "d", "a", "n", "u", "U", "A", "w",
                  "fast-open", "acl", "manager-address"}
LocalOptions == {"s", "p", "l", "k", "f", "t", "m", "c", "i", "b", "a", "n", "u", "A", "fast-open", "acl"}
TunnelOptions == {"s", "p", "l", "k", "f", "t", "m", "c", "i", "b", "L", "a", "n", "u", "U", "A"}
RedirOptions == {"s", "p", "l", "k", "f", "t", "m", "c", "b", "a", "n", "u", "U", "A"}
ManagerOptions == {"s", "k", "f", "t", "m", "c", "i", "d", "a", "u", "U", "A",
                   "fast-open", "acl", "manager-address", "executable"}

Options(prog) ==
    CASE prog = "server" -> ServerOptions [] prog = "local" -> LocalOptions
      [] prog = "tunnel" -> TunnelOptions [] prog = "redir" -> RedirOptions
      [] prog = "manager" -> ManagerOptions

\* What each of them takes from its config file, and cannot start without.
ServerFile == {"server_port", "password", "method", "timeout", "auth", "fast_open", "nofile", "nameserver"}
LocalFile == {"server_port", "local_address", "local_port", "password", "method", "timeout", "auth",
              "fast_open", "nofile"}
TunnelFile == LocalFile \ {"fast_open"}
RedirFile == LocalFile \ {"fast_open"}
ManagerFile == {"password", "method", "timeout", "fast_open", "auth", "nameserver", "port_password"}

File(prog) ==
    CASE prog = "server" -> ServerFile [] prog = "local" -> LocalFile
      [] prog = "tunnel" -> TunnelFile [] prog = "redir" -> RedirFile
      [] prog = "manager" -> ManagerFile

ServerNeeds == {"server_port", "password"}
LocalNeeds == {"server", "server_port", "local_port", "password"}
TunnelNeeds == LocalNeeds \cup {"tunnel"}
RedirNeeds == LocalNeeds
ManagerNeeds == {"manager_address"}

Needs(prog) ==
    CASE prog = "server" -> ServerNeeds [] prog = "local" -> LocalNeeds
      [] prog = "tunnel" -> TunnelNeeds [] prog = "redir" -> RedirNeeds
      [] prog = "manager" -> ManagerNeeds

ServerDefaults(o) ==
    [o EXCEPT !.server = IF @ = <<>> THEN <<[host |-> "any", port |-> Unset]>> ELSE @,
              !.method = IF @ = Unset THEN "table" ELSE @, !.timeout = IF @ = Unset THEN "60" ELSE @]
LocalDefaults(o) ==
    [o EXCEPT !.timeout = IF @ = Unset THEN "60" ELSE @,
              !.local_address = IF @ = Unset THEN "127.0.0.1" ELSE @]

Defaults(prog, o) == IF prog \in {"server", "manager"} THEN ServerDefaults(o) ELSE LocalDefaults(o)

-----------------------------------------------------------------------------
(* The command line.                                                       *)

Scalars == {"server_port", "local_address", "local_port", "password", "method", "timeout", "nofile",
            "user", "pid", "acl", "manager_address", "tunnel", "conf", "executable", "iface",
            "auth", "fast_open", "white_list"}
NoOptions ==
    [f \in Scalars \cup {"server", "mode", "nameservers", "port_password"} |->
        CASE f \in {"server", "nameservers", "port_password"} -> <<>>
          [] f = "mode" -> "tcp" [] OTHER -> Unset]

FieldOf ==
    [p |-> "server_port", l |-> "local_port", b |-> "local_address", k |-> "password", m |-> "method",
     t |-> "timeout", n |-> "nofile", a |-> "user", f |-> "pid", L |-> "tunnel", c |-> "conf",
     i |-> "iface", A |-> "auth", w |-> "white_list"]
    @@ ("fast-open" :> "fast_open") @@ ("manager-address" :> "manager_address")
    @@ ("acl" :> "acl") @@ ("executable" :> "executable")

\* A server of the command line has no port of its own.
getopt_server(o, arg) == [o EXCEPT !.server = IF Len(@) < MAX_REMOTE_NUM THEN Append(@, arg) ELSE @]

\* A letter the program does not know is skipped: opterr is 0.
getopt(prog, o, arg) ==
    CASE arg[1] \notin Options(prog) -> o
      [] arg[1] = "s" -> getopt_server(o, [host |-> arg[2], port |-> Unset])
      [] arg[1] = "d" -> [o EXCEPT !.nameservers = IF Len(@) < MAX_DNS_NUM THEN Append(@, arg[2]) ELSE @]
      [] arg[1] = "u" -> [o EXCEPT !.mode = "both"]
      [] arg[1] = "U" -> [o EXCEPT !.mode = "udp"]
      [] OTHER -> [o EXCEPT ![FieldOf[arg[1]]] = arg[2]]

-----------------------------------------------------------------------------
(***************************************************************************)
(* The config file.  Addresses are sequences of characters: "6" is a digit *)
(* of an IPv6 address, <<"4">> an IPv4 address.                            *)
(***************************************************************************)
cork_ip_init(str) ==
    str = <<"4">> \/ (Seqs!ToSet(str) \subseteq {"6", ":"} /\ ":" \in Seqs!ToSet(str))

\* The last colon.
port_at(str) == CHOOSE i \in DOMAIN str : str[i] = ":" /\ \A j \in (i + 1)..Len(str) : str[j] # ":"

parse_addr(str) ==
    LET colons == {i \in DOMAIN str : str[i] = ":"}
        ipv6 == \E i, j \in colons : i # j
        ret == port_at(str)
        Host(from, to) == SubSeq(str, from, to)
    IN  IF cork_ip_init(str) \/ colons = {} THEN [host |-> str, port |-> Unset]
        ELSE IF ~ipv6 THEN [host |-> Host(1, ret - 1), port |-> SubSeq(str, ret + 1, Len(str))]
        ELSE IF ret = 1 \/ str[ret - 1] # "]" THEN [host |-> Host(2, Len(str) - 1), port |-> Unset]
        ELSE [host |-> Host(2, ret - 2), port |-> SubSeq(str, ret + 1, Len(str))]

Strings == {"string", "integer", "null"}

\* What to_string cannot convert ends the program.
to_string(type, value) == IF type \in Strings THEN value ELSE "fatal"

\* Elements beyond the last place are dropped; an empty array changes nothing.
ServerMember(conf, m) ==
    CASE m[2] = "array" /\ m[3] # <<>> ->
           [conf EXCEPT !.server = [j \in 1..(IF Len(m[3]) < MAX_REMOTE_NUM THEN Len(m[3]) ELSE MAX_REMOTE_NUM)
                                      |-> parse_addr(m[3][j])]]
      [] m[2] = "string" -> [conf EXCEPT !.server = <<[host |-> m[3], port |-> Unset]>>]
      [] OTHER -> conf

\* A password that is no string leaves its place in the array empty.
PortPasswords(conf, m) ==
    LET j == {k \in DOMAIN m[3] : k <= MAX_PORT_NUM /\ m[3][k][2] = "string"}
        num == IF j = {} THEN 0 ELSE CHOOSE k \in j : \A l \in j : l <= k
    IN  IF m[2] # "object" THEN conf
        ELSE [conf EXCEPT !.port_password = [k \in 1..num |->
                             IF k \in j THEN <<m[3][k][1], m[3][k][3]>> ELSE <<Unset, Unset>>]]

Member(conf, m) ==
    CASE m[1] = "server" -> ServerMember(conf, m)
      [] m[1] = "port_password" -> PortPasswords(conf, m)
      [] m[1] = "nameserver" -> [conf EXCEPT !.nameservers = <<to_string(m[2], m[3])>>]
      [] m[1] \in {"fast_open", "auth"} -> [conf EXCEPT ![m[1]] = IF m[3] = "false" THEN Unset ELSE "on"]
      [] m[1] = "nofile" -> [conf EXCEPT !.nofile = m[3]]
      [] m[1] \in Scalars \ {"user", "pid", "acl", "tunnel", "conf", "executable", "iface", "white_list"} ->
           [conf EXCEPT ![m[1]] = to_string(m[2], m[3])]
      [] OTHER -> conf

read_jconf(file) == Seqs!FoldLeft(Member, NoOptions, file)

Fatal_conf(conf) == \E f \in Scalars : conf[f] = "fatal"

Preferred(option, member) == IF option = Unset THEN member ELSE option

\* What is not given on the command line is taken from the file; name servers are
\* added.  A server of ss-server and ss-manager has no port of its own.
Merge(prog, o, conf) ==
    LET hosts == IF prog \in {"server", "manager"}
                 THEN [j \in DOMAIN conf.server |-> [conf.server[j] EXCEPT !.port = Unset]]
                 ELSE conf.server
        lists == [o EXCEPT !.server = IF @ = <<>> THEN hosts ELSE @,
                           !.nameservers = IF "nameserver" \in File(prog) THEN @ \o conf.nameservers ELSE @,
                           !.port_password = IF prog = "manager" THEN conf.port_password ELSE @]
    IN  [f \in DOMAIN o |-> IF f \in Scalars /\ f \in File(prog)
                            THEN Preferred(o[f], conf[f]) ELSE lists[f]]

-----------------------------------------------------------------------------
(* Until the event loop.                                                   *)

\* Mutant: the user first, who may not change the group.
run_as_user_first(user, fails) ==
    [uid |-> IF user = Unset \/ "getpwnam" \in fails THEN "root" ELSE user, gid |-> "root"]

\* The group first; the program goes on when it fails.
run_as(user, fails) ==
    LET found == user # Unset /\ "getpwnam" \notin fails
        gid == found /\ "setgid" \notin fails
        uid == gid /\ "setuid" \notin fails
    IN  [uid |-> IF uid THEN user ELSE "root", gid |-> IF gid THEN user ELSE "root"]

\* The limit is set where the config file is read, and only above the usual one.
set_nofile(o, fails) ==
    IF o.nofile \in {"2048", "4096"} /\ "setrlimit" \notin fails THEN o.nofile ELSE "1024"

Missing(prog, o) ==
    \E f \in Needs(prog) : IF f = "server" THEN o.server = <<>> ELSE o[f] = Unset

\* The TCP listeners of ss-server, by their place in listen_ctx_list: the loop that
\* binds them counts server_num down.
Bound(o) == [open |-> 0..(Len(o.server) - 1), server_num |-> 0]

\* What ss-server closes when its loop has ended.
CleanUp(server_num) == 0..server_num

Sockets(prog, o) ==
    LET hosts == IF prog = "server" THEN {o.server[j].host : j \in DOMAIN o.server} ELSE {o.local_address}
    IN  (IF o.mode # "udp" THEN {"tcp"} \X hosts ELSE {}) \cup (IF o.mode # "tcp" THEN {"udp"} \X hosts ELSE {})

\* The address of each server, for the programs that connect to them.
Remotes(o) == [j \in DOMAIN o.server |->
                  [o.server[j] EXCEPT !.port = IF @ = Unset THEN o.server_port ELSE @]]

NoOutcome == [end |-> "usage", daemon |-> FALSE, limit |-> "1024", sockets |-> {}, remotes |-> <<>>,
              ids |-> [uid |-> "root", gid |-> "root"]]

daemonize(out, o, fails) ==
    IF o.pid = Unset THEN out
    ELSE IF fails \cap {"fork", "pidfile"} # {} THEN [out EXCEPT !.end = "exit"]
    ELSE [out EXCEPT !.daemon = TRUE]

Refused(d) == [d EXCEPT !.end = "fatal"]
Serving(prog, o, d, fails) ==
    [d EXCEPT !.end = "running", !.sockets = Sockets(prog, o), !.ids = run_as(o.user, fails),
              !.remotes = IF prog = "server" THEN <<>> ELSE Remotes(o)]

\* What is left of the four mains, from daemonize on: resolve the servers, listen,
\* change the user.
ServerMain(o, d, fails) == IF "bind" \in fails THEN Refused(d) ELSE Serving("server", o, d, fails)
LocalMain(o, d, fails) == IF fails \cap {"resolve", "bind"} # {} THEN Refused(d) ELSE Serving("local", o, d, fails)
RedirMain(o, d, fails) == IF fails \cap {"resolve", "bind"} # {} THEN Refused(d) ELSE Serving("redir", o, d, fails)
TunnelMain(o, d, fails) ==
    IF parse_addr(o.tunnel).port = Unset \/ fails \cap {"resolve", "bind"} # {} THEN Refused(d)
    ELSE Serving("tunnel", o, d, fails)

\* ss-server, ss-local, ss-tunnel and ss-redir.
Relay(prog, o, out, fails) ==
    LET d == daemonize(out, o, fails) IN
    IF Missing(prog, o) THEN out
    ELSE IF d.end = "exit" THEN d
    ELSE CASE prog = "server" -> ServerMain(o, d, fails)
           [] prog = "local" -> LocalMain(o, d, fails)
           [] prog = "tunnel" -> TunnelMain(o, d, fails)
           [] prog = "redir" -> RedirMain(o, d, fails)

\* ss-manager looks for what is missing when it is a daemon; an empty place among
\* the ports is read like the others.
ManagerMain(o, out, fails) ==
    LET d == daemonize(out, o, fails) IN
    IF d.end = "exit" \/ Missing("manager", o) THEN d
    ELSE IF "mkdir" \in fails THEN [d EXCEPT !.end = "fatal", !.ids = run_as(o.user, fails)]
    ELSE IF \E j \in DOMAIN o.port_password : o.port_password[j][1] = Unset THEN [d EXCEPT !.end = "crashed"]
    ELSE IF "bind" \in fails THEN [d EXCEPT !.end = "fatal", !.ids = run_as(o.user, fails)]
    ELSE [d EXCEPT !.end = "running", !.ids = run_as(o.user, fails)]

CommandLine == Seqs!FoldLeft(LAMBDA o, arg : getopt(boot.prog, o, arg), NoOptions, boot.args)

\* Without arguments the relays read the default file.
HasFile == CommandLine.conf # Unset \/ (boot.args = <<>> /\ boot.prog # "manager")

Given == IF HasFile THEN Merge(boot.prog, CommandLine, read_jconf(boot.file)) ELSE CommandLine
Effective == Defaults(boot.prog, Given)

\* What becomes of main with the options o, effective, and out so far.
Main(o, out) ==
    IF boot.prog = "manager" THEN ManagerMain(o, out, boot.fails) ELSE Relay(boot.prog, o, out, boot.fails)

Outcome ==
    IF HasFile /\ ("fopen" \in boot.fails \/ Fatal_conf(read_jconf(boot.file))) THEN [NoOutcome EXCEPT !.end = "fatal"]
    ELSE Main(Effective, [NoOutcome EXCEPT !.limit =
                            IF boot.prog = "manager" \/ ~HasFile THEN @ ELSE set_nofile(Given, boot.fails)])

-----------------------------------------------------------------------------
(* What is claimed.                                                        *)

Booting == boot.kind = "boot"

\* The command line is stronger than the config file, which is stronger than the
\* defaults; of what is given twice the last counts.
CommandLineWins ==
    Booting => \A o \in {Effective}, f \in Scalars \ {"conf"} :
        LET typed == {j \in DOMAIN boot.args : boot.args[j][1] \in Options(boot.prog) \cap DOMAIN FieldOf
                                               /\ FieldOf[boot.args[j][1]] = f}
            filed == {j \in DOMAIN boot.file : HasFile /\ f \in File(boot.prog) /\ boot.file[j][1] = f}
            Last(S) == CHOOSE j \in S : \A k \in S : k <= j
        IN  IF typed # {} THEN o[f] = boot.args[Last(typed)][2]
            ELSE IF filed # {} /\ f \notin {"auth", "fast_open"}
            THEN o[f] = to_string(boot.file[Last(filed)][2], boot.file[Last(filed)][3])
            ELSE filed = {} => o[f] \in {Unset, "table", "60", "127.0.0.1"}

\* There is room for every server and name server that is kept.
ListsFit ==
    Booting => \A o \in {Effective} : Len(o.server) <= MAX_REMOTE_NUM /\ Len(o.nameservers) <= MAX_DNS_NUM + 1

\* A relay whose command line lacks something says so before it detaches, so that
\* whoever started it learns of it.
TellsCaller ==
    Booting /\ boot.prog # "manager" => \A out \in {Outcome} : out.end = "usage" => ~out.daemon

\* A relay that runs knows the port of each of its servers.
RemotesHavePorts ==
    Booting => \A out \in {Outcome} :
        out.end = "running" => \A j \in DOMAIN out.remotes : out.remotes[j].port # Unset

\* When its loop has ended, ss-server closes listeners it has opened, and nothing
\* beyond them, although the clean-up counts to server_num inclusive.
ClosesOnlyOpen ==
    Booting /\ boot.prog = "server" /\ Outcome.end = "running" =>
        \A o \in {Effective} : o.mode # "udp" => CleanUp(Bound(o).server_num) \subseteq Bound(o).open

\* A program that has changed its user has changed its group too.
GroupBeforeUser ==
    Booting => \A out \in {Outcome} : out.ids.uid # "root" => out.ids.gid = out.ids.uid

\* Host and port are taken apart, with brackets around IPv6 addresses or none.
AddrParsed ==
    boot.kind = "addr" =>
        parse_addr(IF boot.port = Unset THEN boot.open \o boot.host \o boot.close
                   ELSE boot.open \o boot.host \o boot.close \o <<":">> \o boot.port)
          = [host |-> boot.host, port |-> boot.port]

-----------------------------------------------------------------------------
(***************************************************************************)
(* Addresses and sockets in the programs of src/src: which of the          *)
(* addresses the resolver returns is listened on or connected to (netutils *)
(* and create_and_bind, create_server_socket of each program), the address *)
(* header of a relayed datagram (udprelay), and the descriptors that are   *)
(* left open.                                                              *)
(*                                                                         *)
(* One machine: its kernel refuses a socket of a family it does not have,  *)
(* and refuses to bind two sockets to one address unless both ask to share *)
(* it.  A byte of an address is a token.                                   *)
(***************************************************************************)

CONSTANTS
    NTRIES,         \* how often a blocking program asks the resolver, 7
    IN4_LEN, IN6_LEN, PORT_LEN,     \* bytes of the addresses and of a port
    SocketCases

ASSUME SocketAssumption ==
    \A c \in SocketCases : c.kind \in {"none", "listen", "resolve", "order", "header", "protect"}

VARIABLE sockCase

sock_vars == <<sockCase>>

V4 == "4"
V6 == "6"
NoHost == <<"NULL", "NULL">>
Name == <<"name", "name">>

-----------------------------------------------------------------------------
(* Listening.                                                              *)

\* Addresses a bound socket receives for: an IPv6 wildcard socket that is not
\* IPv6 only also receives for IPv4.
Receives(s) == {<<s.family, s.addr>>} \cup
    IF s.addr # "any" THEN {} ELSE {<<s.family, "any">>} \cup IF s.family = V6 /\ ~s.v6only THEN {<<V4, "any">>} ELSE {}

\* Whether the kernel refuses to bind s.
bind_fails(s, bound) ==
    \E t \in bound : ~(s.shared /\ t.shared) /\ s.proto = t.proto /\ Receives(s) \cap Receives(t) # {}

\* What getaddrinfo returns: every wildcard in the order of the machine, the
\* address that was named.
getaddrinfo(host, machine) ==
    IF host = NoHost THEN [i \in 1..Len(machine.order) |-> [family |-> machine.order[i], addr |-> "any"]]
    ELSE <<[family |-> host[1], addr |-> host[2]]>>

\* With no host, the first IPv6 address is tried first: "it is impossible to listen
\* on 0.0.0.0 and :: at the same time, if :: implies dualstack mode".
bindall_first(host, result) ==
    LET six == {i \in 1..Len(result) : result[i].family = V6} IN
    IF host = NoHost /\ six # {} THEN CHOOSE i \in six : \A j \in six : i <= j ELSE 1

ipv6only(host, family) == family = V6 /\ host # NoHost

close_refused(refused) == refused

\* The loop over the addresses from the first on: the socket that was bound, and the
\* descriptors still open.
bind_loop(proto, host, result, first, shares, machine, bound) ==
    LET sock(i) == [proto |-> proto, family |-> result[i].family, addr |-> result[i].addr,
                    v6only |-> ipv6only(host, result[i].family), shared |-> shares /\ machine.reuseport]
        made == {i \in first..Len(result) : result[i].family \in machine.families}
        refused == {i \in made : bind_fails(sock(i), bound)}
        ok == made \ refused
        rp == IF ok = {} THEN Len(result) + 1 ELSE CHOOSE i \in ok : \A j \in ok : i <= j
        tried == {i \in made : i <= rp}
    IN [bound |-> IF ok = {} THEN bound ELSE bound \cup {sock(rp)}, done |-> ok # {},
        open |-> Cardinality(tried) - Cardinality(close_refused(tried \cap refused))]

\* ss-server; getaddrinfo fails the first `late' times it is asked.
create_and_bind(host, machine, bound) ==
    IF machine.late >= NTRIES THEN [bound |-> bound, open |-> 0, done |-> FALSE]
    ELSE LET result == getaddrinfo(host, machine)
         IN bind_loop("tcp", host, result, bindall_first(host, result), TRUE, machine, bound)

\* ss-local, ss-tunnel and ss-redir always name their host, ask once, and set no
\* option for IPv6.
create_and_bind_local(host, machine, bound) ==
    IF machine.late > 0 THEN [bound |-> bound, open |-> 0, done |-> FALSE]
    ELSE bind_loop("tcp", NoHost, getaddrinfo(host, machine), 1, TRUE, machine, bound)
create_and_bind_tunnel(host, machine, bound) == create_and_bind_local(host, machine, bound)
create_and_bind_redir(host, machine, bound) == create_and_bind_local(host, machine, bound)

\* The datagram socket of the relay.
create_server_socket(host, machine, bound) ==
    IF machine.late > 0 THEN [bound |-> bound, open |-> 0, done |-> FALSE]
    ELSE LET result == getaddrinfo(host, machine)
         IN bind_loop("udp", host, result, bindall_first(host, result), TRUE, machine, bound)

\* The one of ss-manager is not shared.
create_manager_socket(host, machine, bound) ==
    IF machine.late > 0 THEN [bound |-> bound, open |-> 0, done |-> FALSE]
    ELSE LET result == getaddrinfo(host, machine)
         IN bind_loop("udp", host, result, bindall_first(host, result), FALSE, machine, bound)

Listen1(prog, host, machine, bound) ==
    CASE prog = "server" -> create_and_bind(host, machine, bound)
      [] prog = "local" -> create_and_bind_local(host, machine, bound)
      [] prog = "tunnel" -> create_and_bind_tunnel(host, machine, bound)
      [] prog = "redir" -> create_and_bind_redir(host, machine, bound)
      [] prog = "udprelay" -> create_server_socket(host, machine, bound)
      [] prog = "manager" -> create_manager_socket(host, machine, bound)

\* A program listens on its hosts, one after the other, and ends when one fails.
Listening(c) ==
    LET l[i \in 0..Len(c.hosts)] ==
            IF i = 0 THEN [bound |-> c.machine.held, open |-> 0, done |-> TRUE]
            ELSE IF ~l[i-1].done THEN l[i-1]
            ELSE LET x == Listen1(c.prog, c.hosts[i], c.machine, l[i-1].bound)
                 IN [bound |-> x.bound, open |-> l[i-1].open + x.open, done |-> x.done]
    IN l[Len(c.hosts)]

-----------------------------------------------------------------------------
(* Connecting.                                                             *)

\* An IPv4 address is taken before any IPv6 one.
prefer_ipv4(result) ==
    LET of(f) == {i \in 1..Len(result) : result[i].family = f}
        least(S) == CHOOSE i \in S : \A j \in S : i <= j
    IN IF of(V4) # {} THEN least(of(V4)) ELSE IF of(V6) # {} THEN least(of(V6)) ELSE 0

\* The address that is used, or <<>>.  An address needs no resolver; a name is asked
\* for once, or when blocking until it is known, NTRIES times.
get_sockaddr(host, result, late, block) ==
    IF host # Name THEN <<host[1], host[2]>>
    ELSE IF late >= (IF block THEN NTRIES ELSE 1) \/ prefer_ipv4(result) = 0 THEN <<>>
    ELSE <<result[prefer_ipv4(result)].family, result[prefer_ipv4(result)].addr>>

\* Three-way comparison of two numbers.
memcmp(a, b) == IF a < b THEN -1 ELSE IF a > b THEN 1 ELSE 0
family_no(f) == CASE f = V4 -> 2 [] f = V6 -> 10

sockaddr_cmp(x, y) ==
    IF memcmp(family_no(x.family), family_no(y.family)) # 0 THEN memcmp(family_no(x.family), family_no(y.family))
    ELSE IF memcmp(x.port, y.port) # 0 THEN memcmp(x.port, y.port)
    ELSE memcmp(x.addr, y.addr)

sockaddr_cmp_addr(x, y) ==
    IF memcmp(family_no(x.family), family_no(y.family)) # 0 THEN memcmp(family_no(x.family), family_no(y.family))
    ELSE memcmp(x.addr, y.addr)

-----------------------------------------------------------------------------
(* The header of a relayed datagram: an address type, the address (a name  *)
(* behind its length), the port.  A byte is a pair <<what, value>>.        *)

Tokens(what, n) == [i \in 1..n |-> <<what, i>>]

construct_udprelay_header(a) ==
    IF a.family = V4 THEN <<<<"atyp", 1>>>> \o Tokens("addr", IN4_LEN) \o Tokens("port", PORT_LEN)
    ELSE <<<<"atyp", 4>>>> \o Tokens("addr", IN6_LEN) \o Tokens("port", PORT_LEN)

\* The header ss-tunnel and applications write for a name.
name_header(n) == <<<<"atyp", 3>>, <<"len", n>>>> \o Tokens("name", n) \o Tokens("port", PORT_LEN)

name_fits(name_len, buf_len) == name_len + 2 + PORT_LEN <= buf_len

\* The length of the header, or 0 when the datagram is too short for it; the first
\* buf_len bytes of buf were received, and what is behind them is stale.
parse_udprelay_header(buf, buf_len) ==
    LET atyp == buf[1]
        name_len == IF buf[2][1] = "len" THEN buf[2][2] ELSE 3
    IN IF atyp = <<"atyp", 1>> /\ buf_len >= IN4_LEN + 1 + PORT_LEN THEN 1 + IN4_LEN + PORT_LEN
       ELSE IF atyp = <<"atyp", 4>> /\ buf_len >= IN6_LEN + 1 + PORT_LEN THEN 1 + IN6_LEN + PORT_LEN
       ELSE IF atyp = <<"atyp", 3>> /\ name_fits(name_len, buf_len) THEN 2 + name_len + PORT_LEN
       ELSE 0

-----------------------------------------------------------------------------
(* Asking the Android service: a descriptor is sent over a new connection. *)

\* At which step it fails, or "mute": the service closes without an answer, which
\* is taken for the answer 0.  Every path but the first has a connection to close.
ask_service(outcome, answer) ==
    LET opened == IF outcome = "socket" THEN 0 ELSE 1
        closed == IF outcome \in {"connect", "send", "recv", "mute", "answered"} THEN 1 ELSE 0
    IN [ret |-> CASE outcome = "answered" -> answer [] outcome = "mute" -> 0 [] OTHER -> -1, open |-> opened - closed]

protect_socket(outcome, answer) == ask_service(outcome, answer)
send_traffic_stat(outcome, answer) == ask_service(outcome, answer)

SocketInit == sockCase \in SocketCases

-----------------------------------------------------------------------------
(* What is claimed.                                                        *)

\* An ss-server, or a UDP relay, with no host receives for both families when the
\* machine has both, in whichever order the resolver lists them; one that names
\* the wildcards of both families receives for both too, although the kernel binds
\* one address once (create_and_bind, create_server_socket).
ListensForAll ==
    sockCase.kind = "listen" /\ sockCase.machine.late = 0 /\ sockCase.machine.held = {} =>
        LET l == Listening(sockCase)
            got == UNION {Receives(s) : s \in l.bound}
            asked == UNION {IF sockCase.hosts[i] # NoHost THEN {sockCase.hosts[i]}
                            ELSE {<<f, "any">> : f \in {V4, V6}} : i \in 1..Len(sockCase.hosts)}
        IN sockCase.machine.families = {V4, V6} /\ sockCase.prog \in {"server", "udprelay", "manager"} => asked \subseteq got

\* Hosts that can each be listened on, each named once, can be listened on together:
\* "0.0.0.0" and "::" do not exclude each other, although a kernel that lacks
\* SO_REUSEPORT binds an address once (IPV6_V6ONLY in create_and_bind).
HostsIndependent ==
    /\ sockCase.kind = "listen"
    /\ sockCase.prog \in {"server", "udprelay", "manager"}
    /\ \A i \in 1..Len(sockCase.hosts) : Listening([sockCase EXCEPT !.hosts = <<sockCase.hosts[i]>>]).done
    => Listening(sockCase).done

\* Every descriptor that is opened on the way is bound or closed again: as many are
\* open as sockets are bound (the loops that try addresses), none after the
\* Android service was asked.
NothingLeftOpen ==
    /\ sockCase.kind = "listen" =>
        Listening(sockCase).open = Cardinality(Listening(sockCase).bound \ sockCase.machine.held)
    /\ sockCase.kind = "protect" =>
        protect_socket(sockCase.outcome, 0).open = 0 /\ send_traffic_stat(sockCase.outcome, 0).open = 0

\* A program that starts while the resolver is down waits for it, and uses an IPv4
\* address of a name whenever there is one; a datagram that reports traffic does
\* not wait (get_sockaddr).
StartWaits ==
    sockCase.kind = "resolve" =>
        LET a == get_sockaddr(Name, sockCase.result, sockCase.late, sockCase.block) IN
        /\ sockCase.block /\ sockCase.late < NTRIES /\ Len(sockCase.result) > 0 => a # <<>>
        /\ a # <<>> /\ (\E i \in 1..Len(sockCase.result) : sockCase.result[i].family = V4) => a[1] = V4

\* sockaddr_cmp orders addresses: it is 0 for equal ones only, antisymmetric and
\* transitive; so a reused UDP association has the very same source.
OrderTotal ==
    sockCase.kind = "order" =>
        LET x == sockCase.x  y == sockCase.y  z == sockCase.z IN
        /\ (sockaddr_cmp(x, y) = 0) = (x = y)
        /\ sockaddr_cmp(x, y) = -sockaddr_cmp(y, x)
        /\ sockaddr_cmp(x, y) = -1 /\ sockaddr_cmp(y, z) = -1 => sockaddr_cmp(x, z) = -1
        /\ sockaddr_cmp(x, y) = 0 => sockaddr_cmp_addr(x, y) = 0

\* A header is taken apart as it was put together, and one that was cut is refused
\* or leaves its end within the datagram, whatever the buffer held before
\* (parse_udprealy_header).
HeaderInside ==
    sockCase.kind = "header" =>
        LET h == IF sockCase.n = -1 THEN construct_udprelay_header([family |-> sockCase.family])
                 ELSE name_header(sockCase.n)
            buf == SubSeq(h, 1, sockCase.cut) \o [i \in 1..12 |-> sockCase.stale]
        IN /\ sockCase.cut <= Len(h) => parse_udprelay_header(buf, sockCase.cut) <= sockCase.cut
           /\ sockCase.cut = Len(h) => parse_udprelay_header(buf, sockCase.cut) = Len(h)

\* A program starts as its options and its config file say, tells its caller
\* whether it did, gives up its privileges in the right order, listens on every
\* address it is given, and closes just what it opened.
StartsAsTold ==
    /\ CommandLineWins /\ ListsFit /\ TellsCaller /\ RemotesHavePorts
    /\ ClosesOnlyOpen /\ GroupBeforeUser /\ AddrParsed
    /\ ListensForAll /\ HostsIndependent /\ NothingLeftOpen
    /\ StartWaits /\ OrderTotal /\ HeaderInside
=============================================================================
