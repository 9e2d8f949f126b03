---------------------------- MODULE MCEncryption ----------------------------
(***************************************************************************)
(* From the command line to encrypted bytes: how the programs start and    *)
(* read their config file, the set-up of the ciphers, streams with chunks, *)
(* datagrams, and the libraries these are made with (libsodium, libudns),  *)
(* one of them in each behaviour.                                          *)
(***************************************************************************)
EXTENDS ChunkAuth, SealedDatagram, CryptoSetup, Configuration, Startup, Sodium, UdnsLibrary

VARIABLE part

\* Of these parts only the input is a variable.
inputs == <<setup, json, boot, scryptCase, sockCase, textCase, dnsCase, addrCase>>
encVars == <<chunks, cipher, dgVars, inputs, rng_vars, su_vars, hash_vars, box_vars, uc_vars, part>>

MCOctets == Nat \X Nat

IdleDg == [method |-> "table", auth |-> FALSE, strict |-> FALSE, lens |-> {}, datagrams |-> 0]
MCDgWorlds ==
    {IdleDg} \cup [method : {"table", "stream"}, auth : BOOLEAN, strict : BOOLEAN,
                   lens : {{3, 5}, {9}, {3, 7, 9}}, datagrams : {2}]

IdleSetup == [kind |-> "none"]
MCSetups ==
    {IdleSetup}
    \cup [kind : {"table"}, key : 0..40]
    \cup [kind : {"key"}, mds : 1..4, nkey : 1..7, niv : 0..5, fails : 0..3]
    \cup [kind : {"method"}, name : 0..CIPHER_NUM]

Str == {<<>>, <<"a">>}
Leaf == {<<"integer", <<>>>>, <<"double", <<>>>>, <<"true", <<>>>>} \cup {<<"string", x>> : x \in Str}
Arr(S) == {<<"array", x>> : x \in {<<>>} \cup [1..1 -> S] \cup [1..2 -> S]}
Obj(S) == {<<"object", x>> : x \in {<<>>} \cup [1..1 -> Str \X S] \cup [1..2 -> Str \X S]}
Small == {<<"integer", <<>>>>, <<"array", <<>>>>, <<"object", << << <<"a">>, <<"null", <<>>>> >> >> >>}
Trees == Leaf \cup Arr(Leaf) \cup Obj({<<"integer", <<>>>>, <<"string", <<"a">>>>}) \cup Arr(Small) \cup Obj(Small)
Texts(S, n) == UNION {[1..k -> S] : k \in 0..n}
Dropped(t) == {[i \in 1..(Len(t) - 1) |-> IF i < k THEN t[i] ELSE t[i + 1]] : k \in DOMAIN t}
Doubled(t) == {[i \in 1..(Len(t) + 1) |-> IF i <= k THEN t[i] ELSE t[i - 1]] : k \in DOMAIN t}
NoJson == [kind |-> "none"]
MCJsonInputs ==
    {NoJson} \cup [kind : {"value"}, value : Trees]
    \cup [kind : {"text"}, text :
             Texts({"{", "}", "[", "]", ",", ":", "\"", "1"}, 4)
             \cup Texts({"-", "0", "1", ".", "e", "+"}, 4)
             \cup Texts({"\"", "\\", "u1", "u2", "u3", "u?"}, 4)
             \cup UNION {Dropped(TextOf(v)) \cup Doubled(TextOf(v)) : v \in Obj(Small)}]

NoBoot == [kind |-> "none"]
Needed == {<< <<"p", "1">>, <<"k", "x">>, <<"l", "2">>, <<"s", <<"4">> >>, <<"L", <<"h", ":", "1">> >>,
              <<"manager-address", "m">> >>,
           << <<"manager-address", "m">>, <<"L", <<"h">> >> >>, <<>>}
More == {<<>>} \cup [1..1 -> {<<"k", "y">>, <<"U", "">>, <<"A", "on">>, <<"n", "4096">>,
                              <<"d", "1">>, <<"f", "pid">>, <<"a", "ss">>}]
              \cup {<< <<"s", <<"h">> >>, <<"s", <<"h">> >> >>, << <<"f", "pid">>, <<"a", "ss">> >>}
Files == {<<>>,
          << <<"server_port", "integer", "5">>, <<"local_port", "string", "6">>, <<"password", "string", "z">>,
             <<"server", "array", << <<"h">>, <<"4", ":", "7">>, <<"h">> >> >>, <<"nameserver", "string", "n">>,
             <<"nofile", "integer", "2048">>, <<"auth", "boolean", "true">>, <<"password", "string", "w">> >>,
          << <<"server_port", "array", <<>> >> >>,
          << <<"server", "string", <<"h">> >>,
             <<"port_password", "object", << <<"1", "integer", "q">>, <<"2", "string", "r">> >> >> >> }
MCBoots ==
    {NoBoot}
    \cup {[kind |-> "boot", prog |-> p, args |-> a \o c \o x, file |-> f, fails |-> e] :
            p \in {"server", "local", "tunnel", "redir", "manager"}, a \in Needed,
            c \in {<<>>, << <<"c", "conf">> >>}, x \in More, f \in Files,
            e \in {{}, {"fopen"}, {"setgid"}, {"setuid"}, {"bind"}, {"pidfile"}}}
    \cup [kind : {"addr"}, open : {<<>>}, close : {<<>>}, host : {<<"4">>, <<"h">>}, port : {Unset, <<"1">>}]
    \cup [kind : {"addr"}, open : {<<"[">>}, close : {<<"]">>}, host : {<<"6", ":", ":", "6">>},
          port : {Unset, <<"1">>}]
    \cup [kind : {"addr"}, open : {<<>>}, close : {<<>>}, host : {<<"6", ":", ":">>}, port : {Unset}]

NoRng == [kind |-> "none"]
MCRngCases ==
    {NoRng}
    \cup [kind : {"machine"}, getrandom : {TRUE}, devices : {<<>>}, faults : BOOLEAN]
    \cup [kind : {"machine"}, getrandom : {FALSE}, devices : {<<"absent", "device">>, <<"file">>}, faults : {FALSE}]
    \cup [kind : {"uniform"}, bound : 1..RNG_RANGE]
    \cup [kind : {"fill"}, size : 1..9]

NoUtils == [kind |-> "none"]
MCSuCases ==
    {NoUtils}
    \cup UNION {[kind : {"numbers"}, a : [1..n -> 0..TEN-1], b : [1..n -> 0..TEN-1]] : n \in 0..2}
    \cup UNION {[kind : {"bin"}, bin : [1..n -> 0..TEN-1]] : n \in 0..3}
    \cup UNION {[kind : {"hex"}, hex : [1..n -> 0..HALF+1], maxlen : 0..2, ignore : BOOLEAN] : n \in 0..5}
    \cup [kind : {"block"}, size : 0..9]
    \cup [kind : {"array"}, count : 0..SIZE_MAX, size : 0..SIZE_MAX]

NoHash == [kind |-> "none"]
HashOf(algs, lens, keylens, outlens) ==
    [kind : {"hash"}, alg : algs, len : lens, keylen : keylens, outlen : outlens]
MCHashCases ==
    {NoHash}
    \cup HashOf({"sha256", "sha512", "poly1305"}, 0..9, {0}, {1})
    \cup HashOf({"hmac256", "hmac512"}, 0..5, {0, 1, 4, 5}, {1})
    \cup HashOf({"blake2b"}, 0..13, {0, 1, 4}, {2})
    \cup HashOf({"blake2b"}, {1}, {0, 1, 4, 5}, 0..3)

NoBox == [kind |-> "none"]
BoxOf(apis, pks) ==
    {c \in [kind : {"box"}, api : apis, m : 1..MEM, c : 1..MEM, mlen : 0..4, pk : pks] :
        LET before == IF c.api = "zeropad" THEN ZEROBYTES ELSE 0
            overhead == IF c.api \in {"zeropad", "seal"} THEN 2 ELSE 1
            src == c.m..c.m + before + c.mlen - 1
            dst == c.c..c.c + overhead + c.mlen - 1
        IN /\ src \cup dst \subseteq 1..MEM
           /\ c.api \in {"zeropad", "aead", "aead_ietf"} => c.m = c.c \/ src \cap dst = {}
           /\ c.api = "seal" => src \cap dst = {}}
ShortBytes == UNION {[1..n -> {Byte(0), Byte(1), Byte(2)}] : n \in 0..2}
MCBoxCases ==
    {NoBox} \cup BoxOf({"secretbox"}, {1}) \cup BoxOf({"box", "seal"}, {0, 2})
    \cup BoxOf({"zeropad", "aead", "aead_ietf"}, {1})
    \cup [kind : {"inputs"}, ad : ShortBytes, c : ShortBytes, seqs : {ShortBytes}]

NoScrypt == [kind |-> "none"]
Octal == 0..2^BYTE_BITS-1
SomeParams == [N_log2 |-> 1, r |-> 2, p |-> 3]
MCScryptCases ==
    {NoScrypt}
    \cup [kind : {"limits"}, ops : 0..80, mem : 0..200]
    \cup [kind : {"memory"}, r : 0..40, Ns : {0..33}, ps : {0..70}]
    \cup [kind : {"text"}, salt : [1..SALT_LEN -> Octal], params : {SomeParams}]
    \cup [kind : {"text"}, salt : {[i \in 1..SALT_LEN |-> 5]}, params : [N_log2 : 0..3, r : 0..15, p : 0..15]]
    \cup {[kind |-> "broken", salt |-> [i \in 1..SALT_LEN |-> 5], params |-> SomeParams, changes |-> ch] :
            ch \in UNION {[{i, j} -> {TextChar(0), TextChar(3), DOLLAR, NUL, <<"bad">>}] : i, j \in 1..STRBYTES}}
    \cup [kind : {"smix"}, N : {2, 4, 8, 16}]
    \cup [kind : {"pbkdf2"}, c : 1..3, dkLen : 0..7]

NoSocket == [kind |-> "none"]
Machines == [order : {<<V4, V6>>, <<V6, V4>>}, families : SUBSET {V4, V6}, reuseport : BOOLEAN, late : {0, 1, 6, 7},
             held : {{}} \cup {{[proto |-> p, family |-> f, addr |-> "any", v6only |-> TRUE, shared |-> FALSE]} :
                                p \in {"tcp", "udp"}, f \in {V4, V6}}]
HostLists ==
    {<<NoHost>>} \cup {<<h>> : h \in {V4, V6} \X {"any", "one"}}
    \cup {<<g, h>> : g, h \in {V4, V6} \X {"any", "one"}}
SockAddrs == [family : {V4, V6}, addr : 0..1, port : 0..2]
MCSocketCases ==
    {NoSocket}
    \cup {c \in [kind : {"listen"}, prog : {"server", "local", "tunnel", "redir", "udprelay", "manager"}, hosts : HostLists, machine : Machines] :
            /\ c.prog \notin {"server", "udprelay"} => Len(c.hosts) = 1
            /\ c.prog \in {"local", "tunnel", "redir"} => c.hosts # <<NoHost>>
            /\ Len(c.hosts) = 2 => c.hosts[1] # c.hosts[2]}
    \cup [kind : {"resolve"}, late : 0..8, block : BOOLEAN,
          result : UNION {[1..n -> [family : {V4, V6}, addr : 0..1]] : n \in 0..3}]
    \cup [kind : {"order"}, x : SockAddrs, y : SockAddrs, z : SockAddrs]
    \cup [kind : {"header"}, n : -1..4, family : {V4, V6}, cut : 1..9, stale : {<<"len", 0>>, <<"len", 5>>, <<"port", 1>>}]
    \cup [kind : {"protect"}, outcome : {"socket", "connect", "send", "recv", "mute", "answered"}]

NoText == [kind |-> "none"]
SeqsUpTo(S, n) == UNION {[1..k -> S] : k \in 0..n}
Members == [name : {"server_port"}, type : {"string", "integer"}, value : SeqsUpTo({"p"}, 3)]
    \cup [name : {"password"}, type : {"string", "other"}, value : SeqsUpTo({"q"}, 3)]
    \cup [name : {"unknown"}, type : {"string"}, value : {<<>>}]
MCTextCases ==
    {NoText}
    \cup [kind : {"command"}, msg : SeqsUpTo({"w", ":", " ", "{"}, 6)]
    \cup [kind : {"server"}, members : SeqsUpTo(Members, 3)]
    \cup [kind : {"ping"}, sizes : SeqsUpTo({6, 9, 18}, 6)]

NoDns == [kind |-> "none"]
UpTo(S, n) == UNION {[1..k -> S] : k \in 0..n}
LabelBytes(S, n) == UNION {{<<k>> \o l : l \in [1..k -> S]} : k \in 1..n}
Odd == {0, 9, DIGIT0 + 1, LOWER_A, DOT, BACKSLASH, BYTE - 1}
DnsNames == {l \o <<0>> : l \in LabelBytes(Odd, 3)} \cup {l \o m \o <<0>> : l, m \in LabelBytes(Odd, 2)}
    \cup {<<7>> \o [i \in 1..7 |-> 0] \o <<0>>, <<0>>, <<1, 0, 1, 0, 1, 0, 1, 0, 0>>}
PtodnTexts == UpTo({LOWER_A, DOT, BACKSLASH, DIGIT0, DIGIT0 + 3}, 5) \cup UpTo({LOWER_A, DOT}, 10)
Letters(n) == [i \in 1..n |-> LOWER_A]
na == <<1, LOWER_A, 0>>
nA == <<1, LETTER_A, 0>>
nb == <<1, UNDERSCORE, 0>>
nc == <<1, DIGIT0, 0>>
ToQuestion == <<DNS_MAXLABEL + 1, HSIZE>>
Rr(dn, typ, ttl, data) == dn \o <<typ, DNS_C_IN, ttl, Len(data)>> \o data
DnsPacket(n, typ, rrs) == <<0, n>> \o na \o <<typ, DNS_C_IN>> \o FlattenSeq(rrs)
AnyRr == [dn : {na, nA, nb, nc}, typ : {DNS_T_A}, target : {<<>>}]
    \cup [dn : {na, nb, nc}, typ : {DNS_T_CNAME}, target : {na, nb, nc}]
Chains == {[i \in DOMAIN l |-> [dn |-> l[i].dn, typ |-> l[i].typ, target |-> l[i].target, ttl |-> 1 + ((2 * i + Len(l[1].target)) % 5)]] :
             l \in UpTo(AnyRr, 3) \ {<<>>}}
OfChain(l) == [kind |-> "answer", qtyp |-> DNS_T_A, rrs |-> l,
    pkt |-> DnsPacket(Len(l), DNS_T_A,
                    [i \in DOMAIN l |-> Rr(IF l[i].dn = na THEN ToQuestion ELSE l[i].dn, l[i].typ, l[i].ttl,
                                           IF l[i].typ = DNS_T_A THEN <<i>> ELSE l[i].target)])]
DataOf(typ) ==
    CASE typ = DNS_T_A -> <<1>>
      [] typ = DNS_T_AAAA -> <<1, 2>>
      [] typ = DNS_T_PTR -> <<2, DOT, LOWER_A>> \o ToQuestion
      [] typ = DNS_T_MX -> <<1>> \o nc
      [] typ = DNS_T_SRV -> <<1, 2, 3>> \o ToQuestion
      [] typ = DNS_T_TXT -> <<1, 9, 0, 2, 9, 9>>
      [] typ = DNS_T_NAPTR -> <<1, 2, 1, 9, 0, 1, 9>> \o nb
Good(typ) == DnsPacket(3, typ, <<Rr(ToQuestion, DNS_T_CNAME, 1, nb), Rr(nb, typ, 2, DataOf(typ)), Rr(nb, typ, 3, DataOf(typ))>>)
Types == {DNS_T_A, DNS_T_AAAA, DNS_T_PTR, DNS_T_MX, DNS_T_SRV, DNS_T_TXT, DNS_T_NAPTR}
Damaged(typ) == {[Good(typ) EXCEPT ![i] = c] : i \in 8..Len(Good(typ)), c \in 0..BYTE - 1}
    \cup {SubSeq(Good(typ), 1, k) : k \in 7..Len(Good(typ))}
MCDnsCases ==
    {NoDns}
    \cup [kind : {"names"}, dn : DnsNames]
    \cup [kind : {"texts"}, text : PtodnTexts]
    \cup [kind : {"reverse"}, addr : [1..ADDR4 -> 0..BYTE - 1], list : {<<LOWER_A>>, <<LOWER_A, DOT, LETTER_A>>}]
    \cup [kind : {"service"}, name : {Letters(n) : n \in 1..7} \cup {<<LOWER_A, DOT, LOWER_A>>},
          srv : {NoName} \cup {Letters(n) : n \in 1..5}, proto : {NoName} \cup {Letters(n) : n \in 1..3}]
    \cup {OfChain(l) : l \in Chains}
    \cup UNION {[kind : {"answer"}, qtyp : {t}, rrs : {<<>>}, pkt : Damaged(t)] : t \in Types}

NoAddress == [kind |-> "none"]
TextsOf(S, n) == UNION {[1..k -> S] : k \in 0..n}
Joined(S, n) == {FlattenSeq(s) : s \in TextsOf(S, n)}
FourOctets == {<<1, PERIOD, 2, PERIOD, 3, PERIOD, 4>>, <<1, PERIOD, PERIOD, 3, PERIOD, 4>>, <<1, PERIOD, 2, PERIOD, 3>>,
               <<2, 5, 6, PERIOD, 2, PERIOD, 3, PERIOD, 4>>, <<1, PERIOD, 2, PERIOD, 3, PERIOD, 4, PERIOD, 5>>, <<1, PERIOD, 2, PERIOD, 3, PERIOD, 10>>}
MCAddressCases ==
    {NoAddress}
    \cup [kind : {"print6"}, words : [1..GROUPS -> {0, 1, 2570, 65535}]]
    \cup [kind : {"print4"}, octets : [1..4 -> {0, 9, 10, 99, 100, 255}]]
    \cup [kind : {"parse"}, text : TextsOf({1, COLON, PERIOD}, 7) \cup TextsOf({0, COLON}, 9)
                                   \cup Joined({<<1, COLON>>, <<COLON>>, <<15>>}, 7)
                                   \cup {p \o q : p \in Joined({<<1, COLON>>, <<COLON>>}, 5), q \in FourOctets}]

NoEnv == [servers |-> [set |-> FALSE, words |-> <<>>], localdomain |-> [set |-> FALSE, words |-> <<>>],
          options |-> <<>>, domain |-> [dn |-> <<>>]]
UcCase(kind, ops, n, most, until, conf, env) ==
    [kind |-> kind, ops |-> ops, calls |-> n, most |-> most, until |-> until, conf |-> conf, env |-> env,
     servers |-> {[fam |-> 4, addr |-> 2, port |-> 0], [fam |-> 6, addr |-> 3, port |-> 0], [fam |-> 0, addr |-> 0, port |-> 0]},
     names |-> {[dn |-> <<1, 5, 0>>], [dn |-> <<2, 5, 6, 0>>]}, values |-> {0, 600, 70000}]
NoUc == UcCase("none", {}, 0, 0, 0, <<>>, NoEnv)
ServText(fam, addr) == [fam |-> fam, addr |-> addr, port |-> 0]
Dn(cells) == [dn |-> cells]
OptWord(name, digits) == [name |-> name, digits |-> digits]
ConfLines ==
    [key : {"nameserver"}, words : {<<ServText(4, 2)>>, <<ServText(6, 3), ServText(4, 4)>>, <<ServText(0, 0)>>, <<>>}]
    \cup [key : {"search", "domain"}, words : {<<Dn(<<1, 5, 0>>)>>, <<Dn(<<1, 6, 0>>), Dn(<<1, 5, 0>>)>>, <<Dn(<<3, 5, 6, 7, 0>>), Dn(<<1, 5, 0>>)>>}]
    \cup [key : {"options"}, words : {<<OptWord("timeout", <<7>>), OptWord("ndots", <<9, 9, 9, 9, 9, 9>>)>>, <<OptWord("rotate", <<>>), OptWord("retrans", <<0>>), OptWord("port", <<>>)>>}]
    \cup [key : {"other"}, words : {<<>>}]
Envs ==
    {NoEnv, [NoEnv EXCEPT !.servers = [set |-> TRUE, words |-> <<ServText(4, 9)>>]],
     [NoEnv EXCEPT !.servers = [set |-> TRUE, words |-> <<ServText(0, 0), ServText(6, 3), ServText(4, 9), ServText(4, 8)>>]],
     [NoEnv EXCEPT !.localdomain = [set |-> TRUE, words |-> <<Dn(<<1, 9, 0>>)>>], !.domain = Dn(<<1, 8, 0>>)],
     [NoEnv EXCEPT !.options = <<OptWord("udpbuf", <<7, 7>>), OptWord("attempts", <<2>>)>>, !.domain = Dn(<<1, 8, 0>>)]}
MCUcCases ==
    {NoUc}
    \cup {UcCase("conf", {}, 0, 0, 0, conf, env) : conf \in UNION {[1..n -> ConfLines] : n \in 0..3}, env \in Envs}
    \cup {UcCase("api", {"init", "reset", "serv", "open", "close", "new", "free"}, 5, 0, 0, <<[key |-> "nameserver", words |-> <<ServText(4, 2)>>]>>, NoEnv),
          UcCase("api", {"reset", "srch", "opts", "opt", "open", "close"}, 4, 0, 0, <<>>, [NoEnv EXCEPT !.options = <<OptWord("timeout", <<9, 9, 9>>), OptWord("ndots", <<3>>)>>]),
          UcCase("api", {"submit", "timeouts", "close", "open", "new", "tmcbck"}, 4, 2, 2, <<>>, NoEnv),
          UcCase("api", {"submit", "timeouts", "cancel", "resolve"}, 4, 3, 2, <<>>, NoEnv),
          UcCase("api", {"submit", "timeouts", "clash"}, 3, 2, 2, <<>>, NoEnv)}

EncInit ==
    /\ part \in {"stream", "datagram", "setup", "json", "boot", "random", "utils", "hash", "box", "scrypt", "sock", "text", "dns", "address", "udns"}
    /\ setup \in IF part = "setup" THEN Setups ELSE {IdleSetup}
    /\ json \in IF part = "json" THEN JsonInputs ELSE {NoJson}
    /\ boot \in IF part = "boot" THEN Boots ELSE {NoBoot}
    /\ IF part = "datagram" THEN TRUE ELSE dgWorld = IdleDg
    /\ DgInit
    /\ part # "stream" => method = "table"
    /\ SealedInit
    /\ rngCase \in IF part = "random" THEN RngCases ELSE {NoRng}
    /\ RngStart
    /\ suCase \in IF part = "utils" THEN SuCases ELSE {NoUtils}
    /\ block = NoBlock
    /\ hashCase \in IF part = "hash" THEN HashCases ELSE {NoHash}
    /\ HashStart
    /\ boxCase \in IF part = "box" THEN BoxCases ELSE {NoBox}
    /\ BoxStart
    /\ scryptCase \in IF part = "scrypt" THEN ScryptCases ELSE {NoScrypt}
    /\ sockCase \in IF part = "sock" THEN SocketCases ELSE {NoSocket}
    /\ textCase \in IF part = "text" THEN TextCases ELSE {NoText}
    /\ dnsCase \in IF part = "dns" THEN DnsCases ELSE {NoDns}
    /\ addrCase \in IF part = "address" THEN AddressCases ELSE {NoAddress}
    /\ ucCase \in IF part = "udns" THEN UcCases ELSE {NoUc}
    /\ UcStart

EncNext ==
    \/ part = "stream" /\ Next /\ UNCHANGED <<dgVars, inputs, rng_vars, su_vars, hash_vars, box_vars, uc_vars, part>>
    \/ part = "datagram" /\ DgNext /\ UNCHANGED <<chunks, cipher, inputs, rng_vars, su_vars, hash_vars, box_vars, uc_vars, part>>
    \/ part = "random" /\ RngNext /\ UNCHANGED <<chunks, cipher, dgVars, inputs, su_vars, hash_vars, box_vars, uc_vars, part>>
    \/ part = "utils" /\ SuNext /\ UNCHANGED <<chunks, cipher, dgVars, inputs, rng_vars, hash_vars, box_vars, uc_vars, part>>
    \/ part = "hash" /\ HashNext /\ UNCHANGED <<chunks, cipher, dgVars, inputs, rng_vars, su_vars, box_vars, uc_vars, part>>
    \/ part = "box" /\ BoxNext /\ UNCHANGED <<chunks, cipher, dgVars, inputs, rng_vars, su_vars, hash_vars, uc_vars, part>>
    \/ part = "udns" /\ UcNext /\ UNCHANGED <<chunks, cipher, dgVars, inputs, rng_vars, su_vars, hash_vars, box_vars, part>>

EncSpec == EncInit /\ [][EncNext]_encVars

\* libsodium's boxes, hashes, memory helpers and random numbers do what their
\* documentation promises.
SodiumSound == HashesSound /\ CoreSound
=============================================================================
