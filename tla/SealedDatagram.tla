---------------------------- MODULE SealedDatagram ----------------------------
(***************************************************************************)
(* A datagram and its reply on the way between the UDP relays of a local   *)
(* program and of ss-server (ss_encrypt_all and ss_decrypt_all of          *)
(* encrypt.c, with the header of remote_recv_cb and server_recv_cb of      *)
(* udprelay.c).                                                            *)
(*                                                                         *)
(* A datagram is the flag and the kind of its address, its payload, and    *)
(* how long it is.  An authentication code is what it was computed from,   *)
(* and no other value passes for it.  The network may change a datagram.   *)
(***************************************************************************)
EXTENDS Naturals

CONSTANTS
    IV_LEN,             \* enc_iv_len
    DG_AUTH_BYTES,      \* ONETIMEAUTH_BYTES
    MAX_UDP_PACKET_SIZE, \* the capacity the relay passes
    DgWorlds            \* how the two ends are set up, and what is sent

ASSUME DgAssumption ==
    /\ IV_LEN \in Nat /\ DG_AUTH_BYTES \in Nat /\ MAX_UDP_PACKET_SIZE \in Nat
    /\ \A w \in DgWorlds :
          /\ w.auth \in BOOLEAN /\ w.strict \in BOOLEAN
          /\ w.lens \subseteq Nat \ {0} /\ w.datagrams \in Nat

VARIABLES
    dgWorld,        \* method: "table" or another; auth: of the local program;
                    \* strict: server_ctx->auth of ss-server before it receives
                    \* anything; dests, lens: of the datagrams
    dgAuth,         \* server_ctx->auth of ss-server
    dgStep,         \* how far the datagram is
    dgSent,         \* the datagram the local program received
    dgWire,         \* what is on the wire
    dgAltered,      \* the network has changed it
    dgHeader,       \* remote_ctx->addr_header and remote_ctx->af of ss-server
    dgGot,          \* what the receiver decrypted
    tmp,            \* the capacities of the buffers ss_encrypt_all and ss_decrypt_all keep
    dgFits,         \* history: everything was written inside its buffer
    datagrams       \* history: datagrams sent

dgVars == <<dgWorld, dgAuth, dgStep, dgSent, dgWire, dgAltered, dgHeader, dgGot, tmp, dgFits,
            datagrams>>

Nothing == [flag |-> FALSE, dest |-> "none", data |-> "none", len |-> 0]
NoTag == [iv |-> 0, of |-> Nothing]
NoDatagram == [iv |-> 0, plain |-> Nothing, tag |-> NoTag, len |-> 0]

brealloc_to(capacity, len) ==
    LET real_capacity == IF len > MAX_UDP_PACKET_SIZE THEN len ELSE MAX_UDP_PACKET_SIZE
    IN  IF capacity < real_capacity THEN real_capacity ELSE capacity

ivLen == IF dgWorld.method = "table" THEN 0 ELSE IV_LEN

-----------------------------------------------------------------------------
(* encrypt.c.                                                              *)

ss_onetimeauth(plain, iv) == [iv |-> iv, of |-> plain]

\* Mutant: a datagram without a code is not noticed.
ss_onetimeauth_verify_lax(d) == d.tag = NoTag \/ d.tag = ss_onetimeauth(d.plain, d.iv)

ss_onetimeauth_verify(d) == d.tag = ss_onetimeauth(d.plain, d.iv)

\* The room there is for what is encrypted.
Room(plain) == brealloc_to(tmp.enc, ivLen + plain.len)

\* plain, encrypted with a fresh IV; with "table" there is none.
ss_encrypt_all(plain, auth, fresh) ==
    LET sealed == dgWorld.method # "table"
        tagged == sealed /\ auth
        len == ivLen + plain.len + IF tagged THEN DG_AUTH_BYTES ELSE 0
        iv == IF sealed THEN fresh ELSE 0
    IN  /\ dgWire' = [iv |-> iv, plain |-> plain, len |-> len,
                      tag |-> IF tagged THEN ss_onetimeauth(plain, iv) ELSE NoTag]
        /\ tmp' = IF sealed THEN [tmp EXCEPT !.enc = Room(plain)] ELSE tmp
        /\ dgFits' = (dgFits /\ (sealed => len <= Room(plain)))

MustVerify(d, auth) == auth \/ d.plain.flag

\* A code nobody looks for is part of the payload.
Unverified(d) == IF d.tag = NoTag THEN d.plain ELSE [d.plain EXCEPT !.len = @ + DG_AUTH_BYTES]

\* What the receiver of d decrypts it to, or Nothing when it is dropped.
ss_decrypt_all(d, auth) ==
    IF dgWorld.method = "table" THEN d.plain
    ELSE IF d.len <= IV_LEN THEN Nothing
    ELSE IF ~MustVerify(d, auth) THEN Unverified(d)
    ELSE IF d.len - IV_LEN > DG_AUTH_BYTES /\ ss_onetimeauth_verify(d) THEN d.plain
    ELSE Nothing

Decrypted(step, dropped, auth) ==
    LET got == ss_decrypt_all(dgWire, auth) IN
    /\ dgGot' = got
    /\ dgStep' = IF got = Nothing THEN dropped ELSE step
    /\ tmp' = IF dgWorld.method = "table" THEN tmp ELSE [tmp EXCEPT !.dec = brealloc_to(tmp.dec, dgWire.len)]
    /\ dgFits' = (dgFits /\ (dgWorld.method # "table" => dgWire.len - ivLen <= tmp'.dec))
    /\ UNCHANGED <<dgWorld, dgSent, dgAltered, datagrams>>

-----------------------------------------------------------------------------
(* udprelay.c.                                                             *)

\* server_recv_cb of the local program.
Request(dest, len) ==
    LET plain == [flag |-> dgWorld.auth, dest |-> dest, data |-> "request", len |-> len] IN
    /\ dgStep \in {"idle", "refused", "delivered", "lost"} /\ datagrams < dgWorld.datagrams
    /\ datagrams' = datagrams + 1
    /\ dgSent' = plain
    /\ ss_encrypt_all(plain, dgWorld.auth, 2 * datagrams + 1)
    /\ dgStep' = "requested" /\ dgGot' = Nothing /\ dgAltered' = FALSE
    /\ UNCHANGED <<dgWorld, dgAuth, dgHeader>>

Garbled(plain, flag) == [plain EXCEPT !.data = "altered", !.flag = flag]

\* The network changes the request: its IV and so all of it, its payload, its flag,
\* whose absence makes the code part of the payload, where it ends, or its code.
Alter ==
    /\ dgStep = "requested" /\ ~dgAltered
    /\ \/ \E flag \in BOOLEAN : dgWire' = [dgWire EXCEPT !.iv = 0, !.plain = Garbled(@, flag)]
       \/ \E flag \in BOOLEAN : dgWire' = [dgWire EXCEPT !.plain = Garbled(@, flag)]
       \/ dgWire' = [dgWire EXCEPT !.tag = NoTag, !.len = @ - 1,
                                   !.plain = Garbled(@, dgWire.plain.flag)]
       \/ dgWire.tag # NoTag /\ dgWire' = [dgWire EXCEPT !.tag = NoTag]
    /\ dgAltered' = TRUE
    /\ UNCHANGED <<dgWorld, dgAuth, dgStep, dgSent, dgHeader, dgGot, tmp, dgFits, datagrams>>

\* server_recv_cb of ss-server, with parse_udprealy_header: the header of a name is
\* kept as it came, flag and all.
Accept ==
    /\ dgStep = "requested"
    /\ Decrypted("accepted", "refused", dgAuth)
    /\ dgHeader' = [flag |-> dgGot'.flag, dest |-> dgGot'.dest]
    /\ dgAuth' = (dgAuth \/ dgGot'.flag)
    /\ UNCHANGED dgWire

\* The header remote_recv_cb of ss-server puts before a reply.
ReplyHeader(h) == IF h.dest = "name" THEN h ELSE [h EXCEPT !.flag = FALSE]

Reply(len) ==
    LET h == ReplyHeader(dgHeader) IN
    /\ dgStep = "accepted"
    /\ dgStep' = "replied"
    /\ ss_encrypt_all([flag |-> h.flag, dest |-> h.dest, data |-> "reply", len |-> len], FALSE,
                      2 * datagrams)
    /\ UNCHANGED <<dgWorld, dgAuth, dgSent, dgAltered, dgHeader, dgGot, datagrams>>

\* remote_recv_cb of the local program.
Deliver ==
    /\ dgStep = "replied"
    /\ Decrypted("delivered", "lost", FALSE)
    /\ UNCHANGED <<dgAuth, dgHeader, dgWire>>

DgInit ==
    /\ dgWorld \in DgWorlds /\ dgAuth = dgWorld.strict
    /\ dgStep = "idle" /\ dgSent = Nothing /\ dgWire = NoDatagram /\ dgAltered = FALSE
    /\ dgHeader = [flag |-> FALSE, dest |-> "none"] /\ dgGot = Nothing
    /\ tmp = [enc |-> 0, dec |-> 0] /\ dgFits = TRUE /\ datagrams = 0

DgNext ==
    \/ Alter \/ Accept \/ Deliver
    \/ \E len \in dgWorld.lens : Reply(len) \/ \E dest \in {"ip", "name"} : Request(dest, len)

DgSpec == DgInit /\ [][DgNext]_dgVars

-----------------------------------------------------------------------------
(* What is claimed.                                                        *)

\* ss-server takes what the local program sent, to the byte, authenticated or not,
\* unless the datagram was changed, or ss-server asks for codes and there is none.
RequestIsTaken ==
    dgStep \in {"accepted", "refused"} /\ ~dgAltered =>
        IF dgStep = "accepted" THEN dgGot = dgSent ELSE dgAuth /\ ~dgWorld.auth

\* Once ss-server has asked for codes, or was told to, it takes nothing from a local
\* program that sends them but what it sent: no changed, cut or unflagged datagram.
OnlyAuthentic ==
    dgStep = "accepted" /\ (dgWorld.strict \/ dgWire.plain.flag) /\ dgWorld.method # "table" =>
        dgGot = dgSent /\ dgWorld.auth

\* Replies carry no code, and reach the client all the same.
RepliesArrive == dgStep # "lost"

\* They do, unless the request was for a name and had a code.
RepliesArriveToAddresses == dgStep = "lost" => dgHeader.dest = "name" /\ dgHeader.flag

\* Nothing is written past the end of a buffer, by datagrams whose code leaves the
\* encrypted datagram within the capacity of the relay.
WritesFit ==
    (\A len \in dgWorld.lens : dgWorld.auth => ivLen + len + DG_AUTH_BYTES <= MAX_UDP_PACKET_SIZE) => dgFits

\* Datagrams that ss_encrypt_all made are taken and no others, replies to
\* addresses arrive, and nothing is written behind a buffer.
DatagramsSound == RequestIsTaken /\ OnlyAuthentic /\ RepliesArriveToAddresses /\ WritesFit
=============================================================================
