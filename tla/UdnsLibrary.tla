---------------------------- MODULE UdnsLibrary -----------------------------
(***************************************************************************)
(* libudns: names and messages, the text of addresses (there and in        *)
(* libcork), the resolver's context and its queries.                       *)
(***************************************************************************)
EXTENDS Integers, Sequences, SequencesExt, FiniteSetsExt, FiniteSets

(***************************************************************************)
(* Domain names and DNS answers as libudns reads and writes them           *)
(* (libudns/udns_dn.c, udns_parse.c, udns_rr_*.c, udns_bl.c).              *)
(*                                                                         *)
(* Bytes have BYTE values instead of 256 and keep what the code tells      *)
(* apart: the two top bits of a length byte mean a jump, escapes are three *)
(* digits to the base TEN.  A header, the question's type and class, and  *)
(* the fields of a record are one cell each, and the header is HSIZE cells *)
(* of which the last is the number of answers.  A name is the sequence of  *)
(* its bytes, the zero at the end included; offsets in a message start     *)
(* at 0, as the pointers of the code do.                                   *)
(***************************************************************************)

CONSTANTS
    BYTE, TEN,         \* values of a byte; of a decimal digit
    DNS_MAXDN, DNS_MAXNAME, HSIZE,
    JUMPS,              \* the loop counter of dns_getdn
    ADDR4, ADDR6,       \* bytes of an address
    DnsCases

ASSUME DnsMessageAssumption ==
    {BYTE, TEN, DNS_MAXDN, DNS_MAXNAME, HSIZE, JUMPS, ADDR4, ADDR6} \subseteq Nat \ {0}

VARIABLE dnsCase        \* the input: kind "names", "texts", "answer", "reverse" or "service"

dns_vars == <<dnsCase>>

\* The characters of names.
DNS_MAXLABEL == (BYTE \div 4) - 1
DIGIT0 == BYTE \div 4 + 4
LETTER_A == DIGIT0 + TEN
LOWER_A == LETTER_A + 1
DOT == LOWER_A + 1
BACKSLASH == DOT + 1
DOLLAR_SIGN == BACKSLASH + 1
UNDERSCORE == DOLLAR_SIGN + 1
Unprintable(c) == c < DIGIT0 \/ c > UNDERSCORE
Digit(c) == c \in DIGIT0..DIGIT0 + TEN - 1
DNS_DNLC(c) == IF c = LETTER_A THEN LOWER_A ELSE c

-----------------------------------------------------------------------------
(* Domain names.                                                           *)

\* From the offset d on.
RECURSIVE dns_dnlen(_, _)
dns_dnlen(dn, d) == IF dn[d + 1] = 0 THEN d + 1 ELSE dns_dnlen(dn, d + 1 + dn[d + 1])

\* The lengths are compared as they are, the characters in lower case.
dns_dnequal(dn1, dn2) ==
    Len(dn1) = Len(dn2) /\ \A i \in DOMAIN dn1 :
        \/ dn1[i] = dn2[i]
        \/ DNS_DNLC(dn1[i]) = DNS_DNLC(dn2[i])

\* The loop of dns_ptodn: np, the text read; out, what is in dn; llab, the place of
\* the length of the label; r, 1 as long as nothing is wrong.
PtodnStart == [np |-> 0, out |-> <<0>>, llab |-> 1, r |-> 1]

\* dp >= de.
dp_at_end(s, de) == Len(s.out) >= de - 1

\* The end of a label: its length, its place.
SetLabel(s) == [s.out EXCEPT ![s.llab] = Len(s.out) - s.llab]

\* The value of an escape at np and the number of its characters.
Escape(name, np) ==
    LET Of(digits) ==
            IF digits = 0 THEN [c |-> name[np + 1], n |-> 1]
            ELSE [c |-> FoldLeft(LAMBDA acc, d : acc * TEN + d - DIGIT0, 0, SubSeq(name, np + 1, np + digits)),
                  n |-> digits]
    IN  Of(Max({k \in 0..3 : np + k <= Len(name) /\ \A j \in 1..k : Digit(name[np + j])}))

RECURSIVE PtodnLoop(_, _, _)
PtodnLoop(name, dnsiz, s) ==
    LET de == IF dnsiz >= DNS_MAXDN THEN DNS_MAXDN ELSE dnsiz
        c == name[s.np + 1]
        len == Len(s.out) - s.llab
        Byte1(b, n) == PtodnLoop(name, dnsiz, [s EXCEPT !.np = @ + n, !.out = Append(@, b)])
        Escaped1(e) == IF e.n = 3 /\ e.c >= BYTE THEN [s EXCEPT !.r = -1] ELSE Byte1(e.c, e.n + 1)
    IN  IF s.np = Len(name) THEN s
        ELSE IF c = DOT THEN
            IF len = 0 THEN IF s.np = 0 /\ Len(name) = 1 THEN [s EXCEPT !.np = 1] ELSE [s EXCEPT !.r = -1]
            ELSE IF len > DNS_MAXLABEL THEN [s EXCEPT !.r = -1]
            ELSE PtodnLoop(name, dnsiz, [s EXCEPT !.np = @ + 1, !.out = Append(SetLabel(s), 0), !.llab = Len(s.out) + 1])
        ELSE IF dp_at_end(s, de) THEN [s EXCEPT !.r = IF dnsiz >= DNS_MAXDN THEN -1 ELSE 0]
        ELSE IF c # BACKSLASH THEN Byte1(c, 1)
        ELSE IF s.np + 1 = Len(name) THEN [s EXCEPT !.r = -1]
        ELSE Escaped1(Escape(name, s.np + 1))

\* r is the length of dn, 0 (no room) or -1; abs, whether the name ends in a dot. The
\* bytes of an unfinished name are in dn too.
PtodnDone(s, dnsiz) ==
    LET len == Len(s.out) - s.llab
    IN  IF dnsiz = 0 THEN [r |-> 0, dn |-> <<>>, abs |-> FALSE]
        ELSE IF s.r # 1 THEN [r |-> s.r, dn |-> s.out, abs |-> FALSE]
        ELSE IF len > DNS_MAXLABEL THEN [r |-> -1, dn |-> s.out, abs |-> FALSE]
        ELSE IF len # 0 THEN [r |-> Len(s.out) + 1, dn |-> Append(SetLabel(s), 0), abs |-> FALSE]
        ELSE [r |-> Len(s.out), dn |-> s.out, abs |-> TRUE]
dns_ptodn(name, dnsiz) == PtodnDone(PtodnLoop(name, dnsiz, PtodnStart), dnsiz)

\* How a byte of a name is written.
Escaped(c) ==
    IF c \in {DOT, BACKSLASH, DOLLAR_SIGN} THEN <<BACKSLASH, c>>
    ELSE IF Unprintable(c) THEN <<BACKSLASH, DIGIT0 + (c \div (TEN * TEN)), DIGIT0 + ((c \div TEN) % TEN), DIGIT0 + (c % TEN)>>
    ELSE <<c>>

\* From the offset d on; size is what is counted so far.
RECURSIVE DntopSize(_, _, _)
DntopSize(dn, d, size) ==
    IF dn[d + 1] = 0 THEN size + 1
    ELSE DntopSize(dn, d + 1 + dn[d + 1],
                   (IF size = 0 THEN 0 ELSE size + 1)
                     + FoldLeft(LAMBDA n, c : n + (IF c \in {DOT, BACKSLASH, DOLLAR_SIGN} THEN 2 ELSE IF Unprintable(c) THEN 4 ELSE 1),
                                0, SubSeq(dn, d + 2, d + 1 + dn[d + 1])))

dns_dntop_size(dn) == LET AtMost(size) == IF size > DNS_MAXNAME THEN 0 ELSE size IN AtMost(DntopSize(dn, 0, 0))

\* There is room for esc behind np characters: an escape of four leaves some.
DntopRoom(np, esc, namesiz) == IF Len(esc) = 4 THEN np + 4 < namesiz ELSE np + Len(esc) <= namesiz

\* The characters from the offset d on, behind np of them; <<-1>> for too long.
RECURSIVE DntopLoop(_, _, _, _)
DntopLoop(dn, d, text, namesiz) ==
    LET PutAll(acc, esc) == IF acc = <<-1>> \/ ~DntopRoom(Len(acc), esc, namesiz) THEN <<-1>> ELSE acc \o esc
        dotted == IF text = <<>> THEN text ELSE PutAll(text, <<DOT>>)
    IN  IF text = <<-1>> THEN text
        ELSE IF dn[d + 1] = 0 THEN PutAll(text, <<0>>)
        ELSE DntopLoop(dn, d + 1 + dn[d + 1],
                       FoldLeft(LAMBDA acc, c : PutAll(acc, Escaped(c)), dotted, SubSeq(dn, d + 2, d + 1 + dn[d + 1])), namesiz)

\* The text, its zero included, and what is returned.
dns_dntop(dn, namesiz) ==
    LET Done(text) == IF text = <<-1>> THEN [text |-> <<>>, r |-> IF namesiz >= DNS_MAXNAME THEN -1 ELSE 0]
                      ELSE [text |-> text, r |-> Len(text)]
    IN  Done(DntopLoop(dn, 0, <<>>, namesiz))

-----------------------------------------------------------------------------
(* Names made of addresses and of other names.                             *)

DecimalLabel(n) ==
    LET digits == IF n >= TEN * TEN THEN <<n \div (TEN * TEN), (n % (TEN * TEN)) \div TEN, n % TEN>>
                  ELSE IF n >= TEN THEN <<n \div TEN, n % TEN>> ELSE <<n>>
    IN  <<Len(digits)>> \o [i \in DOMAIN digits |-> DIGIT0 + digits[i]]

Refused4 == <<-1>>

\* The last byte first.  The test allows a label to end one cell behind the size cells of the buffer.
dns_a4todn_(addr, size) ==
    FoldLeft(LAMBDA dn, n : IF dn = Refused4 \/ Len(dn) + Len(DecimalLabel(n)) - 1 > size THEN Refused4
                            ELSE dn \o DecimalLabel(n), <<>>, Reverse(addr))

inaddr_arpa == <<1, LOWER_A, 0>>         \* dns_inaddr_arpa_dn, dns_ip6_arpa_dn

Capped(dnsiz) == IF dnsiz > DNS_MAXDN THEN DNS_MAXDN ELSE dnsiz
Overlong(dnsiz) == IF dnsiz >= DNS_MAXDN THEN -1 ELSE 0

\* The name p of an address, or Refused4, followed by the name tdn.
WithTail(p, tdn, dnsiz) ==
    IF p = Refused4 THEN [r |-> 0, dn |-> <<>>]
    ELSE IF Len(p) + Len(tdn) > Capped(dnsiz) THEN [r |-> Overlong(dnsiz), dn |-> p]
    ELSE [r |-> Len(p) + Len(tdn), dn |-> p \o tdn]

dns_a4todn(addr, dnsiz) == WithTail(dns_a4todn_(addr, Capped(dnsiz)), inaddr_arpa, dnsiz)

\* The name p followed by the text tname.  What dns_sptodn returns is returned: the
\* length of the tail, not of the whole.
WithText(p, tname, dnsiz) ==
    LET Then(t) == [r |-> IF t.r # 0 THEN t.r ELSE Overlong(dnsiz), dn |-> p \o t.dn]
    IN  IF p = Refused4 THEN [r |-> 0, dn |-> <<>>] ELSE Then(dns_ptodn(tname, dnsiz - Len(p)))

dns_a4ptodn(addr, tname, dnsiz) == WithText(dns_a4todn_(addr, dnsiz), tname, dnsiz)

\* The two digits of a byte, a label each, the low one first: here of base TEN.
HexLabels(n) == <<1, DIGIT0 + (n % TEN), 1, DIGIT0 + ((n \div TEN) % TEN)>>

dns_a6todn_(addr, size) ==
    IF 4 * ADDR6 > size THEN Refused4 ELSE FoldLeft(LAMBDA dn, n : dn \o HexLabels(n), <<>>, Reverse(addr))

dns_a6todn(addr, dnsiz) == WithTail(dns_a6todn_(addr, Capped(dnsiz)), inaddr_arpa, dnsiz)

dns_a6ptodn(addr, tname, dnsiz) == WithText(dns_a6todn_(addr, dnsiz), tname, dnsiz)

\* One label with an underscore before it; <<>> when sn is not one label.
add_sname(sn) ==
    LET Label(t) == IF t.r <= 1 \/ t.r - 2 # t.dn[1] THEN <<>> ELSE <<t.r - 1, UNDERSCORE>> \o SubSeq(t.dn, 2, t.r - 1)
    IN  Label(dns_ptodn(sn, DNS_MAXLABEL - 1))

NoName == <<-1>>        \* a null srv or proto

\* r is negative for a malformed query; a name without room (0) is not noticed.
build_srv_dn(name, srv, proto) ==
    LET Name(sn) == IF sn = NoName THEN <<>> ELSE add_sname(sn)
        Joined(s, q, t) ==
            IF (srv # NoName /\ s = <<>>) \/ (proto # NoName /\ q = <<>>) \/ t.r < 0 THEN [r |-> -1, dn |-> <<>>]
            ELSE [r |-> IF t.abs THEN 1 ELSE 0, dn |-> s \o q \o t.dn]
        Behind(s, q) == Joined(s, q, dns_ptodn(name, DNS_MAXDN - Len(s) - Len(q)))
    IN  Behind(Name(srv), Name(proto))

\* The second name starts at the zero of the first.
dns_rhsbltodn(name, rhsbl) ==
    LET Joined(n, l) == IF n.r <= 0 \/ l.r <= 0 THEN <<>> ELSE SubSeq(n.dn, 1, n.r - 1) \o l.dn
        Behind(n) == Joined(n, dns_ptodn(rhsbl, DNS_MAXDN - n.r + 1))
    IN  Behind(dns_ptodn(name, DNS_MAXDN))

BADQUERY == [dn |-> <<>>, typ |-> 0]

\* The queries of black lists: for an address, or for a name, below the name of the list.
Submitted(t, typ) == IF t.r <= 0 THEN BADQUERY ELSE [dn |-> t.dn, typ |-> typ]
dns_submit_a4dnsbl(addr, dnsbl, typ) == Submitted(dns_a4ptodn(addr, dnsbl, DNS_MAXDN), typ)
dns_submit_a6dnsbl(addr, dnsbl, typ) == Submitted(dns_a6ptodn(addr, dnsbl, DNS_MAXDN), typ)
dns_submit_rhsbl(name, rhsbl, typ) ==
    LET Of(dn) == Submitted([r |-> Len(dn), dn |-> dn], typ) IN Of(dns_rhsbltodn(name, rhsbl))

-----------------------------------------------------------------------------
(* Messages.                                                               *)

Cell(pkt, i) == pkt[i + 1]

\* c & 192, and the offset jumped to.
Jump(c) == c > DNS_MAXLABEL
JumpTo(c, low) == (c % (DNS_MAXLABEL + 1)) * BYTE + low

NotAName(r, inside) == [r |-> r, dn |-> <<>>, cur |-> 0, inside |-> inside]

\* pp + c <= end.
label_fits(pkt, pp, c) == pp + c <= Len(pkt)

\* The loop of dns_getdn: pp, the offset; dn, the name so far; jump, the offset behind
\* the first jump, or -1; loop, the jumps left.  inside tells whether every cell that
\* was read is one of the message.
RECURSIVE GetdnLoop(_, _, _, _, _)
GetdnLoop(pkt, pp, dn, jump, loop) ==
    LET c == Cell(pkt, pp) IN
        IF pp >= Len(pkt) THEN NotAName(-1, TRUE)
        ELSE IF c = 0 THEN [r |-> Len(dn) + 1, dn |-> Append(dn, 0), cur |-> IF jump # -1 THEN jump ELSE pp + 1, inside |-> TRUE]
        ELSE IF Jump(c) THEN
            IF pp + 1 >= Len(pkt) \/ (jump # -1 /\ loop = 1) \/ JumpTo(c, Cell(pkt, pp + 1)) < HSIZE THEN NotAName(-1, TRUE)
            ELSE GetdnLoop(pkt, JumpTo(c, Cell(pkt, pp + 1)), dn, IF jump # -1 THEN jump ELSE pp + 2,
                           IF jump # -1 THEN loop - 1 ELSE loop)
        ELSE IF ~label_fits(pkt, pp + 1, c) THEN NotAName(-1, TRUE)
        ELSE IF Len(dn) + c + 1 > DNS_MAXDN THEN NotAName(-1, TRUE)
        ELSE IF pp + 1 + c > Len(pkt) THEN NotAName(-1, FALSE)
        ELSE GetdnLoop(pkt, pp + 1 + c, dn \o SubSeq(pkt, pp + 1, pp + 1 + c), jump, loop)

\* dns_getdn with a buffer of DNS_MAXDN cells.  The zero at the end is written without
\* a look at the room that is left (the code compares the start of dn with its end).
dns_getdn(pkt, cur) == GetdnLoop(pkt, cur, <<>>, -1, JUMPS)

\* The offset behind the name at cur, or -1; a jump must not be the last of the message.
RECURSIVE dns_skipdn(_, _)
dns_skipdn(pkt, cur) ==
    IF cur >= Len(pkt) THEN -1
    ELSE LET c == Cell(pkt, cur) IN
         IF c = 0 THEN cur + 1
         ELSE IF Jump(c) THEN IF cur + 2 >= Len(pkt) THEN -1 ELSE cur + 2
         ELSE dns_skipdn(pkt, cur + 1 + c)

\* The fields of a record at cur: type, class, ttl and the size of its data.
FIXED == 4
DNS_T_A == 1
DNS_T_AAAA == 2
DNS_T_CNAME == 3
DNS_T_PTR == 4
DNS_T_MX == 5
DNS_T_SRV == 6
DNS_T_TXT == 7
DNS_T_NAPTR == 8
DNS_C_IN == 1
TTL_MAX == BYTE

dns_numan(pkt) == pkt[HSIZE]
dns_payload(pkt) == SubSeq(pkt, HSIZE + 1, dns_dnlen(pkt, HSIZE))

\* struct dns_parse after dns_initparse or dns_rewind; at is where the answers start.
dns_initparse(qdn, pkt, at) ==
    [qdn |-> qdn, cur |-> at, rrl |-> dns_numan(pkt), ttl |-> TTL_MAX, nrr |-> 0, followed |-> FALSE]

Lower(x, y) == IF x > y THEN y ELSE x

\* The record is the alias of the name looked for, and there was none of its own.
follows(p, rr) == rr.typ = DNS_T_CNAME /\ p.nrr = 0

\* r is 1, 0 (no more) or -1; rr the record.
RECURSIVE dns_nextrr(_, _, _)
\* The record rr of p, whose data, read as a name, is alias.
NextOf(pkt, qtyp, p, rr, alias) ==
    LET next == [p EXCEPT !.rrl = @ - 1, !.cur = rr.dend]
    IN  IF ~dns_dnequal(p.qdn, rr.dn) THEN dns_nextrr(pkt, qtyp, next)
        ELSE IF rr.cls = DNS_C_IN /\ rr.typ = qtyp
             THEN [r |-> 1, p |-> [next EXCEPT !.nrr = @ + 1, !.ttl = Lower(@, rr.ttl)], rr |-> rr]
        ELSE IF ~follows(p, rr) THEN dns_nextrr(pkt, qtyp, next)
        ELSE IF alias.r <= 0 \/ alias.cur # rr.dend THEN [r |-> -1, p |-> p, rr |-> <<>>]
        ELSE dns_nextrr(pkt, qtyp, [next EXCEPT !.qdn = alias.dn, !.followed = TRUE, !.ttl = Lower(@, rr.ttl)])
\* The record of p whose owner is read.
NextRecord(pkt, qtyp, p, owner) ==
    LET at == owner.cur
        rr == [dn |-> owner.dn, typ |-> Cell(pkt, at), cls |-> Cell(pkt, at + 1), ttl |-> Cell(pkt, at + 2),
               dptr |-> at + FIXED, dend |-> at + FIXED + Cell(pkt, at + 3)]
    IN  IF owner.r <= 0 \/ at + FIXED > Len(pkt) \/ rr.dend > Len(pkt) THEN [r |-> -1, p |-> p, rr |-> <<>>]
        ELSE NextOf(pkt, qtyp, p, rr, dns_getdn(pkt, rr.dptr))
dns_nextrr(pkt, qtyp, p) ==
    IF p.rrl = 0 THEN [r |-> 0, p |-> p, rr |-> <<>>] ELSE NextRecord(pkt, qtyp, p, dns_getdn(pkt, p.cur))

-----------------------------------------------------------------------------
(* The answers to a query: how much memory the result takes, and how much  *)
(* of it is written.  What comes before the names and data, a structure    *)
(* for each record, takes as much in both and is left out.                 *)

\* Every record that dns_nextrr gives.
RECURSIVE Records(_, _, _, _)
Records(pkt, qtyp, n, rrs) ==
    IF n.r = 1 THEN Records(pkt, qtyp, dns_nextrr(pkt, qtyp, n.p), Append(rrs, n.rr)) ELSE [r |-> n.r, p |-> n.p, rrs |-> rrs]

\* Where the answers start: behind the name, type and class of the question.
AnswersAt(pkt) == dns_dnlen(pkt, HSIZE) + 2

AllRecords(pkt, qtyp) ==
    Records(pkt, qtyp, dns_nextrr(pkt, qtyp, dns_initparse(dns_payload(pkt), pkt, AnswersAt(pkt))), <<>>)

dns_stdrr_size(pkt, p) ==
    dns_dntop_size(p.qdn) + (IF p.followed THEN dns_dntop_size(dns_payload(pkt)) ELSE 0)

\* The characters dns_stdrr_finish writes.
dns_stdrr_finish(pkt, p) ==
    dns_dntop(p.qdn, DNS_MAXNAME).r + (IF p.followed THEN dns_dntop(dns_payload(pkt), DNS_MAXNAME).r ELSE 0)

Sizes(rrs, Size(_)) == FoldLeft(LAMBDA n, rr : n + Size(rr), 0, rrs)

\* What all of them do: refuse a message with a record that is not Valid, and then
\* make room for every Size and write every Written.
ParseRecords(pkt, all, Valid(_), Size(_), Written(_)) ==
    IF all.r < 0 \/ \E i \in DOMAIN all.rrs : ~Valid(all.rrs[i]) THEN [status |-> "PROTOCOL"]
    ELSE IF all.rrs = <<>> THEN [status |-> "NODATA"]
    ELSE [status |-> "ok", size |-> Sizes(all.rrs, Size) + dns_stdrr_size(pkt, all.p),
          written |-> Sizes(all.rrs, Written) + dns_stdrr_finish(pkt, all.p)]

dns_parse_a(pkt, all, dsize) ==
    LET Valid(rr) == rr.dend - rr.dptr = dsize
        Size(rr) == dsize
    IN  ParseRecords(pkt, all, Valid, Size, Size)

\* A name behind skip cells, and nothing behind it.
NameAt(pkt, rr, skip) == dns_getdn(pkt, rr.dptr + skip)
NameValid(pkt, rr, skip) == NameAt(pkt, rr, skip).r > 0 /\ NameAt(pkt, rr, skip).cur = rr.dend
NameSize(pkt, rr, skip) == dns_dntop_size(NameAt(pkt, rr, skip).dn)
NameWritten(pkt, rr, skip) == dns_dntop(NameAt(pkt, rr, skip).dn, DNS_MAXNAME).r

ParseNames(pkt, all, skip) ==
    LET Valid(rr) == NameValid(pkt, rr, skip)
        Size(rr) == NameSize(pkt, rr, skip)
        Written(rr) == NameWritten(pkt, rr, skip)
    IN  ParseRecords(pkt, all, Valid, Size, Written)

\* The priority, the weight and the port are a cell each.
dns_parse_ptr(pkt, all) == ParseNames(pkt, all, 0)
dns_parse_mx(pkt, all) == ParseNames(pkt, all, 1)
dns_parse_srv(pkt, all) == ParseNames(pkt, all, 3)

\* The strings from cp to ep: their bytes, or -1 when one goes on behind ep.
RECURSIVE TxtStrings(_, _, _)
TxtStrings(pkt, cp, ep) ==
    LET rest == TxtStrings(pkt, cp + 1 + Cell(pkt, cp), ep) IN
    IF cp >= ep THEN 0
    ELSE IF cp + 1 + Cell(pkt, cp) > ep \/ rest = -1 THEN -1
    ELSE Cell(pkt, cp) + rest

\* The strings of a record are joined, with a zero behind the last.
dns_parse_txt(pkt, all) ==
    LET Valid(rr) == TxtStrings(pkt, rr.dptr, rr.dend) # -1
        Size(rr) == TxtStrings(pkt, rr.dptr, rr.dend) + 1
    IN  ParseRecords(pkt, all, Valid, Size, Size)

\* The offset behind a string at cur, or -1: whatever is behind the record, it is too
\* long for it.
dns_getstr(pkt, cur, ep) ==
    IF cur = -1 \/ cur >= ep THEN -1
    ELSE IF cur + 1 + Cell(pkt, cur) > ep THEN -1 ELSE cur + 1 + Cell(pkt, cur)

\* The order and the preference, three strings and a name.
dns_parse_naptr(pkt, all) ==
    LET Behind3(rr) == dns_getstr(pkt, dns_getstr(pkt, dns_getstr(pkt, rr.dptr + 2, rr.dend), rr.dend), rr.dend)
        Skip(rr) == Behind3(rr) - rr.dptr
        Valid(rr) == Behind3(rr) # -1 /\ NameValid(pkt, rr, Skip(rr))
        Size(rr) == Skip(rr) - 2 + NameSize(pkt, rr, Skip(rr))
        Written(rr) == Skip(rr) - 2 + NameWritten(pkt, rr, Skip(rr))
    IN  ParseRecords(pkt, all, Valid, Size, Written)

\* Each type has its own way to read the records of that type.
ParseOf(pkt, qtyp, all) ==
    CASE qtyp = DNS_T_A -> dns_parse_a(pkt, all, 1)
      [] qtyp = DNS_T_AAAA -> dns_parse_a(pkt, all, 2)
      [] qtyp = DNS_T_PTR -> dns_parse_ptr(pkt, all)
      [] qtyp = DNS_T_MX -> dns_parse_mx(pkt, all)
      [] qtyp = DNS_T_SRV -> dns_parse_srv(pkt, all)
      [] qtyp = DNS_T_TXT -> dns_parse_txt(pkt, all)
      [] qtyp = DNS_T_NAPTR -> dns_parse_naptr(pkt, all)
dns_parse(pkt, qtyp) == ParseOf(pkt, qtyp, AllRecords(pkt, qtyp))

DnsInit == dnsCase \in DnsCases

-----------------------------------------------------------------------------
(* What is claimed.                                                        *)

\* The length of the name at the start of dn, if there is one.
RECURSIVE NameLength(_, _)
NameLength(dn, d) ==
    IF d >= Len(dn) THEN 0 ELSE IF dn[d + 1] = 0 THEN d + 1 ELSE NameLength(dn, d + 1 + dn[d + 1])

\* Labels one after the other, and a zero at the end.
WellFormed(dn) == dn # <<>> /\ NameLength(dn, 0) = Len(dn)

\* A name that is printed and read again is the same name, whatever its bytes are
\* (dots, backslashes, digits behind an escape), and dns_dntop_size counts exactly
\* what dns_dntop writes ("Keep in sync").
NamesRoundTrip ==
    dnsCase.kind = "names" =>
        LET text == dns_dntop(dnsCase.dn, DNS_MAXNAME)
            back == dns_ptodn(SubSeq(text.text, 1, text.r - 1), DNS_MAXDN)
        IN  /\ text.r = dns_dntop_size(dnsCase.dn)
            /\ back.r = Len(dnsCase.dn) /\ back.dn = dnsCase.dn
            /\ \A n \in 0..text.r : dns_dntop(dnsCase.dn, n).r = IF n = text.r THEN n ELSE 0

\* Whatever text dns_ptodn is given, it stays in its buffer, and what it makes of it
\* is a name that fits or nothing; the name is absolute when the text ends in a dot
\* that is not escaped (or is empty).
TextsBecomeNames ==
    dnsCase.kind = "texts" =>
        \A dnsiz \in 0..DNS_MAXDN + 1 :
            LET t == dns_ptodn(dnsCase.text, dnsiz)
                n == Len(dnsCase.text)
                slashes == Max({k \in 0..n - 1 : \A i \in n - k..n - 1 : dnsCase.text[i] = BACKSLASH})
            IN  /\ Len(t.dn) <= dnsiz /\ Len(t.dn) <= DNS_MAXDN
                /\ t.r > 0 => /\ t.r = Len(t.dn) /\ WellFormed(t.dn)
                               /\ t.abs <=> n = 0 \/ (dnsCase.text[n] = DOT /\ slashes % 2 = 0)

\* The queries of black lists and of services are names, and name what they should:
\* the bytes of an address in reverse, the service and the protocol with underscores,
\* and the name itself behind them (DNS_A4RSIZE is room enough).  A service whose name
\* has no room left is not refused (build_srv_dn), and is excepted here.
DigitsOf(label) == FoldLeft(LAMBDA n, d : n * TEN + d - DIGIT0, 0, label)
RECURSIVE LabelsOf(_, _)
LabelsOf(dn, d) ==
    IF dn[d + 1] = 0 THEN <<>> ELSE <<SubSeq(dn, d + 2, d + 1 + dn[d + 1])>> \o LabelsOf(dn, d + 1 + dn[d + 1])
BuiltNames ==
    /\ dnsCase.kind = "reverse" =>
        \A t \in {dns_a4todn(dnsCase.addr, 4 * ADDR4 + Len(inaddr_arpa))} :
        \A low \in {[i \in 1..ADDR6 |-> dnsCase.addr[1 + (i % ADDR4)] % (TEN * TEN)]} :
            /\ t.r = Len(t.dn) /\ WellFormed(t.dn)
            /\ \A i \in 1..ADDR4 : DigitsOf(LabelsOf(t.dn, 0)[i]) = dnsCase.addr[ADDR4 + 1 - i]
            /\ \A s \in {dns_a6todn(low, 4 * ADDR6 + Len(inaddr_arpa))} :
               /\ WellFormed(s.dn)
               /\ \A i \in 1..ADDR6 : DigitsOf(LabelsOf(s.dn, 0)[2 * i]) * TEN + DigitsOf(LabelsOf(s.dn, 0)[2 * i - 1]) = low[ADDR6 + 1 - i]
            /\ \A q \in {dns_submit_a4dnsbl(dnsCase.addr, dnsCase.list, DNS_T_A),
                        dns_submit_a6dnsbl(low, dnsCase.list, DNS_T_TXT)} \ {BADQUERY} : WellFormed(q.dn) /\ Len(q.dn) <= DNS_MAXDN
    /\ dnsCase.kind = "service" =>
        LET one(sn) == IF sn = NoName THEN <<>> ELSE <<UNDERSCORE>> \o sn \o <<DOT>>
            whole == one(dnsCase.srv) \o one(dnsCase.proto) \o dnsCase.name
        IN  \A t \in {build_srv_dn(dnsCase.name, dnsCase.srv, dnsCase.proto)},
               bl \in {dns_submit_rhsbl(dnsCase.name, IF dnsCase.srv = NoName THEN <<>> ELSE dnsCase.srv, DNS_T_A)} :
            /\ t.r >= 0 /\ Len(whole) + 2 <= DNS_MAXDN =>
                \A text \in {dns_dntop(t.dn, DNS_MAXNAME)} :
                WellFormed(t.dn) /\ Len(t.dn) <= DNS_MAXDN /\ SubSeq(text.text, 1, text.r - 1) = whole
            /\ bl # BADQUERY => WellFormed(bl.dn) /\ Len(bl.dn) <= DNS_MAXDN

\* Wherever in a message, damaged or not, a name is read, only cells of the message
\* are, jumps are followed a bounded number of times, the name takes at most one cell
\* more than its buffer (the zero), and skipping it ends where reading it does.
NamesReadSafely ==
    dnsCase.kind = "answer" =>
        \A cur \in HSIZE..Len(dnsCase.pkt) :
            LET t == dns_getdn(dnsCase.pkt, cur) IN
            /\ t.inside /\ Len(t.dn) <= DNS_MAXDN + 1
            /\ t.r > 0 => WellFormed(t.dn) /\ dns_skipdn(dnsCase.pkt, cur) \in {t.cur, -1}

\* The result of a query has room for exactly what is written to it, whatever the
\* answer is like (the two passes over the records in dns_parse_a, _mx, _txt...).
ResultFits ==
    dnsCase.kind = "answer" =>
        \A t \in {dns_parse(dnsCase.pkt, dnsCase.qtyp)} : t.status = "ok" => t.written = t.size

\* The records of an answer are those of one name, the one asked for or one that its
\* aliases lead to; none of them is missing when the aliases come first; and the time
\* to live is the shortest of the records and aliases used.
AnswersOfOneName ==
    (dnsCase.kind = "answer" /\ dnsCase.rrs # <<>>) =>
        \A all \in {AllRecords(dnsCase.pkt, dnsCase.qtyp)} :
        LET rrs == dnsCase.rrs
            Same(x, y) == dns_dnequal(x, y)
            Aliases == {i \in DOMAIN rrs : rrs[i].typ = DNS_T_CNAME}
            Chain(S) == /\ \A i \in S : Same(rrs[i].dn, dns_payload(dnsCase.pkt)) \/ \E j \in S : j < i /\ Same(rrs[i].dn, rrs[j].target)
                        /\ \A i, j \in S : i # j => ~Same(rrs[i].target, rrs[j].target) \/ ~Same(rrs[i].dn, rrs[j].dn)
            mine == {i \in DOMAIN rrs : Same(rrs[i].dn, all.p.qdn) /\ rrs[i].typ = dnsCase.qtyp}
        IN  all.r = 0 =>
            /\ \A i \in DOMAIN all.rrs : Same(all.rrs[i].dn, all.p.qdn)
            /\ \E S \in SUBSET Aliases :
                /\ Chain(S)
                /\ IF S = {} THEN Same(all.p.qdn, dns_payload(dnsCase.pkt)) ELSE Same(all.p.qdn, rrs[Max(S)].target)
                /\ (\A i \in mine : S = {} \/ i > Max(S)) => Len(all.rrs) = Cardinality(mine)
                /\ all.p.ttl = Min({TTL_MAX} \cup {rrs[i].ttl : i \in S} \cup {all.rrs[i].ttl : i \in DOMAIN all.rrs})

-----------------------------------------------------------------------------
(***************************************************************************)
(* IP addresses as text: the parser and the printer of libcork, which the  *)
(* access control lists are read with (libcork/core/ip-address.c), and the *)
(* ones libudns has for systems without inet_pton                          *)
(* (libudns/inet_XtoX.c).                                                  *)
(*                                                                         *)
(* A text is a sequence of characters: a hexadecimal digit is its value.   *)
(* An IPv6 address has GROUPS groups of 16 bits (8 in the code), and an    *)
(* IPv4 address may stand for the last two.                                *)
(***************************************************************************)

CONSTANTS GROUPS, AddressCases

ASSUME AddressAssumption == GROUPS \in Nat /\ GROUPS > 2

VARIABLE addrCase       \* the input: kind "print6", "print4" or "parse"

addr_vars == <<addrCase>>

COLON == 16
PERIOD == 17
Hexadecimal(c) == c < 16
Decimal(c) == c < 10

Rejected == <<>>        \* no address

ValueOf(base, digits) == FoldLeft(LAMBDA v, d : v * base + d, 0, digits)
OctetsOf(words) == FlattenSeq([i \in DOMAIN words |-> <<words[i] \div 256, words[i] % 256>>])
WordsOf(octets) == <<octets[1] * 256 + octets[2], octets[3] * 256 + octets[4]>>
ZeroWords(n) == [i \in 1..n |-> 0]

-----------------------------------------------------------------------------
(* libcork.                                                                *)

\* The octets of all of str: an empty one is zero, except the last.
cork_ipv4_parse(str) ==
    LET Bad(s) == [s EXCEPT !.ok = FALSE]
        Step(s, ch) ==
            IF Decimal(ch)
            THEN IF s.digit * 10 + ch > 255 THEN Bad(s) ELSE [s EXCEPT !.seen = TRUE, !.digit = @ * 10 + ch]
            ELSE IF ch = PERIOD /\ Len(s.result) # 3
            THEN [s EXCEPT !.result = Append(@, s.digit), !.digit = 0, !.seen = FALSE]
            ELSE Bad(s)
        Octets4(end) == IF end.ok /\ end.seen /\ Len(end.result) = 3 THEN Append(end.result, end.digit) ELSE Rejected
    IN  Octets4(FoldLeft(LAMBDA s, ch : IF s.ok THEN Step(s, ch) ELSE s,
                         [ok |-> TRUE, seen |-> FALSE, digit |-> 0, result |-> <<>>], str))

\* The decimal digits of an octet, the hexadecimal ones of a word.
DecimalDigits(n) == IF n > 99 THEN <<n \div 100, (n \div 10) % 10, n % 10>> ELSE IF n > 9 THEN <<n \div 10, n % 10>> ELSE <<n>>
HexDigits(w) ==
    LET all == <<w \div 4096, (w \div 256) % 16, (w \div 16) % 16, w % 16>>
    IN  SubSeq(all, Min({4} \cup {i \in 1..3 : all[i] # 0}), 4)

cork_ipv4_to_raw_string(addr) ==
    DecimalDigits(addr[1]) \o <<PERIOD>> \o DecimalDigits(addr[2]) \o <<PERIOD>> \o DecimalDigits(addr[3]) \o <<PERIOD>> \o DecimalDigits(addr[4])

\* What cork_ipv6_init knows: dest is the array the hextets go to, before or after the
\* double colon.
Ipv6Start ==
    [st |-> "go", digit |-> 0, before |-> <<>>, after |-> <<>>, before_count |-> 0, digits_seen |-> 0, hextets_seen |-> 0,
     another_required |-> TRUE, digit_allowed |-> TRUE, colon_allowed |-> TRUE, double_colon_allowed |-> TRUE,
     just_saw_colon |-> FALSE]

StoreWords(s, words) == IF s.double_colon_allowed THEN [s EXCEPT !.before = @ \o words] ELSE [s EXCEPT !.after = @ \o words]

process_digit(s, d) ==
    IF ~s.digit_allowed \/ s.digits_seen = 4 THEN [s EXCEPT !.st = "bad"]
    ELSE [s EXCEPT !.digits_seen = @ + 1, !.colon_allowed = TRUE, !.just_saw_colon = FALSE, !.digit = (@ * 16) + d]

process_colon(s) ==
    IF ~s.colon_allowed THEN [s EXCEPT !.st = "bad"]
    ELSE IF s.just_saw_colon
    THEN [s EXCEPT !.colon_allowed = FALSE, !.digit_allowed = TRUE, !.another_required = FALSE,
                   !.double_colon_allowed = FALSE, !.before_count = s.hextets_seen]
    ELSE IF s.hextets_seen = GROUPS THEN [s EXCEPT !.st = "bad"]
    ELSE IF s.digits_seen = 0 /\ s.hextets_seen = 0
    THEN [s EXCEPT !.colon_allowed = TRUE, !.digit_allowed = FALSE, !.just_saw_colon = TRUE, !.another_required = TRUE]
    ELSE [StoreWords(s, <<s.digit>>) EXCEPT !.digit = 0, !.hextets_seen = @ + 1, !.digits_seen = 0,
                                       !.colon_allowed = s.double_colon_allowed, !.just_saw_colon = TRUE, !.another_required = TRUE]

\* An IPv4 address, from its first digit to the end of the text.
process_period(s, ipv4) ==
    IF s.hextets_seen >= GROUPS - 1 \/ ipv4 = Rejected THEN [s EXCEPT !.st = "bad"]
    ELSE [StoreWords(s, WordsOf(ipv4)) EXCEPT !.hextets_seen = @ + 2, !.digits_seen = 0, !.another_required = FALSE, !.st = "end"]

Ipv6Step(str, s, i) ==
    IF s.st # "go" THEN s
    ELSE IF Hexadecimal(str[i]) THEN process_digit(s, str[i])
    ELSE IF str[i] = COLON THEN process_colon(s)
    ELSE IF str[i] = PERIOD THEN process_period(s, cork_ipv4_parse(SubSeq(str, i - s.digits_seen, Len(str))))
    ELSE [s EXCEPT !.st = "bad"]

\* The hextet at the end, which is stored before anybody asks whether it is the ninth.
Ipv6Last(s) == IF s.digits_seen > 0 THEN [StoreWords(s, <<s.digit>>) EXCEPT !.hextets_seen = @ + 1] ELSE s

\* A double colon may stand for no hextet; with nine of them the last overwrites.
Ipv6Words(s, e) ==
    LET after_count == e.hextets_seen - e.before_count
    IN  IF s.st = "bad" \/ (s.digits_seen = 0 /\ s.another_required) THEN Rejected
        ELSE IF ~e.double_colon_allowed
        THEN [i \in 1..GROUPS |-> IF i > GROUPS - after_count THEN e.after[i - (GROUPS - after_count)]
                                  ELSE IF i <= e.before_count THEN e.before[i] ELSE 0]
        ELSE IF e.hextets_seen = GROUPS THEN e.before ELSE Rejected
cork_ipv6_init(str) ==
    LET Whole(s) == Ipv6Words(s, Ipv6Last(s))
    IN  Whole(FoldLeft(LAMBDA t, i : Ipv6Step(str, t, i), Ipv6Start, [i \in DOMAIN str |-> i]))

\* The runs of zeros, from a group to another.
ZeroRuns(words) == {r \in (1..GROUPS) \X (1..GROUPS) : r[1] <= r[2] /\ \A i \in r[1]..r[2] : words[i] = 0}

\* The first of the longest runs of at least two, or <<0, -1>>.
BestRun(words) ==
    LET runs == {r \in ZeroRuns(words) : r[2] > r[1]} IN
    IF runs = {} THEN <<0, -1>>
    ELSE CHOOSE r \in runs : \A o \in runs : o[2] - o[1] < r[2] - r[1] \/ (o[2] - o[1] = r[2] - r[1] /\ r[1] <= o[1])

\* The last two groups are printed as an IPv4 address.
Embedded(words, base, len) == base = 1 /\ (len = GROUPS - 2 \/ (len = GROUPS - 3 /\ words[GROUPS - 2] = 65535))

RawString(words, best) ==
    LET Group(i) ==
            IF i \in best[1]..best[2] THEN IF i = best[1] THEN <<COLON>> ELSE <<>>
            ELSE IF i = GROUPS /\ Embedded(words, best[1], best[2] - best[1] + 1) THEN <<>>
            ELSE (IF i # 1 THEN <<COLON>> ELSE <<>>)
                 \o (IF i = GROUPS - 1 /\ Embedded(words, best[1], best[2] - best[1] + 1)
                     THEN cork_ipv4_to_raw_string(SubSeq(OctetsOf(words), 2 * GROUPS - 3, 2 * GROUPS))
                     ELSE HexDigits(words[i]))
    IN  FlattenSeq([i \in 1..GROUPS |-> Group(i)]) \o (IF best[2] = GROUPS THEN <<COLON>> ELSE <<>>)
cork_ipv6_to_raw_string(words) == RawString(words, BestRun(words))

\* IPv4 is tried first.
cork_ip(str) ==
    LET Either(ipv4, ipv6) ==
            IF ipv4 # Rejected THEN [version |-> 4, addr |-> ipv4]
            ELSE IF ipv6 # Rejected THEN [version |-> 6, addr |-> ipv6]
            ELSE [version |-> 0, addr |-> Rejected]
    IN  Either(cork_ipv4_parse(str), cork_ipv6_init(str))

-----------------------------------------------------------------------------
(* libudns.                                                                *)

mjt_ntop4(src) == cork_ipv4_to_raw_string(src)

\* The run of zeros mjt_ntop6 chooses, <<first, length>>: the count of zeros is not
\* started anew behind a group that is not zero.
MjtRun(w) ==
    LET Step(s, i) ==
            IF w[i] = 0 THEN [s EXCEPT !.cl = @ + 1, !.cs = IF s.cl = 0 THEN i ELSE @]
            ELSE IF s.cl > s.bl THEN [s EXCEPT !.bl = s.cl, !.bs = s.cs] ELSE s
        Longer(e) == IF e.cl > e.bl THEN <<e.cs, e.cl>> ELSE <<e.bs, e.bl>>
        AtLeast2(best) == IF best[2] = 1 THEN <<best[1], 0>> ELSE best
    IN  AtLeast2(Longer(FoldLeft(Step, [bs |-> 1, cs |-> 1, bl |-> 0, cl |-> 0], [i \in 1..GROUPS |-> i])))

Ntop6(w, run) ==
    LET from == IF run[2] > 0 THEN run[1] + run[2] ELSE 1
        Colon(i) == IF i # 1 THEN <<COLON>> ELSE <<>>
        Start == IF run[2] = 0 THEN <<>>
                 ELSE FlattenSeq([i \in 1..run[1] - 1 |-> Colon(i) \o HexDigits(w[i])]) \o <<COLON>>
                      \o (IF from = GROUPS + 1 THEN <<COLON>> ELSE <<>>)
        v4 == Embedded(w, run[1], run[2])
        Back(i) == IF i < from \/ (v4 /\ i = GROUPS) THEN <<>>
                   ELSE Colon(i) \o (IF v4 /\ i = GROUPS - 1 THEN mjt_ntop4(SubSeq(OctetsOf(w), 2 * GROUPS - 3, 2 * GROUPS))
                                     ELSE HexDigits(w[i]))
    IN  Start \o FlattenSeq([i \in 1..GROUPS |-> Back(i)])
mjt_ntop6(w) == Ntop6(w, MjtRun(w))

\* The longest piece of c from i on whose characters are all In.
RunOf(c, i, In(_)) == SubSeq(c, i, Max({i - 1} \cup {j \in i..Len(c) : \A k \in i..j : In(c[k])}))

\* Four octets, a period behind each but the last, and nothing else.
mjt_pton4(c) ==
    LET D(i) == RunOf(c, i, Decimal)
        Behind(i) == i + Len(D(i)) + 1
        octets(at) == [n \in 1..4 |-> IF at[n] > Len(c) THEN <<>> ELSE D(at[n])]
        Values(at, digits) ==
            IF /\ \A n \in 1..4 : digits[n] # <<>> /\ ValueOf(10, digits[n]) <= 255
               /\ \A n \in 1..3 : c[at[n + 1] - 1] = PERIOD
               /\ at[4] + Len(digits[4]) = Len(c) + 1
            THEN [n \in 1..4 |-> ValueOf(10, digits[n])] ELSE Rejected
        From(at) == Values(at, octets(at))
    IN  From(<<1, Behind(1), Behind(Behind(1)), Behind(Behind(Behind(1)))>>)

NotPton6 == <<-1>>

\* Groups are missing exactly when there is a double colon.
pton6_complete(a, z) == (Len(a) < GROUPS) <=> (z # -1)

\* The groups are put around the zeros of the double colon, at z.
Pton6End(a, z) ==
    IF ~pton6_complete(a, z) THEN NotPton6
    ELSE IF z = -1 THEN a ELSE SubSeq(a, 1, z) \o ZeroWords(GROUPS - Len(a)) \o SubSeq(a, z + 1, Len(a))

Pton6Ipv4(v4, a, z) ==
    IF Len(a) > GROUPS - 2 \/ v4 = Rejected THEN NotPton6 ELSE Pton6End(a \o WordsOf(v4), z)

\* A group of digits at i, and what is behind it.
RECURSIVE Pton6Group(_, _, _, _, _)
Pton6Loop(c, i, a, z) == Pton6Group(c, i, RunOf(c, i, Hexadecimal), a, z)
Pton6Group(c, i, digits, a, z) ==
    LET v == ValueOf(16, digits)
        j == i + Len(digits)
    IN  IF digits = <<>> THEN IF z = Len(a) /\ i = Len(c) + 1 THEN Pton6End(a, z) ELSE NotPton6
        ELSE IF v > 65535 THEN NotPton6
        ELSE IF j = Len(c) + 1 THEN IF Len(a) >= GROUPS THEN NotPton6 ELSE Pton6End(Append(a, v), z)
        ELSE IF c[j] = COLON THEN
            IF Len(a) >= GROUPS THEN NotPton6
            ELSE IF j < Len(c) /\ c[j + 1] = COLON THEN
                IF z # -1 THEN NotPton6
                ELSE IF j + 1 = Len(c) THEN Pton6End(Append(a, v), Len(a) + 1)
                ELSE Pton6Loop(c, j + 2, Append(a, v), Len(a) + 1)
            ELSE Pton6Loop(c, j + 1, Append(a, v), z)
        ELSE IF c[j] = PERIOD THEN
            Pton6Ipv4(mjt_pton4(SubSeq(c, i, Len(c))), a, z)
        ELSE NotPton6

Pton6Words(r) == IF r = NotPton6 THEN Rejected ELSE r
mjt_pton6(c) ==
    Pton6Words(IF c = <<>> \/ c[1] # COLON THEN Pton6Loop(c, 1, <<>>, -1)
               ELSE IF Len(c) < 2 \/ c[2] # COLON THEN NotPton6
               ELSE Pton6Loop(c, 3, <<>>, 0))

AddressInit == addrCase \in AddressCases

-----------------------------------------------------------------------------
(* What is claimed.                                                        *)

\* An address that is printed and read again is the same address, by either library
\* and whichever printed it, and fits the buffers for it (CORK_IPV6_STRING_LENGTH, 40);
\* libudns does so for an address with one run of zeros only (see MjtRun).
OneRun(w) == \E r \in {<<1, 0>>} \cup ZeroRuns(w) : \A i \in 1..GROUPS : w[i] = 0 => i \in r[1]..r[2]
PrintedParses ==
    /\ addrCase.kind = "print6" =>
        \A text \in {cork_ipv6_to_raw_string(addrCase.words)} :
        /\ cork_ipv6_init(text) = addrCase.words /\ mjt_pton6(text) = addrCase.words
        /\ Len(text) <= 5 * GROUPS - 1
        /\ OneRun(addrCase.words) => mjt_ntop6(addrCase.words) = text
    /\ addrCase.kind = "print4" =>
        \A text \in {cork_ipv4_to_raw_string(addrCase.octets)} :
        /\ cork_ipv4_parse(text) = addrCase.octets /\ mjt_pton4(text) = addrCase.octets
        /\ cork_ip(text).version = 4 /\ Len(text) <= 15

\* The address a text stands for: groups of at most four digits, all of them or with
\* one double colon for at least one, the last two as an IPv4 address if need be.
Colons(t) == {i \in DOMAIN t : t[i] = COLON}
Doubles(t) == {i \in Colons(t) : i + 1 \in Colons(t)}
Pieces(t) ==
    LET Add(ps, c) == IF c = COLON THEN Append(ps, <<>>) ELSE [ps EXCEPT ![Len(ps)] = Append(@, c)]
    IN  FoldLeft(Add, << <<>> >>, t)
PieceWords(p) == IF p = <<>> THEN <<>>
                 ELSE IF \A i \in DOMAIN p : Hexadecimal(p[i]) THEN <<ValueOf(16, p)>>
                 ELSE LET Two(octets) == IF octets # Rejected THEN WordsOf(octets) ELSE <<>> IN Two(mjt_pton4(p))
WordsIn(t) == FoldLeft(LAMBDA ws, p : ws \o PieceWords(p), <<>>, Pieces(t))
Standard(t, pieces, words) ==
    /\ t # <<>> /\ Cardinality(Doubles(t)) <= 1
    /\ 1 \in Colons(t) => 1 \in Doubles(t)
    /\ Len(t) \in Colons(t) => Len(t) - 1 \in Doubles(t)
    /\ \A k \in DOMAIN pieces :
        \/ Len(pieces[k]) <= 4 /\ \A i \in DOMAIN pieces[k] : Hexadecimal(pieces[k][i])
        \/ k = Len(pieces) /\ mjt_pton4(pieces[k]) # Rejected
    /\ IF Doubles(t) = {} THEN Len(words) = GROUPS ELSE Len(words) < GROUPS
Denoted(t, words) ==
    LET Filled(before) == SubSeq(words, 1, before) \o ZeroWords(GROUPS - Len(words)) \o SubSeq(words, before + 1, Len(words))
    IN  IF Doubles(t) = {} THEN words ELSE Filled(Len(WordsIn(SubSeq(t, 1, Min(Doubles(t)) - 1))))

\* Every text of an address is read as that address by both libraries, and no other
\* text is by libudns.  What libcork reads besides, in the access control lists, is a
\* double colon that stands for nothing and an IPv4 address with an empty octet; it is
\* never more than an address, and never an IPv4 address where IPv6 was meant.
TextsAsStandard ==
    addrCase.kind = "parse" =>
        \A t \in {addrCase.text} :
        \A words \in {WordsIn(t)}, cork \in {cork_ip(t)}, four \in {mjt_pton4(t)}, six \in {mjt_pton6(t)} :
        \A standard \in {Standard(t, Pieces(t), words)} :
        LET empty == \E i \in DOMAIN t : t[i] = PERIOD /\ (i = 1 \/ t[i - 1] \in {PERIOD, COLON})
            long == \E i \in 1..Len(t) - 4 : \A k \in i..i + 4 : Hexadecimal(t[k])
        IN  /\ standard => cork = [version |-> 6, addr |-> Denoted(t, words)] /\ six = Denoted(t, words)
            /\ six # Rejected => standard \/ long
            /\ four # Rejected => cork = [version |-> 4, addr |-> four]
            /\ cork.version = 4 => four # Rejected \/ empty
            /\ cork.version = 6 => /\ Len(cork.addr) = GROUPS
                                   /\ standard \/ empty \/ (Doubles(t) # {} /\ Len(words) \in GROUPS..GROUPS + 1)

-----------------------------------------------------------------------------
(***************************************************************************)
(* The resolver context of libudns (libudns/udns_resolver.c, udns_init.c): *)
(* how /etc/resolv.conf and the environment are read into it, the calls    *)
(* that set, copy, open, close and free it, the doubly linked list of its  *)
(* active queries, and dns_resolve, which waits for one of them.  Udns and *)
(* Resolv model what is sent and received, over a plain queue.             *)
(*                                                                         *)
(* A server's text is [fam, addr, port], fam 0 when it is no address; a    *)
(* domain name's is [dn], its cells (a length, its bytes, ..., 0).  The    *)
(* assertions on ctx (SETCTXFRESH and the like) are guards.                *)
(***************************************************************************)

CONSTANTS
    DNS_MAXSERV,    \* 6 in udns.h
    SRCHBUF,        \* sizeof dnsc_srchbuf, 1024
    UINT,           \* unsigned overflows here: 2^32, scaled
    Contexts,       \* 1 is dns_defctx
    Queries,        \* what calloc gives
    Ids,            \* query ids
    UcCases

NIL == 0

VARIABLES
    ucCase,     \* the system's configuration, and the calls that are made
    ctxs, live, \* the contexts, and those that exist
    nodes,      \* the queries
    fds, bufs,  \* open descriptors (0 is not udns's), allocated packet buffers
    timer,      \* what each context's timer callback was last told
    clock, calls,
    sync        \* dns_resolve: its context and query, whether its callback was called, where it is

uc_vars == <<ucCase, ctxs, live, nodes, fds, bufs, timer, clock, calls, sync>>

-----------------------------------------------------------------------------
(* The settings.                                                           *)

\* dns_opts.
dns_opts == [timeout |-> [min |-> 1, max |-> 300], ntries |-> [min |-> 1, max |-> 50],
             ndots |-> [min |-> 0, max |-> 1000], port |-> [min |-> 1, max |-> 65535],
             udpbuf |-> [min |-> 512, max |-> 65536]]
OptNames == [retrans |-> "timeout", timeout |-> "timeout", retry |-> "ntries", attempts |-> "ntries",
             ndots |-> "ndots", port |-> "port", udpbuf |-> "udpbuf"]

NoServ == [fam |-> 0, addr |-> 0, port |-> 0]
Slots == 0..DNS_MAXSERV - 1

\* A zeroed struct dns_ctx.
Zeroed == [inited |-> FALSE, nserv |-> 0, serv |-> [i \in Slots |-> NoServ],
           srch |-> [i \in 0..SRCHBUF - 1 |-> 0], srchend |-> 0,
           opt |-> [o \in DOMAIN dns_opts |-> 0],
           sock |-> 0, fam |-> 0, pbuf |-> NIL, room |-> 0, nactive |-> 0, head |-> NIL, tail |-> NIL,
           utmfn |-> FALSE, utmexp |-> 0]

\* dns_reset, after dns_close.
Fresh ==
    [Zeroed EXCEPT !.inited = TRUE, !.sock = -1,
                   !.opt = [timeout |-> 4, ntries |-> 3, ndots |-> 1, port |-> 53, udpbuf |-> 4096]]

\* dns_add_serv and dns_add_serv_s: the slot is cleared before the text is read.
add_serv(c, s) ==
    IF c.nserv >= DNS_MAXSERV THEN c
    ELSE [c EXCEPT !.serv[c.nserv] = IF s.fam = 0 THEN NoServ ELSE s,
                   !.nserv = @ + IF s.fam = 0 THEN 0 ELSE 1]
no_serv(c) == [c EXCEPT !.nserv = 0]

\* dns_add_srch: a name that does not fit leaves what dns_sptodn wrote of it.
add_srch(c, name) ==
    LET room == SRCHBUF - c.srchend - 1
        fits == Len(name.dn) <= room
        wrote == IF fits THEN Len(name.dn) ELSE room
        cells == [i \in 0..SRCHBUF - 1 |-> IF i \in c.srchend..c.srchend + wrote - 1
                                           THEN name.dn[i - c.srchend + 1] ELSE c.srch[i]]
        end == IF fits THEN c.srchend + Len(name.dn) ELSE c.srchend
    IN [c EXCEPT !.srch = [cells EXCEPT ![end] = 0], !.srchend = end]
no_srch(c) == [c EXCEPT !.srch = Zeroed.srch, !.srchend = 0]

Clamp(o, v) == IF v < dns_opts[o].min THEN dns_opts[o].min
               ELSE IF v > dns_opts[o].max THEN dns_opts[o].max ELSE v

Number(digits) == FoldLeft(LAMBDA v, d : (v * 10 + d) % UINT, 0, digits)

\* dns_set_opts: what is no option, or has no number, is skipped.
set_opts(c, words) ==
    FoldLeft(LAMBDA k, w :
        IF w.name \in DOMAIN OptNames /\ w.digits # <<>>
        THEN [k EXCEPT !.opt[OptNames[w.name]] = Clamp(OptNames[w.name], Number(w.digits))]
        ELSE k, c, words)

\* dns_set_opt.
set_opt(c, o, v) == IF v \in dns_opts[o].min..dns_opts[o].max THEN [c EXCEPT !.opt[o] = v] ELSE c

dns_set_serv_internal(c, words) == FoldLeft(add_serv, no_serv(c), words)
dns_set_srch_internal(c, words) == FoldLeft(add_srch, no_srch(c), words)

\* A line of resolv.conf: its first word, and the others (at least one).
conf_line(r, line) ==
    CASE line.words = <<>> -> r
      [] line.words # <<>> /\ line.key = "domain" ->
            [c |-> dns_set_srch_internal(r.c, <<line.words[1]>>), has_srch |-> TRUE]
      [] line.words # <<>> /\ line.key = "search" ->
            [c |-> dns_set_srch_internal(r.c, line.words), has_srch |-> TRUE]
      [] line.words # <<>> /\ line.key = "nameserver" -> [r EXCEPT !.c = add_serv(@, line.words[1])]
      [] line.words # <<>> /\ line.key = "options" -> [r EXCEPT !.c = set_opts(@, line.words)]
      [] OTHER -> r

\* $NSCACHEIP or else $NAMESERVERS.
env_servers(c, env) ==
    IF env.servers.set THEN dns_set_serv_internal(c, env.servers.words) ELSE c

\* dns_init_resolvconf.  The domain of the host is added when there is a search
\* list, although the comment there says "if still no search list".
dns_init_resolvconf(c, conf, env) ==
    LET srch(servs) == IF env.localdomain.set THEN dns_set_srch_internal(servs, env.localdomain.words) ELSE servs
        Ended(has_srch, opts) == IF (has_srch \/ env.localdomain.set) /\ env.domain.dn # <<>>
                                 THEN add_srch(opts, env.domain) ELSE opts
        Behind(file) == Ended(file.has_srch, set_opts(srch(env_servers(file.c, env)), env.options))
    IN  Behind(FoldLeft(conf_line, [c |-> c, has_srch |-> FALSE], conf))

-----------------------------------------------------------------------------
(* Opening.                                                                *)

\* dns_open: every server has a port, and all are of one family (::ffff:a.b.c.d).
map_v4(c) ==
    LET used == {c.serv[i].fam : i \in 0..c.nserv - 1}
    IN IF used # {4, 6} THEN c
       ELSE [c EXCEPT !.serv = [i \in Slots |->
               IF i < c.nserv /\ @[i].fam = 4 THEN [fam |-> 6, addr |-> 100 + @[i].addr, port |-> @[i].port]
               ELSE @[i]]]

WithPorts(c) ==
    [c EXCEPT !.serv = [i \in Slots |-> IF i < c.nserv /\ @[i].port = 0 THEN [@[i] EXCEPT !.port = c.opt.port]
                                        ELSE @[i]]]

\* At least one server: this host.
WithServer(c) ==
    IF c.nserv > 0 THEN c
    ELSE [c EXCEPT !.serv[0] = [@ EXCEPT !.fam = 4, !.addr = 1], !.nserv = 1]

Prepared(c) == map_v4(WithPorts(WithServer(c)))
FamilyOf(c) == IF \E i \in 0..c.nserv - 1 : c.serv[i].fam = 6 THEN 6 ELSE 4

-----------------------------------------------------------------------------
(* The list of active queries: l is [head, tail, nodes].                   *)

ListOf(c) == [head |-> c.head, tail |-> c.tail, nodes |-> nodes]

qlist_remove(l, q) ==
    LET n == l.nodes[q]
        before == IF n.prev # NIL THEN [l.nodes EXCEPT ![n.prev].next = n.next] ELSE l.nodes
    IN [head |-> IF n.prev # NIL THEN l.head ELSE n.next,
        tail |-> IF n.next # NIL THEN l.tail ELSE n.prev,
        nodes |-> IF n.next # NIL THEN [before EXCEPT ![n.next].prev = n.prev] ELSE before]

qlist_add_head(l, q) ==
    [head |-> q, tail |-> IF l.head # NIL THEN l.tail ELSE q,
     nodes |-> [i \in Queries |-> IF i = q THEN [l.nodes[i] EXCEPT !.next = l.head, !.prev = NIL]
                                  ELSE IF i = l.head THEN [l.nodes[i] EXCEPT !.prev = q] ELSE l.nodes[i]]]

qlist_insert_after(l, q, prev) ==
    IF prev = NIL THEN qlist_add_head(l, q)
    ELSE LET next == l.nodes[prev].next
         IN [head |-> l.head, tail |-> IF next = NIL THEN q ELSE l.tail,
             nodes |-> [i \in Queries |->
                          IF i = q THEN [l.nodes[i] EXCEPT !.prev = prev, !.next = next]
                          ELSE IF i = prev THEN [l.nodes[i] EXCEPT !.next = q]
                          ELSE IF i = next THEN [l.nodes[i] EXCEPT !.prev = q] ELSE l.nodes[i]]]

\* The place for a query, looked for from the tail.
PlaceFor(l, deadline) ==
    LET from[p \in Queries \cup {NIL}] ==
            IF p = NIL THEN NIL
            ELSE IF l.nodes[p].deadline <= deadline THEN p ELSE from[l.nodes[p].prev]
    IN from[l.tail]

\* The end of dns_send_this: the query moves to where its new deadline belongs.
Moved(l, q, deadline) ==
    LET out == qlist_remove(l, q)
        dated == [out EXCEPT !.nodes[q].deadline = deadline]
    IN qlist_insert_after(dated, q, PlaceFor(dated, deadline))

\* The queries of a list, along next.
Chain(l) ==
    LET from[n \in 0..Cardinality(Queries), p \in Queries \cup {NIL}] ==
            IF p = NIL \/ n = 0 THEN <<>> ELSE <<p>> \o from[n - 1, l.nodes[p].next]
    IN from[Cardinality(Queries), l.head]

-----------------------------------------------------------------------------
(* The calls.                                                              *)

NoQuery == [ctx |-> NIL, next |-> NIL, prev |-> NIL, deadline |-> 0, id |-> NIL, clash |-> FALSE, tries |-> 0]

Active(c) == {q \in Queries : nodes[q].ctx = c}
Opened(c) == ctxs[c].sock >= 0

\* dns_resolve runs only the calls its callbacks make.
Call(op) ==
    /\ op \in ucCase.ops /\ calls < ucCase.calls /\ calls' = calls + 1
    /\ sync.pc = "idle" \/ op \in {"submit", "cancel"}

Inited(c) == c \in live /\ ctxs[c].inited
Inactive(c) == Inited(c) /\ ctxs[c].nactive = 0
Closed(c) == Inited(c) /\ ~Opened(c)

\* _dns_request_utm: when the timer should fire, 0 at once, -1 never.
WantedTimer(l, now) ==
    IF l.head = NIL THEN -1
    ELSE IF now = 0 \/ l.nodes[l.head].deadline <= now THEN 0 ELSE l.nodes[l.head].deadline

\* The context c becomes k with the list l, and asks for its timer.
dns_request_utm(c, k, l, now) ==
    LET wanted == IF k.utmfn THEN WantedTimer(l, now) ELSE k.utmexp
    IN /\ ctxs' = [ctxs EXCEPT ![c] = [k EXCEPT !.head = l.head, !.tail = l.tail, !.utmexp = wanted]]
       /\ nodes' = l.nodes
       /\ timer' = IF wanted = k.utmexp THEN timer ELSE [timer EXCEPT ![c] = wanted]

\* dns_drop_utm: the callback is told to forget its timer.
drop_utm(k) == [k EXCEPT !.utmexp = -1]
DroppedTimer(c) == IF ctxs[c].utmfn THEN [timer EXCEPT ![c] = -1] ELSE timer

closed(c) ==
    drop_utm([ctxs[c] EXCEPT !.sock = -1, !.pbuf = NIL, !.head = NIL, !.tail = NIL, !.nactive = 0])

\* What dns_close releases; a context that was never initialised holds nothing.
Release(c) ==
    IF ctxs[c].inited
    THEN /\ fds' = fds \ (IF Opened(c) THEN {ctxs[c].sock} ELSE {})
         /\ bufs' = bufs \ {ctxs[c].pbuf}
         /\ nodes' = [q \in Queries |-> IF q \in Active(c) THEN NoQuery ELSE nodes[q]]
         /\ timer' = DroppedTimer(c)
    ELSE UNCHANGED <<fds, bufs, nodes, timer>>

dns_close(c) ==
    /\ Call("close") /\ Inited(c)
    /\ Release(c)
    /\ ctxs' = [ctxs EXCEPT ![c] = closed(c)]
    /\ UNCHANGED <<ucCase, live, clock, sync>>

dns_reset(c) ==
    /\ Call("reset") /\ c \in live
    /\ Release(c)
    /\ ctxs' = [ctxs EXCEPT ![c] = Fresh]
    /\ UNCHANGED <<ucCase, live, clock, sync>>

\* dns_init, without do_open: what the configuration says, on a reset context.
dns_init(c) ==
    /\ Call("init") /\ c \in live
    /\ Release(c)
    /\ ctxs' = [ctxs EXCEPT ![c] = dns_init_resolvconf(Fresh, ucCase.conf, ucCase.env)]
    /\ UNCHANGED <<ucCase, live, clock, sync>>

\* dns_new and dns_free.
dns_new(c, n) ==
    /\ Call("new") /\ Inited(c) /\ n \notin live
    /\ live' = live \cup {n}
    /\ ctxs' = [ctxs EXCEPT ![n] = [ctxs[c] EXCEPT !.sock = -1, !.head = NIL, !.tail = NIL, !.nactive = 0,
                                                   !.pbuf = NIL, !.utmfn = FALSE]]
    /\ UNCHANGED <<ucCase, nodes, fds, bufs, timer, clock, sync>>
dns_free(c) ==
    /\ Call("free") /\ c \in live \ {1}
    /\ Release(c)
    /\ live' = live \ {c}
    /\ ctxs' = [ctxs EXCEPT ![c] = Zeroed]
    /\ UNCHANGED <<ucCase, clock, sync>>

Change(op, c, k) ==
    /\ Call(op)
    /\ ctxs' = [ctxs EXCEPT ![c] = k]
    /\ UNCHANGED <<ucCase, live, nodes, fds, bufs, timer, clock, sync>>

dns_add_serv(c, s) == Closed(c) /\ Change("serv", c, add_serv(ctxs[c], s))
dns_add_serv_null(c) == Closed(c) /\ Change("serv", c, no_serv(ctxs[c]))
dns_add_srch(c, name) == Inactive(c) /\ Change("srch", c, add_srch(ctxs[c], name))
dns_add_srch_null(c) == Inactive(c) /\ Change("srch", c, no_srch(ctxs[c]))
dns_set_opts(c, words) == Inactive(c) /\ Change("opts", c, set_opts(ctxs[c], words))
dns_set_opt(c, o, v) == Inactive(c) /\ Change("opt", c, set_opt(ctxs[c], o, v))

\* dns_set_tmcbck.
dns_set_tmcbck(c, fn) ==
    LET k == [drop_utm(ctxs[c]) EXCEPT !.utmfn = fn]
    IN /\ Call("tmcbck") /\ Inited(c)
       /\ IF Opened(c)
          THEN LET wanted == IF fn THEN WantedTimer(ListOf(k), 0) ELSE k.utmexp
               IN /\ ctxs' = [ctxs EXCEPT ![c] = [k EXCEPT !.utmexp = wanted]]
                  /\ timer' = IF wanted = k.utmexp THEN DroppedTimer(c) ELSE [timer EXCEPT ![c] = wanted]
          ELSE ctxs' = [ctxs EXCEPT ![c] = k] /\ timer' = DroppedTimer(c)
       /\ UNCHANGED <<ucCase, live, nodes, fds, bufs, clock, sync>>

LowestOf(S) == CHOOSE n \in S : \A m \in S : n <= m

\* What a dns_open that failed leaves open of its socket.
open_failed(f) == {}

\* dns_open.  Without a socket, or without memory, the servers are prepared and
\* nothing else is changed.
dns_open(c) ==
    LET k == Prepared(ctxs[c])
        fd == LowestOf(1..Cardinality(Contexts) + 1 \ fds)
        b == LowestOf(1..Cardinality(Contexts) + 1 \ bufs)
        open == [k EXCEPT !.sock = fd, !.fam = FamilyOf(k), !.pbuf = b, !.room = k.opt.udpbuf]
    IN /\ Call("open") /\ Closed(c)
       /\ \/ /\ ctxs' = [ctxs EXCEPT ![c] = [k EXCEPT !.fam = FamilyOf(k)]]
             /\ fds' \in {fds, fds \cup open_failed(fd)}
             /\ UNCHANGED <<nodes, bufs, timer>>
          \/ /\ fds' = fds \cup {fd} /\ bufs' = bufs \cup {b}
             /\ dns_request_utm(c, open, ListOf(open), 0)
       /\ UNCHANGED <<ucCase, live, clock, sync>>

-----------------------------------------------------------------------------
(* Queries.                                                                *)

\* Mutant: the first id drawn is taken, whoever has it.
dns_newid_first(c) == [id : {LowestOf(Ids)}, clash : {FALSE}]

\* dns_newid: an id no active query has (which one makes no difference), unless
\* five in a row are taken.
dns_newid(c) ==
    LET taken == {nodes[p].id : p \in Active(c)}
    IN [id : {LowestOf(Ids \ taken)}, clash : {FALSE}]
       \cup [id : IF "clash" \notin ucCase.ops \/ taken = {} THEN {} ELSE {LowestOf(taken)}, clash : {TRUE}]

\* dns_submit_dn (dns_submit_p): the query is due at once, at the head of the list.
dns_submit_dn(c) ==
    /\ Call("submit") /\ Inited(c) /\ Opened(c) /\ Cardinality(Active(c)) < ucCase.most
    /\ \E q \in {p \in Queries : nodes[p].ctx = NIL /\ \A o \in Queries : nodes[o].ctx = NIL => p <= o} :
        \E n \in dns_newid(c) :
            LET k == [ctxs[c] EXCEPT !.nactive = @ + 1]
                l == ListOf(k)
                new == [NoQuery EXCEPT !.ctx = c, !.id = n.id, !.clash = n.clash]
            IN dns_request_utm(c, k, qlist_add_head([l EXCEPT !.nodes[q] = new], q), 0)
    /\ UNCHANGED <<ucCase, live, fds, bufs, clock, sync>>

\* The list without q, which is freed.
Without(l, q) == [qlist_remove(l, q) EXCEPT !.nodes[q] = NoQuery]

\* A synchronous query cannot be cancelled.
cancellable(q) == ~(sync.pc # "idle" /\ sync.q = q)

\* dns_cancel; the caller frees the query.
dns_cancel(q) ==
    /\ Call("cancel") /\ nodes[q].ctx # NIL /\ cancellable(q)
    /\ LET c == nodes[q].ctx
           k == [ctxs[c] EXCEPT !.nactive = @ - 1]
       IN dns_request_utm(c, k, Without(ListOf(k), q), 0)
    /\ UNCHANGED <<ucCase, live, fds, bufs, clock, sync>>

Relist(c, k, l) ==
    /\ ctxs' = [ctxs EXCEPT ![c] = [k EXCEPT !.head = l.head, !.tail = l.tail]]
    /\ nodes' = l.nodes

\* dns_end_query, before its callback: dns_resolve_cb, or the application's.
dns_end_query(c, q) ==
    /\ Relist(c, [ctxs[c] EXCEPT !.nactive = @ - 1], Without(ListOf(ctxs[c]), q))
    /\ sync' = IF sync.pc # "idle" /\ sync.q = q THEN [sync EXCEPT !.done = TRUE] ELSE sync

\* dns_send_this: one second, or longer when there is no other server to try.
dns_send_this(c, q, l) ==
    /\ \E d \in {1, 2} : Relist(c, ctxs[c], Moved(l, q, clock + d))
    /\ UNCHANGED sync

\* One turn of the loop of dns_timeouts: the first query is due; dns_send sends it
\* again, or ends it: after ntries, or when it cannot be sent.
TimeoutDue(c) ==
    LET q == ctxs[c].head
    IN /\ sync.pc \in {"idle", "timeouts"} /\ Opened(c) /\ q # NIL /\ nodes[q].deadline <= clock /\ "timeouts" \in ucCase.ops
       /\ \/ dns_end_query(c, q)
          \/ /\ nodes[q].tries < ctxs[c].opt.ntries
             /\ dns_send_this(c, q, [ListOf(ctxs[c]) EXCEPT !.nodes[q].tries = @ + 1])
       /\ UNCHANGED <<ucCase, live, fds, bufs, timer, clock, calls>>

\* dns_ioevent, a datagram: the reply ends its query, or makes it try another
\* name, with a new id.
IoEvent(c, q) ==
    /\ sync.pc \in {"idle", "io"} /\ Opened(c) /\ "timeouts" \in ucCase.ops
    /\ nodes[q].ctx = c /\ nodes[q].tries > 0
    /\ \/ dns_end_query(c, q)
       \/ \E n \in dns_newid(c) :
            dns_send_this(c, q, [ListOf(ctxs[c]) EXCEPT !.nodes[q] = [@ EXCEPT !.id = n.id, !.clash = n.clash, !.tries = 1]])
    /\ UNCHANGED <<ucCase, live, fds, bufs, timer, clock, calls>>

\* The end of dns_timeouts and of dns_ioevent.
EventsDone(c) ==
    /\ sync.pc = "idle" /\ Inited(c) /\ Opened(c) /\ "timeouts" \in ucCase.ops
    /\ dns_request_utm(c, ctxs[c], ListOf(ctxs[c]), clock)
    /\ UNCHANGED <<ucCase, live, fds, bufs, clock, calls, sync>>

Tick == /\ clock < ucCase.until /\ sync.pc \in {"idle", "poll"} /\ clock' = clock + 1
        /\ sync' = IF sync.pc = "poll" THEN [sync EXCEPT !.pc = "io"] ELSE sync
        /\ UNCHANGED <<ucCase, ctxs, live, nodes, fds, bufs, timer, calls>>

\* dns_resolve: it waits for q, with the other queries of the context.
dns_resolve(c, q) ==
    /\ Call("resolve") /\ nodes[q].ctx = c
    /\ sync' = [c |-> c, q |-> q, done |-> FALSE, pc |-> "timeouts"]
    /\ UNCHANGED <<ucCase, ctxs, live, nodes, fds, bufs, timer, clock>>

\* dns_timeouts returns: -1 when there is no query, else the time to poll.
ResolveTimeouts(c) ==
    LET q == ctxs[c].head
    IN /\ sync.pc = "timeouts" /\ sync.c = c /\ (q # NIL => nodes[q].deadline > clock)
       /\ dns_request_utm(c, ctxs[c], ListOf(ctxs[c]), clock)
       /\ sync' = [sync EXCEPT !.pc = IF q = NIL THEN "returned" ELSE "poll"]
       /\ UNCHANGED <<ucCase, live, fds, bufs, clock, calls>>

\* poll returns, at once or later (Tick); dns_ioevent reads all there is, if there
\* is something.
Polled ==
    /\ sync.pc = "poll"
    /\ sync' = [sync EXCEPT !.pc = "io"]
    /\ UNCHANGED <<ucCase, ctxs, live, nodes, fds, bufs, timer, clock, calls>>
ResolveAgain(c) ==
    /\ sync.pc = "io" /\ sync.c = c
    /\ dns_request_utm(c, ctxs[c], ListOf(ctxs[c]), clock) \/ UNCHANGED <<ctxs, nodes, timer>>
    /\ sync' = [sync EXCEPT !.pc = IF sync.done THEN "returned" ELSE "timeouts"]
    /\ UNCHANGED <<ucCase, live, fds, bufs, clock, calls>>

NotResolving == [c |-> NIL, q |-> NIL, done |-> FALSE, pc |-> "idle"]

\* dns_defctx is zeroed memory; or, for queries, a context that is open.
UcStart ==
    /\ live = {1} /\ calls = 0 /\ clock = 1 /\ sync = NotResolving
    /\ nodes = [q \in Queries |-> NoQuery]
    /\ timer = [c \in Contexts |-> -1]
    /\ LET ready == [Prepared([Fresh EXCEPT !.opt.ntries = 1]) EXCEPT !.utmexp = -1, !.utmfn = TRUE,
                        !.sock = 1, !.fam = 4, !.pbuf = 1, !.room = 4096]
           queue == "submit" \in ucCase.ops
       IN /\ ctxs = [c \in Contexts |-> IF c = 1 /\ queue THEN ready ELSE Zeroed]
          /\ fds = IF queue THEN {0, 1} ELSE {0}
          /\ bufs = IF queue THEN {1} ELSE {}

UcInit == ucCase \in UcCases /\ UcStart

UcNext ==
    \/ \E c \in Contexts :
        \/ dns_close(c) \/ dns_reset(c) \/ dns_init(c) \/ dns_free(c) \/ dns_open(c)
        \/ \E n \in Contexts : dns_new(c, n)
        \/ \E s \in ucCase.servers : dns_add_serv(c, s)
        \/ dns_add_serv_null(c) \/ dns_add_srch_null(c)
        \/ \E name \in ucCase.names : dns_add_srch(c, name)
        \/ dns_set_opts(c, ucCase.env.options)
        \/ \E o \in DOMAIN dns_opts, v \in ucCase.values : dns_set_opt(c, o, v)
        \/ \E fn \in BOOLEAN : dns_set_tmcbck(c, fn)
        \/ dns_submit_dn(c) \/ TimeoutDue(c) \/ EventsDone(c) \/ ResolveTimeouts(c) \/ ResolveAgain(c)
        \/ \E q \in Queries : IoEvent(c, q) \/ dns_resolve(c, q)
    \/ \E q \in Queries : dns_cancel(q)
    \/ Tick \/ Polled

-----------------------------------------------------------------------------
(* What is claimed.                                                        *)

\* An open context can be used: it has a server, every server has a port and is of
\* the family of the socket (so that sendto and the comparison of a reply's sender
\* fit), and the search list ends inside its buffer (dns_open, dns_add_srch).  The
\* options are in their ranges (dns_set_opts, dns_set_opt).
OpenUsable ==
    \A c \in live : ctxs[c].inited =>
        /\ \A o \in DOMAIN dns_opts : ctxs[c].opt[o] \in dns_opts[o].min..dns_opts[o].max
        /\ ctxs[c].srchend \in 0..SRCHBUF - 1 /\ ctxs[c].srch[ctxs[c].srchend] = 0
        /\ Opened(c) =>
            /\ ctxs[c].nserv \in 1..DNS_MAXSERV
            /\ \A i \in 0..ctxs[c].nserv - 1 :
                ctxs[c].serv[i].port # 0 /\ ctxs[c].serv[i].fam = ctxs[c].fam

\* Every descriptor and every buffer that is held belongs to one open context, and
\* descriptor 0, which a zeroed context seems to have, is never closed (CTXINITED
\* in dns_close, the error paths of dns_open, what dns_new does not copy).
ResourcesOwned ==
    LET open == {c \in live : ctxs[c].inited /\ Opened(c)}
    IN /\ fds = {0} \cup {ctxs[c].sock : c \in open}
       /\ bufs = {ctxs[c].pbuf : c \in open}
       /\ \A c, d \in open : c # d => ctxs[c].sock # ctxs[d].sock /\ ctxs[c].pbuf # ctxs[d].pbuf

\* What the library believes the application's timer to be is what it last told
\* it, across closing, copying, and changing the callback (dnsc_utmexp).
TimerTold == \A c \in live : ctxs[c].inited /\ ctxs[c].utmfn => timer[c] = ctxs[c].utmexp

\* The list holds exactly the active queries, dnsc_nactive of them, once each, in
\* both directions, in the order of their deadlines (what dns_assert_ctx asserts,
\* and what dns_timeouts and the timer rely on).
QueryList ==
    \A c \in live : ctxs[c].inited =>
        LET l == ListOf(ctxs[c])
            all == Chain(l)
        IN /\ Len(all) = ctxs[c].nactive /\ ToSet(all) = Active(c) /\ Cardinality(Active(c)) = Len(all)
           /\ l.tail = IF all = <<>> THEN NIL ELSE all[Len(all)]
           /\ \A i \in 1..Len(all) :
                /\ nodes[all[i]].prev = IF i = 1 THEN NIL ELSE all[i - 1]
                /\ i > 1 => nodes[all[i - 1]].deadline <= nodes[all[i]].deadline

\* The query dns_ioevent finds for an id is the one the id was drawn for, unless
\* five draws hit active queries (dns_newid).
ReplyFindsQuery ==
    \A c \in live : LET all == Chain(ListOf(ctxs[c]))
                    IN (\A q \in Active(c) : ~nodes[q].clash) =>
                        \A i, j \in 1..Len(all) : nodes[all[i]].id = nodes[all[j]].id => i = j

\* dns_resolve returns only after its callback has set the result, although its
\* loop also ends when dns_timeouts has nothing to wait for (dns_cancel refuses a
\* synchronous query).
ResolveReturns == sync.pc = "returned" => sync.done

\* The servers, search list and options dns_init finds: the servers are those of
\* the environment if it has some, else of the file, the first DNS_MAXSERV that are
\* addresses; the search list is the last one given, as far as it fits; an option
\* is the last number given for it, within its range (dns_init_resolvconf).
InitReads ==
    ucCase.kind = "conf" =>
        \A c \in {dns_init_resolvconf(Fresh, ucCase.conf, ucCase.env)} :
        LET Lines(keys) == SelectSeq(ucCase.conf, LAMBDA l : l.key \in keys /\ l.words # <<>>)
            texts == IF ucCase.env.servers.set THEN ucCase.env.servers.words
                     ELSE [i \in DOMAIN Lines({"nameserver"}) |-> Lines({"nameserver"})[i].words[1]]
            valid == SelectSeq(texts, LAMBDA s : s.fam # 0)
            taken == SubSeq(valid, 1, IF Len(valid) < DNS_MAXSERV THEN Len(valid) ELSE DNS_MAXSERV)
            lists == Lines({"domain", "search"})
            list == IF ucCase.env.localdomain.set THEN ucCase.env.localdomain.words
                    ELSE IF lists = <<>> THEN <<>>
                    ELSE IF Last(lists).key = "domain" THEN <<Last(lists).words[1]>> ELSE Last(lists).words
            Cells(names) == FlattenSeq([i \in DOMAIN names |-> names[i].dn])
            given == FlattenSeq([i \in DOMAIN Lines({"options"}) |-> Lines({"options"})[i].words]) \o ucCase.env.options
            For(o) == SelectSeq(given, LAMBDA w : w.name \in DOMAIN OptNames /\ w.digits # <<>> /\ OptNames[w.name] = o)
        IN /\ c.nserv = Len(taken) /\ \A i \in 1..Len(taken) : c.serv[i - 1] = taken[i]
           /\ Len(Cells(list)) + Len(ucCase.env.domain.dn) < SRCHBUF /\ list # <<>> =>
                [i \in 1..c.srchend |-> c.srch[i - 1]] = Cells(list) \o ucCase.env.domain.dn
           /\ \A o \in DOMAIN dns_opts : c.opt[o] = IF For(o) = <<>> THEN Fresh.opt[o]
                                                    ELSE Clamp(o, Number(Last(For(o)).digits))

\* Names, messages and addresses survive the way into bytes and back, nothing is
\* read or written outside its array, and every query of a context is found by its
\* reply, has a timer while it waits, and is released once.
UdnsSound ==
    /\ NamesRoundTrip /\ TextsBecomeNames /\ BuiltNames /\ NamesReadSafely /\ ResultFits /\ AnswersOfOneName
    /\ PrintedParses /\ TextsAsStandard
    /\ OpenUsable /\ ResourcesOwned /\ TimerTold /\ QueryList /\ ReplyFindsQuery /\ ResolveReturns /\ InitReads
=============================================================================
