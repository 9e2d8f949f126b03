--------------------------- MODULE Configuration ----------------------------
(***************************************************************************)
(* The texts the programs read: JSON, and ss-manager's commands.           *)
(***************************************************************************)
EXTENDS Integers, Sequences, FiniteSets

(***************************************************************************)
(* The parser of the config file (src/json.c).  It reads the text twice:   *)
(* the first pass checks it and counts what each value will hold, the      *)
(* second allocates as much and fills it in.  Values are found again in    *)
(* the order in which they were made, so the passes have to agree on every *)
(* character.                                                              *)
(*                                                                         *)
(* A character is a string; "true", "false" and "null" are one each, as    *)
(* are the escapes \uXXXX, by the number of bytes they become.  Other      *)
(* characters of strings are letters.  Numbers are not evaluated, comments *)
(* are not enabled by read_jconf, and memory does not run out.             *)
(***************************************************************************)

CONSTANT JsonInputs         \* texts, and values whose text is parsed

VARIABLE json               \* one of them

LOCAL Seqs == INSTANCE SequencesExt

EOF == "eof"
Whitespace == {" ", "\n"}
Digits == {"0", "1"}
NumberChars == Digits \cup {"+", "-", ".", "e"}
Utf8 == [u1 |-> <<"u1">>, u2 |-> <<"u2", "80">>, u3 |-> <<"u3", "80", "80">>]

-----------------------------------------------------------------------------
(***************************************************************************)
(* The state s of a pass: its place i in the text, the values made so far  *)
(* (by the first pass) with the current one, top, and the next to be       *)
(* filled, alloc, the flags, and the current string.                       *)
(***************************************************************************)
Pass(first, values) ==
    [first |-> first, i |-> 1, values |-> values, top |-> 0, alloc |-> 1,
     flags |-> {"seek_value"}, string |-> <<>>, digits |-> 0, fits |-> TRUE, end |-> "no"]

Char(text, i) == IF i > Len(text) THEN EOF ELSE text[i]

Failed(s) == [s EXCEPT !.end = "failed"]
Set(s, on, off) == [s EXCEPT !.flags = (@ \ off) \cup on]
Type(s) == s.values[s.top].type
Flag(s, f) == f \in s.flags

\* A value counts its elements, the bytes of its string or of its members' names
\* with their zeros; the second pass fills them in.
new_value(s, type) ==
    IF s.first
    THEN [s EXCEPT !.values = Append(@, [type |-> type, parent |-> s.top, length |-> 0, bytes |-> 0,
                                         elements |-> <<>>, names |-> <<>>, string |-> <<>>]),
                   !.top = Len(s.values) + 1]
    ELSE [s EXCEPT !.top = s.alloc, !.alloc = @ + 1]

\* Mutant: the first pass counts two bytes for every escape.
escape_length_two(c) == IF c \in DOMAIN Utf8 THEN 2 ELSE 1

\* The bytes of an escape: counted by the first pass, written by the second.
escape_length(c) == IF c \in DOMAIN Utf8 THEN Len(Utf8[c]) ELSE 1
escape(c) == IF c \in DOMAIN Utf8 THEN Utf8[c] ELSE <<c>>

RECURSIVE SumLens(_)
SumLens(names) == IF names = <<>> THEN 0 ELSE Len(Head(names)) + 1 + SumLens(Tail(names))

\* The closing quote of a string that is a value.
CloseString(s) ==
    LET t == IF s.first
             THEN [s EXCEPT !.values[s.top].bytes = Len(s.string) + 1]
             ELSE [s EXCEPT !.values[s.top].string = s.string,
                            !.fits = @ /\ Len(s.string) + 1 <= s.values[s.top].bytes]
    IN  Set(t, {"next"}, {"string"})

\* The closing quote of the name of a member.
CloseName(s) ==
    LET v == s.values[s.top]
        t == IF s.first
             THEN [s EXCEPT !.values[s.top].bytes = @ + Len(s.string) + 1]
             ELSE [s EXCEPT !.values[s.top].names = Append(@, s.string),
                            !.fits = @ /\ SumLens(Append(v.names, s.string)) <= v.bytes]
    IN  Set(t, {"seek_value", "need_colon"}, {"string"})

InString(s, b) ==
    IF b = EOF \/ (Flag(s, "escaped") /\ b = "u?") THEN Failed(s)
    ELSE IF Flag(s, "escaped")
    THEN [Set(s, {}, {"escaped"}) EXCEPT
            !.string = @ \o IF s.first THEN [j \in 1..escape_length(b) |-> b] ELSE escape(b)]
    ELSE IF b = "\\" THEN Set(s, {"escaped"}, {})
    ELSE IF b # "\"" THEN [s EXCEPT !.string = Append(@, b)]
    ELSE IF Type(s) = "string" THEN CloseString(s)
    ELSE CloseName(s)

OpenString(s) == [Set(s, {"string"}, {}) EXCEPT !.string = <<>>]

\* The first place at or after i that is no part of a number.
RECURSIVE SkipNumber(_, _)
SkipNumber(text, i) == IF Char(text, i) \in NumberChars THEN SkipNumber(text, i + 1) ELSE i

\* A number begins: the second pass skips it, the first looks at it again.
BeginNumber(s, text, b) ==
    LET t == Set(new_value(s, "integer"), {}, {"num_zero", "num_e", "num_e_sign"}) IN
    IF ~s.first THEN [Set(t, {"next", "reproc"}, {}) EXCEPT !.i = SkipNumber(text, s.i)]
    ELSE Set([t EXCEPT !.digits = 0], IF b = "-" THEN {} ELSE {"reproc"}, {})

SeekValue(s, text, b) ==
    LET v == Set(s, {}, {"seek_value"}) IN
    IF b \in Whitespace THEN s
    ELSE IF b = "]"
    THEN IF s.top = 0 THEN [s EXCEPT !.end = "crashed"]     \* there is no value yet
         ELSE IF Type(s) = "array" THEN Set(v, {"next"}, {"need_comma"}) ELSE Failed(s)
    ELSE IF Flag(s, "need_comma") THEN IF b = "," THEN Set(s, {}, {"need_comma"}) ELSE Failed(s)
    ELSE IF Flag(s, "need_colon") THEN IF b = ":" THEN Set(s, {}, {"need_colon"}) ELSE Failed(s)
    ELSE CASE b = "{" -> new_value(v, "object")
           [] b = "[" -> Set(new_value(v, "array"), {"seek_value"}, {})
           [] b = "\"" -> OpenString(new_value(v, "string"))
           [] b \in {"true", "false", "null"} -> Set(new_value(v, b), {"next"}, {})
           [] b \in Digits \cup {"-"} -> BeginNumber(v, text, b)
           [] OTHER -> Failed(s)

AfterComma(s) == Set(s, {}, {"need_comma"})

InObject(s, b) ==
    CASE b \in Whitespace -> s
      [] b = "\"" /\ ~Flag(s, "need_comma") -> OpenString(s)
      [] b = "}" -> Set(s, {"next"}, {"need_comma"})
      [] b = "," /\ Flag(s, "need_comma") -> AfterComma(s)
      [] OTHER -> Failed(s)

\* Only the first pass looks at numbers.
InNumber(s, b) ==
    LET e == Flag(s, "num_e")
        double == Type(s) = "double"
    IN  CASE b \in Digits ->
               IF double \/ e THEN Set([s EXCEPT !.digits = @ + 1], IF e THEN {"num_e_sign"} ELSE {}, {})
               ELSE IF Flag(s, "num_zero") THEN Failed(s)
               ELSE Set([s EXCEPT !.digits = @ + 1],
                        IF s.digits = 0 /\ b = "0" THEN {"num_zero"} ELSE {}, {})
          [] b \in {"+", "-"} /\ e /\ ~Flag(s, "num_e_sign") -> Set(s, {"num_e_sign"}, {})
          [] b = "." /\ ~double ->
               IF s.digits = 0 THEN Failed(s)
               ELSE [s EXCEPT !.values[s.top].type = "double", !.digits = 0]
          [] OTHER ->
               IF (double \/ e) /\ s.digits = 0 THEN Failed(s)
               ELSE IF ~e /\ b = "e"
               THEN Set([s EXCEPT !.values[s.top].type = "double", !.digits = 0], {"num_e"}, {"num_zero"})
               ELSE Set(s, {"next", "reproc"}, {})

\* A value is complete: its parent is the current one again.
Next_value(s) ==
    LET parent == s.values[s.top].parent
        Added(t) == IF s.first
                    THEN [t EXCEPT !.values[parent].length = @ + 1, !.top = parent]
                    ELSE [t EXCEPT !.values[parent].elements = Append(@, s.top), !.top = parent,
                                   !.fits = @ /\ Len(s.values[parent].elements) < s.values[parent].length]
        After(t) == IF parent = 0 THEN Set(t, {"done"}, {})
                    ELSE Set(Added(t), IF s.values[parent].type = "array" THEN {"seek_value"} ELSE {}, {})
    IN  After(Set(s, {"need_comma"}, {"next"}))

\* What the byte b is taken for.
Look(s, text, b) ==
    IF Flag(s, "string") THEN InString(s, b)
    ELSE IF Flag(s, "done")
    THEN IF b = EOF THEN [s EXCEPT !.end = "done"]
         ELSE IF b \in Whitespace THEN s ELSE Failed(s)
    ELSE IF Flag(s, "seek_value") THEN SeekValue(s, text, b)
    ELSE IF Type(s) = "object" THEN InObject(s, b)
    ELSE InNumber(s, b)

\* One turn of the loop.
Turn(s, text) ==
    LET Again(t) == IF Flag(t, "reproc") THEN [Set(t, {}, {"reproc"}) EXCEPT !.i = @ - 1] ELSE t
        Over(u) == IF Flag(u, "next") THEN Next_value(u) ELSE u
        After(t) == IF t.end # "no" THEN t ELSE [Over(Again(t)) EXCEPT !.i = @ + 1]
    IN  After(Look(s, text, Char(text, s.i)))

RECURSIVE Run(_, _)
Run(s, text) == IF s.end # "no" THEN s ELSE Run(Turn(s, text), text)

FirstPass(text) == Run(Pass(TRUE, <<>>), text)

\* The second pass, which follows a first that did not fail.
json_parse_ex(text) == Run(Pass(FALSE, FirstPass(text).values), text)

\* The order in which json_value_free_ex releases the values: the last element
\* first, and a value after its elements.
RECURSIVE json_value_free_ex(_, _)
json_value_free_ex(values, n) ==
    LET kids == values[n].elements IN
    Seqs!FoldRight(LAMBDA kid, freed : freed \o json_value_free_ex(values, kid), kids, <<>>) \o <<n>>

-----------------------------------------------------------------------------
(* Values, as a program sees them, and their text.                         *)

RECURSIVE ValueAt(_, _)
ValueAt(values, n) ==
    LET v == values[n] IN
    CASE v.type = "array" -> <<"array", [j \in DOMAIN v.elements |-> ValueAt(values, v.elements[j])]>>
      [] v.type = "object" -> <<"object", [j \in DOMAIN v.elements |->
                                 <<v.names[j], ValueAt(values, v.elements[j])>>]>>
      [] v.type = "string" -> <<"string", v.string>>
      [] OTHER -> <<v.type, <<>>>>

Quoted(chars) == <<"\"">> \o chars \o <<"\"">>

RECURSIVE Commas(_)
Commas(texts) == IF Len(texts) <= 1 THEN Seqs!FlattenSeq(texts)
                 ELSE Head(texts) \o <<",">> \o Commas(Tail(texts))

RECURSIVE TextOf(_)
TextOf(v) ==
    CASE v[1] = "array" -> <<"[">> \o Commas([j \in DOMAIN v[2] |-> TextOf(v[2][j])]) \o <<"]">>
      [] v[1] = "object" -> <<"{">> \o Commas([j \in DOMAIN v[2] |->
                               Quoted(v[2][j][1]) \o <<":", " ">> \o TextOf(v[2][j][2])]) \o <<"}">>
      [] v[1] = "string" -> Quoted(v[2])
      [] v[1] = "integer" -> <<"-", "1", "0">>
      [] v[1] = "double" -> <<"0", ".", "1", "e", "+", "1">>
      [] OTHER -> <<v[1]>>

-----------------------------------------------------------------------------
(* What is claimed.                                                        *)

Text == IF json.kind = "value" THEN TextOf(json.value) ELSE json.text

\* Whatever the first pass accepts the second accepts: it makes the same values,
\* fills each of them exactly and writes nothing outside.
PassesAgree ==
    json.kind # "none" /\ FirstPass(Text).end = "done" =>
        \A s \in {json_parse_ex(Text)} :
        /\ s.end = "done" /\ s.fits /\ s.alloc = Len(s.values) + 1
        /\ \A n \in DOMAIN s.values :
            LET v == s.values[n] IN
            /\ Len(v.elements) = v.length
            /\ v.type = "string" => Len(v.string) + 1 = v.bytes
            /\ v.type = "object" => Len(v.names) = v.length /\ SumLens(v.names) = v.bytes

\* The text of a value is parsed to that value.
ParsesValues ==
    json.kind = "value" =>
        FirstPass(Text).end = "done" /\ ValueAt(json_parse_ex(Text).values, 1) = json.value

\* Releasing the result releases each of its values once, and after its elements.
FreesAll ==
    json.kind # "none" /\ FirstPass(Text).end = "done" =>
        \A values \in {json_parse_ex(Text).values} : \A freed \in {json_value_free_ex(values, 1)} :
            /\ Len(freed) = Len(values) /\ Seqs!ToSet(freed) = DOMAIN values
            /\ \A j, k \in DOMAIN freed : values[freed[j]].parent = freed[k] => j < k

-----------------------------------------------------------------------------
(***************************************************************************)
(* The datagrams of ss-manager as text (src/src/manager.c): how a command  *)
(* is taken apart in its buffer, what the object behind it makes of a      *)
(* struct server, and how the answer to a "ping" is cut into datagrams.    *)
(*                                                                         *)
(* A command is a sequence of characters: "w" of a word, ":" and " ", "{". *)
(* The words the manager knows are longer in the program; here they have   *)
(* one letter.  Positions count from 0, as in the program.                 *)
(***************************************************************************)

CONSTANTS
    PORT_CELLS, PASSWORD_CELLS,     \* sizes of the fields of struct server
    PING_SIZE,                      \* BUF_SIZE of the answer to a ping
    PREFIX_LEN,                     \* the length of "stat: {"
    TextCases

ASSUME TextAssumption ==
    \A c \in TextCases : c.kind \in {"none", "command", "server", "ping"}

VARIABLE textCase

text_vars == <<textCase>>

NoPos == -2
Least(S) == CHOOSE i \in S : \A j \in S : i <= j

-----------------------------------------------------------------------------
(* Commands.                                                               *)

\* The received text in its buffer, which was zeroed.
Buffer(msg) == [i \in 0..Len(msg) + 1 |-> IF i < Len(msg) THEN msg[i+1] ELSE "nul"]

\* Where the word begins and ends; its end is overwritten.
get_action(buf, len) ==
    LET starts == {i \in 0..len-1 : buf[i] # " "}
        start == Least(starts)
        stop == Least({i \in start..len : i = len \/ buf[i] \in {" ", ":"}})
    IN IF starts = {} THEN [start |-> NoPos, stop |-> NoPos, buf |-> buf]
       ELSE [start |-> start, stop |-> stop, buf |-> [buf EXCEPT ![stop] = "nul"]]

data_at(pos) == pos - 1

\* Where the object begins: with the character before its brace.
get_data(buf, len) ==
    LET braces == {i \in 0..len-1 : buf[i] = "{"}
    IN IF braces = {} THEN NoPos ELSE data_at(Least(braces))

\* The text that is given to json_parse_ex.
text_at(buf, len, data) ==
    LET ends == {i \in data..len : buf[i] = "nul"} IN [i \in 1..Least(ends) - data |-> buf[data + i - 1]]

Known(a) == a.start # NoPos /\ a.stop = a.start + 1 /\ a.buf[a.start] = "w"

-----------------------------------------------------------------------------
(* struct server.                                                          *)

ZeroTraffic == "0"
Struct == [i \in 1..PORT_CELLS + PASSWORD_CELLS + 1 |-> ZeroTraffic]      \* the last is of traffic

strncpy(mem, at, s, n) ==
    [i \in DOMAIN mem |-> IF i < at \/ i >= at + n THEN mem[i] ELSE IF i - at < Len(s) THEN s[i - at + 1] ELSE ZeroTraffic]

\* The string at a place of the structure.
c_string(mem, at) ==
    LET zeros == {i \in at..Len(mem) : mem[i] = ZeroTraffic} IN
    IF zeros = {} THEN <<"beyond">> ELSE SubSeq(mem, at, Least(zeros) - 1)

\* The structure after the members of an object; an unknown name ends the loop.
get_server(members) ==
    LET unknown == {i \in 1..Len(members) : members[i].name = "unknown"}
        n == IF unknown = {} THEN Len(members) ELSE Least(unknown) - 1
        s[i \in 0..n] ==
            IF i = 0 THEN Struct
            ELSE IF members[i].name = "server_port" /\ members[i].type \in {"string", "integer"}
                 THEN strncpy(s[i-1], 1, members[i].value,
                              IF members[i].type = "integer" THEN PORT_CELLS - 1 ELSE PORT_CELLS)
            ELSE IF members[i].name = "password" /\ members[i].type = "string"
                 THEN strncpy(s[i-1], PORT_CELLS + 1, members[i].value, PASSWORD_CELLS)
            ELSE s[i-1]
    IN s[n]

add_accepted(mem) == mem[1] # ZeroTraffic /\ mem[PORT_CELLS + 1] # ZeroTraffic

-----------------------------------------------------------------------------
(* The answer to a ping.                                                   *)

ping_full(pos) == pos > PING_SIZE \div 2

\* The datagrams: what is in the buffer and its length (without the NUL), whether it
\* begins with "stat: {", the servers in it, and the servers left out.
ping(sizes) ==
    LET p[i \in 0..Len(sizes)] ==
            IF i = 0 THEN [pos |-> PREFIX_LEN, in |-> {}, begun |-> TRUE, sent |-> <<>>, most |-> PREFIX_LEN, left |-> {}]
            ELSE LET q == p[i-1] IN
                 IF ping_full(q.pos)
                 THEN [q EXCEPT !.pos = 0, !.in = {}, !.begun = FALSE, !.left = @ \cup {i},
                                !.sent = Append(@, [in |-> q.in, begun |-> q.begun])]
                 ELSE [q EXCEPT !.pos = @ + sizes[i], !.in = @ \cup {i},
                                !.most = IF q.pos + sizes[i] > @ THEN q.pos + sizes[i] ELSE @]
        q == p[Len(sizes)]
    IN [sent |-> Append(q.sent, [in |-> q.in, begun |-> q.begun]), most |-> q.most, left |-> q.left]

TextInit == textCase \in TextCases

-----------------------------------------------------------------------------
(* What is claimed.                                                        *)

\* A command of the form the manual gives ("add: {...}") is parsed from its brace
\* on, and no command the manager knows makes it look before its buffer, although
\* it looks for the object one place before the brace (get_data) in a text
\* get_action has cut.
CommandUnderstood ==
    textCase.kind = "command" =>
        LET len == Len(textCase.msg)
            a == get_action(Buffer(textCase.msg), len)
            data == get_data(a.buf, len)
        IN Known(a) /\ data # NoPos =>
            /\ data >= 0
            /\ Len(textCase.msg) > 3 /\ SubSeq(textCase.msg, 1, 4) = <<"w", ":", " ", "{">>
                => text_at(a.buf, len, data) = SubSeq(textCase.msg, 3, len)

\* A server is added with the port and the password its command named last, if they
\* fit, and only with both; too long a port runs into the password and no further
\* (get_server, strncpy).
ServerAsNamed ==
    textCase.kind = "server" =>
        LET mem == get_server(textCase.members)
            ports == {i \in 1..Len(textCase.members) : textCase.members[i].name = "server_port"}
            pws == {i \in 1..Len(textCase.members) : textCase.members[i].name = "password"}
            last(S) == textCase.members[CHOOSE i \in S : \A j \in S : j <= i]
        IN /\ c_string(mem, 1) # <<"beyond">> /\ c_string(mem, PORT_CELLS + 1) # <<"beyond">>
           /\ (\A i \in 1..Len(textCase.members) : textCase.members[i].type = "string"
                                                    /\ textCase.members[i].name # "unknown") =>
                /\ ports # {} /\ Len(last(ports).value) < PORT_CELLS => c_string(mem, 1) = last(ports).value
                /\ pws # {} /\ Len(last(pws).value) < PASSWORD_CELLS
                    => c_string(mem, PORT_CELLS + 1) = last(pws).value
           /\ add_accepted(mem) => ports # {} /\ pws # {}

\* The answer to a ping stays inside its buffer, however many servers there are;
\* when one datagram is enough it names each of them, and every further datagram
\* costs one server, no server being named twice.
PingReports ==
    textCase.kind = "ping" =>
        LET x == ping(textCase.sizes) IN
        /\ x.most < PING_SIZE
        /\ x.sent[1].begun
        /\ Cardinality(x.left) = Len(x.sent) - 1
        /\ UNION {x.sent[i].in : i \in 1..Len(x.sent)} \cup x.left = 1..Len(textCase.sizes)
        /\ \A i, j \in 1..Len(x.sent) : i # j => x.sent[i].in \cap x.sent[j].in = {}

\* Text is read for what it says and in bounds: the two passes of json_parse_ex
\* agree and all they allocate is released, and ss-manager understands its
\* commands, names servers and answers pings.
TextsRead ==
    /\ PassesAgree /\ ParsesValues /\ FreesAll
    /\ CommandUnderstood /\ ServerAsNamed /\ PingReports
=============================================================================
