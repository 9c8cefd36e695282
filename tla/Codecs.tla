-------------------------------- MODULE Codecs --------------------------------
(***************************************************************************)
(* The conversions of Sockets-2.3.5 (Base64, Utility, Parse, HttpdForm,    *)
(* HttpdCookies, HTTPSocket::url_this) as functions of a text, which grows *)
(* by one character at a time.  A text is a sequence of character codes.   *)
(***************************************************************************)
EXTENDS Integers, Sequences, SequencesExt, FiniteSetsExt

CONSTANTS Alphabet,     \* codec -> the characters of its texts
          Begin,        \* codec -> the text it starts from
          MaxLen,       \* codec -> bound on the characters added
          LineLength    \* characters of a line that encode() writes, 76

VARIABLES codec, text
vars == <<codec, text>>

Init == codec \in DOMAIN Alphabet /\ text = Begin[codec]
Next == \E c \in Alphabet[codec] :
    /\ Len(text) < Len(Begin[codec]) + MaxLen[codec]
    /\ text' = Append(text, c) /\ UNCHANGED codec
Spec == Init /\ [][Next]_vars

Drop(s, n) == SubSeq(s, n + 1, Len(s))
Prefix(s, n) == SubSeq(s, 1, n)
Has(s, t) == \E i \in 0..(Len(s) - Len(t)) : Prefix(Drop(s, i), Len(t)) = t
\* std::string::find: how many characters are before the first t.
Find(s, t) == Min({i \in 0..(Len(s) - Len(t)) : Prefix(Drop(s, i), Len(t)) = t})

-----------------------------------------------------------------------------
(* Base64                                                                  *)

bstr == [i \in 0..63 |-> CASE i < 26 -> 65 + i [] i \in 26..51 -> 71 + i
                           [] i \in 52..61 -> i - 4 [] i = 62 -> 43 [] i = 63 -> 47]
rstr == [c \in 0..127 |-> CASE c = 43 -> 62 [] c = 47 -> 63 [] c \in 48..57 -> c + 4
                            [] c \in 65..90 -> c - 65 [] c \in 97..122 -> c - 71 [] OTHER -> 0]
Quad(b) ==
    CASE Len(b) = 1 -> <<bstr[b[1] \div 4], bstr[(b[1] % 4) * 16], 61, 61>>
      [] Len(b) = 2 -> <<bstr[b[1] \div 4], bstr[((b[1] % 4) * 16) + b[2] \div 16], bstr[(b[2] % 16) * 4], 61>>
      [] Len(b) = 3 -> <<bstr[b[1] \div 4], bstr[((b[1] % 4) * 16) + b[2] \div 16],
                         bstr[((b[2] % 16) * 4) + b[3] \div 64], bstr[b[3] % 64]>>
encode(input, add_crlf) ==
    FlattenSeq([g \in 1..((Len(input) + 2) \div 3) |->
        (IF add_crlf /\ g > 1 /\ (4 * (g - 1)) % LineLength = 0 THEN <<10>> ELSE <<>>)
        \o Quad(SubSeq(input, 3 * g - 2, Min({3 * g, Len(input)})))])

\* The bytes of four characters.
Bytes(q) ==
    <<((rstr[q[1]] * 4) % 256) + rstr[q[2]] \div 16>>
    \o (IF q[3] # 61 THEN <<((rstr[q[2]] * 16) % 256) + rstr[q[3]] \div 4>> ELSE <<>>)
    \o (IF q[4] # 61 THEN <<((rstr[q[3]] * 64) % 256) + rstr[q[4]]>> ELSE <<>>)

\* Mutant: line ends inside the text are not skipped.
RECURSIVE decodeLines(_)
decodeLines(input) ==
    IF Len(input) < 4 THEN <<>> ELSE Bytes(input) \o decodeLines(Drop(input, 4))

RECURSIVE decode(_)
decode(input) ==
    IF input = <<>> THEN <<>>
    ELSE IF Head(input) \in {13, 10} THEN decode(Tail(input))
    ELSE Bytes(input) \o decode(Drop(input, 4))
decode_length(str64) ==
    IF str64 = <<>> \/ Len(str64) % 4 # 0 THEN 0
    ELSE 3 * (Len(str64) \div 4 - 1) + 1 + (IF str64[Len(str64) - 1] # 61 THEN 1 ELSE 0)
                                         + (IF str64[Len(str64)] # 61 THEN 1 ELSE 0)

-----------------------------------------------------------------------------
(* Utility: numbers and RFC 1738                                           *)

RECURSIVE bigint2string(_)
bigint2string(l) == IF l < 10 THEN <<48 + l>> ELSE Append(bigint2string(l \div 10), 48 + (l % 10))
atoi64(str) == FoldLeft(LAMBDA l, c : l * 10 + c - 48, 0, str)
Digits(str) == Prefix(str, Min({i \in 0..Len(str) : i = Len(str) \/ str[i + 1] \notin 48..57}))
atol(str) == atoi64(Digits(str))

isalnum(c) == c \in (48..57) \cup (65..90) \cup (97..122)
isxdigit(c) == c \in (48..57) \cup (65..70) \cup (97..102)
Nibble(c) == c - 48 - (IF c >= 65 THEN 7 ELSE 0) - (IF c >= 97 THEN 32 ELSE 0)
Hex(n) == IF n < 10 THEN 48 + n ELSE 55 + n

rfc1738_encode(src) ==
    FlattenSeq([i \in 1..Len(src) |->
        CASE isalnum(src[i]) -> <<src[i]>>
          [] src[i] = 32 -> <<43>>
          [] OTHER -> <<37, Hex(src[i] \div 16), Hex(src[i] % 16)>>])

RECURSIVE rfc1738_decode(_)
rfc1738_decode(src) ==
    IF src = <<>> THEN <<>>
    ELSE IF src[1] = 37 /\ Len(src) >= 3 /\ isxdigit(src[2]) /\ isxdigit(src[3])
    THEN <<Nibble(src[2]) * 16 + Nibble(src[3])>> \o rfc1738_decode(Drop(src, 3))
    ELSE <<IF src[1] = 43 THEN 32 ELSE src[1]>> \o rfc1738_decode(Tail(src))

-----------------------------------------------------------------------------
(* Parse, without a break character: [str, ptr, word], ptr characters are  *)
(* behind it.                                                              *)

Parse(s) == [str |-> s, ptr |-> 0, word |-> <<>>]
White == {32, 9, 13, 10}
Skip(p, S) == LET ends == {i \in p.ptr..Len(p.str) : i = Len(p.str) \/ p.str[i + 1] \notin S} IN Min(ends)

\* Mutant: delimiters before the word are not skipped.
getwordUnskipped(p, splits) ==
    IF p.ptr > Len(p.str) THEN [p EXCEPT !.word = <<>>]
    ELSE LET end == Min({i \in p.ptr..Len(p.str) : i = Len(p.str) \/ p.str[i + 1] \in White \cup splits})
         IN [p EXCEPT !.ptr = end + 1, !.word = SubSeq(p.str, p.ptr + 1, end)]

\* One delimiter behind the word is skipped with it.
getword(p, splits) ==
    IF p.ptr > Len(p.str) THEN [p EXCEPT !.word = <<>>]
    ELSE LET
        D == White \cup splits
        x == Skip(p, D)
        end == Min({i \in x..Len(p.str) : i = Len(p.str) \/ p.str[i + 1] \in D})
    IN [p EXCEPT !.ptr = end + 1, !.word = SubSeq(p.str, x + 1, end)]
getrest(p, splits) ==
    LET at == IF p.ptr > Len(p.str) THEN p.ptr ELSE Skip(p, {32, 9} \cup splits) IN Drop(p.str, at)
getvalue(p, splits) == LET w == getword(p, splits) IN [w EXCEPT !.word = atol(w.word)]
RECURSIVE WordsFrom(_, _)
WordsFrom(p, splits) ==
    LET w == getword(p, splits)
    IN IF w.word = <<>> THEN <<>> ELSE <<w.word>> \o WordsFrom(w, splits)
Words(s, splits) == WordsFrom(Parse(s), splits)

\* HttpdCookies(s) and add(s): name and value of every word.
HttpdCookies(s) ==
    LET ws == Words(s, {59})
        At(w, i) == IF i <= Len(w) THEN w[i] ELSE <<>>
    IN [i \in 1..Len(ws) |-> LET w == Words(ws[i], {61}) IN <<At(w, 1), At(w, 2)>>]

-----------------------------------------------------------------------------
(* HttpdForm: the urlencoded body of a POST, and the query of a GET.  The  *)
(* two are decoded by the same switch; f is [cgi, name, slask, got_name].  *)

\* Mutant: only capital letters are digits.
FormHexUpper(c) == c - (48 + (IF c > 57 THEN 7 ELSE 0))

FormHex(c) == c - (48 + (IF c > 57 THEN 7 ELSE 0) + (IF c >= 97 THEN 32 ELSE 0))
EndOfValue(f) ==
    [f EXCEPT !.cgi = Append(@, IF f.got_name THEN <<f.name, f.slask>> ELSE <<f.slask, <<>>>>),
              !.got_name = FALSE, !.slask = <<>>]
FormChar(f, c) ==
    CASE c = 61 -> [f EXCEPT !.name = f.slask, !.slask = <<>>, !.got_name = TRUE]
      [] c = 38 -> EndOfValue(f)
      [] c = 43 -> [f EXCEPT !.slask = Append(@, 32)]
      [] OTHER -> [f EXCEPT !.slask = Append(@, c)]
Percent(f, high, low) == [f EXCEPT !.slask = Append(@, (FormHex(high) * 16 + FormHex(low)) % 256)]
NewForm == [cgi |-> <<>>, name |-> <<>>, slask |-> <<>>, got_name |-> FALSE]

RECURSIVE FormGet(_, _)
FormGet(f, buffer) ==
    IF buffer = <<>> THEN EndOfValue(f).cgi
    ELSE IF buffer[1] = 37 THEN FormGet(Percent(f, buffer[2], buffer[3]), Drop(buffer, 3))
    ELSE FormGet(FormChar(f, buffer[1]), Tail(buffer))

\* infil -> fread reads what the body has; c keeps its value at the end.
FreadAt(body, at, c) == IF at < Len(body) THEN body[at + 1] ELSE c

RECURSIVE FormPost(_, _, _, _, _)
FormPost(f, body, at, c, cl) ==
    IF cl < 0 \/ at > Len(body) THEN EndOfValue(f).cgi
    ELSE LET two == IF c = 37 THEN 2 ELSE 0
             g == IF c = 37 THEN Percent(f, body[at + 1], body[at + 2]) ELSE FormChar(f, c)
         IN IF cl - two > 0 THEN FormPost(g, body, at + two + 1, FreadAt(body, at + two, c), cl - two - 1)
            ELSE FormPost(g, body, at + two, c, cl - two - 1)
HttpdForm(body) == FormPost(NewForm, body, 1, FreadAt(body, 0, 0), Len(body) - 1)

\* What getvalue copies unless EnableRaw, and the length getlength makes it.
Escaped == [c \in {60, 62, 38} |-> CASE c = 60 -> <<38, 108, 116, 59>> [] c = 62 -> <<38, 103, 116, 59>>
                                   [] c = 38 -> <<38, 97, 109, 112, 59>>]
strcpyval(value) ==
    FlattenSeq([i \in 1..Len(value) |-> IF value[i] \in DOMAIN Escaped THEN Escaped[value[i]] ELSE <<value[i]>>])
getlength(value) ==
    FoldLeft(LAMBDA l, c : l + (IF c \in {60, 62} THEN 4 ELSE IF c = 38 THEN 5 ELSE 0), Len(value), value)

\* HttpPostSocket::OnConnect: the fields as a body, every value a list of lines.
Join(seqs, sep) == FlattenSeq([i \in 1..Len(seqs) |-> IF i = 1 THEN seqs[i] ELSE sep \o seqs[i]])
PostBody(fields) ==
    Join([i \in 1..Len(fields) |->
            fields[i][1] \o <<61>>
            \o Join([j \in 1..Len(fields[i][2]) |-> rfc1738_encode(fields[i][2][j])], <<37, 48, 100, 37, 48, 97>>)],
         <<38>>)

-----------------------------------------------------------------------------
(* Addresses and URLs                                                      *)

isipv4(str) == (\A i \in DOMAIN str : str[i] \in (48..57) \cup {46}) /\ Len(SelectSeq(str, LAMBDA c : c = 46)) = 3
\* Four numbers, cut to a byte each.
u2ip(str) ==
    LET v1 == getvalue(Parse(str), {46})
        v2 == getvalue(v1, {46})
        v3 == getvalue(v2, {46})
        v4 == getvalue(v3, {46})
    IN <<v1.word % 256, v2.word % 256, v3.word % 256, v4.word % 256>>
\* Mutant: the bytes in the other order.
l2ipReversed(ip) == Join([i \in 1..4 |-> bigint2string(ip[5 - i])], <<46>>)
l2ip(ip) == Join([i \in 1..4 |-> bigint2string(ip[i])], <<46>>)

ToLower(str) == [i \in 1..Len(str) |-> IF str[i] \in 65..90 THEN str[i] + 32 ELSE str[i]]
Http == <<104, 116, 116, 112>>
Https == Append(Http, 115)

Before(s, c) == IF Has(s, <<c>>) THEN Prefix(s, Find(s, <<c>>)) ELSE s
Behind(s, c) == Drop(s, Find(s, <<c>>) + 1)
\* Utility::Uri
Uri(url) ==
    LET sep == <<58, 47, 47>>
        whole == Has(url, sep)
        protocol == ToLower(Prefix(url, Find(url, sep)))
        rest == Drop(url, Find(url, sep) + 3)
        authority == Before(rest, 47)
        path == IF whole /\ Has(rest, <<47>>) THEN Drop(rest, Len(authority)) ELSE url
    IN [protocol |-> IF whole THEN protocol ELSE <<>>,
        host |-> IF whole THEN Before(authority, 58) ELSE <<>>,
        port |-> IF ~whole THEN 0
                 ELSE IF Has(authority, <<58>>) THEN atol(Behind(authority, 58))
                 ELSE IF protocol = Http THEN 80 ELSE IF protocol = Https THEN 443 ELSE 0,
        path |-> path, uri |-> Before(path, 63),
        query |-> IF Has(path, <<63>>) THEN Behind(path, 63) ELSE <<>>]

\* Mutant: a colon anywhere makes the host a pair.
url_thisColon(url_in) ==
    LET p == getword(Parse(url_in), {47})
        h == getword(p, {47})
        pair == getword(Parse(h.word), {58})
    IN [host |-> pair.word, port |-> getvalue(pair, {58}).word % 65536, url |-> <<47>> \o getrest(h, {47})]
\* HTTPSocket::url_this
url_this(url_in) ==
    LET p == getword(Parse(url_in), {47})
        h == getword(p, {47})
        pair == getword(Parse(h.word), {58})
        port == getvalue(pair, {58}).word
        colon == Has(h.word, <<58>>)
    IN [host |-> IF colon THEN pair.word ELSE h.word,
        port |-> IF colon THEN port % 65536 ELSE IF ToLower(p.word) = Append(Https, 58) THEN 443 ELSE 80,
        url |-> <<47>> \o getrest(h, {47})]

\* Database::safestr, unsafestr, xmlsafestr, a2bigint and a2ubigint
safestrQuotes(str) ==
    FlattenSeq([i \in 1..Len(str) |-> IF str[i] \in {39, 34} THEN <<92, str[i]>> ELSE <<str[i]>>])
safestr(str) ==
    FlattenSeq([i \in 1..Len(str) |-> IF str[i] \in {39, 92, 34} THEN <<92, str[i]>> ELSE <<str[i]>>])
RECURSIVE unsafestr(_)
unsafestr(str) ==
    IF str = <<>> THEN <<>>
    ELSE LET i == IF str[1] = 92 THEN 2 ELSE 1
         IN IF i > Len(str) THEN <<>> ELSE <<str[i]>> \o unsafestr(Drop(str, i))
Entity == [c \in {38, 60, 62, 34, 39} |->
    CASE c = 38 -> <<38, 97, 109, 112, 59>> [] c = 60 -> <<38, 108, 116, 59>> [] c = 62 -> <<38, 103, 116, 59>>
      [] c = 34 -> <<38, 113, 117, 111, 116, 59>> [] c = 39 -> <<38, 97, 112, 111, 115, 59>>]
xmlsafestr(str) == FlattenSeq([i \in 1..Len(str) |-> IF str[i] \in DOMAIN Entity THEN Entity[str[i]] ELSE <<str[i]>>])
a2ubigint(str) == atoi64(str)
a2bigint(str) == IF str[1] = 45 THEN -atoi64(Drop(str, 1)) ELSE atoi64(str)

\* Utility::FromUtf8, to Latin-1; the mutant looks at the first byte only.
RECURSIVE FromUtf8First(_)
FromUtf8First(str) ==
    IF str = <<>> THEN <<>>
    ELSE IF Len(str) > 1 /\ str[1] \in 192..223
         THEN <<((str[1] % 32) * 64 + (str[2] % 64)) % 256>> \o FromUtf8First(Drop(str, 2))
         ELSE <<str[1]>> \o FromUtf8First(Tail(str))
RECURSIVE FromUtf8(_)
FromUtf8(str) ==
    IF str = <<>> THEN <<>>
    ELSE IF Len(str) > 1 /\ str[1] \in 192..223 /\ str[2] \in 128..191
         THEN <<((str[1] % 32) * 64 + (str[2] % 64)) % 256>> \o FromUtf8(Drop(str, 2))
         ELSE <<str[1]>> \o FromUtf8(Tail(str))

-----------------------------------------------------------------------------
\* Base64: what is encoded is decoded to the same bytes, with line ends or
\* without, and decode_length is what decode then returns.
Base64Trip ==
    codec = "base64" =>
        /\ \A crlf \in BOOLEAN : decode(encode(text, crlf)) = text
        /\ decode_length(encode(text, FALSE)) = Len(text)

\* Fields that HttpPostSocket writes come out of HttpdForm as they were given,
\* whatever characters are in the values: lines are joined by CR LF.  The body
\* of a POST and the same text as the query of a GET give the same form, and
\* where every % is followed by two digits its names and values are those that
\* rfc1738_decode makes of the pieces between & and =.  A buffer of getlength
\* characters holds the escaped value.
FormTrip ==
    codec = "form" =>
        LET fields == << <<<<97>>, <<text>>>>, <<<<98>>, <<text, <<97>>>>>> >>
            body == PostBody(fields)
            valid == \A i \in DOMAIN text : text[i] = 37 =>
                       i + 2 <= Len(text) /\ isxdigit(text[i + 1]) /\ isxdigit(text[i + 2])
            Piece(w) == [i \in DOMAIN w |-> rfc1738_decode(w[i])]
        IN /\ HttpdForm(body) = << <<<<97>>, text>>, <<<<98>>, text \o <<13, 10, 97>>>> >>
           /\ FormGet(NewForm, body) = HttpdForm(body)
           /\ rfc1738_decode(rfc1738_encode(text)) = text
           /\ Len(strcpyval(text)) <= getlength(text)
           /\ valid => /\ FormGet(NewForm, text) = HttpdForm(text)
                       /\ ~Has(text, <<38>>) /\ Len(SelectSeq(text, LAMBDA c : c = 61)) = 1 =>
                            HttpdForm(text) = << Piece(<<Before(text, 61), Behind(text, 61)>>) >>

\* Parse hands out the maximal runs of characters that do not delimit, in their
\* order: none is lost, cut or run together, and the loop that stops at an
\* empty word stops at the end only.
WordsSplit ==
    codec = "words" =>
        LET D == White \cup {59}
            runs == {r \in (1..Len(text)) \X (1..Len(text)) :
                       /\ r[1] <= r[2] /\ \A i \in r[1]..r[2] : text[i] \notin D
                       /\ r[1] = 1 \/ text[r[1] - 1] \in D
                       /\ r[2] = Len(text) \/ text[r[2] + 1] \in D}
            sorted == SetToSortSeq(runs, LAMBDA a, b : a[1] < b[1])
        IN /\ Words(text, {59}) = [i \in 1..Len(sorted) |-> SubSeq(text, sorted[i][1], sorted[i][2])]
           /\ Len(HttpdCookies(text)) = Len(sorted)

\* A dotted address that isipv4 takes is written back by l2ip in a form that
\* reads as the same four bytes; a number is written and read back unchanged.
AddressTrip ==
    codec = "address" =>
        /\ isipv4(text) => isipv4(l2ip(u2ip(text))) /\ u2ip(l2ip(u2ip(text))) = u2ip(text)
        /\ LET n == atol(text) IN atoi64(bigint2string(n)) = n

\* A quoted string reads back as it was, and no quote in it ends the literal
\* it is put in: every one follows an odd number of backslashes
\* (Database::safestr, unsafestr).  The text of an XML attribute or element
\* has no character that ends it, and each & begins one of the five entities
\* (xmlsafestr).
SqlTrip ==
    codec = "sql" =>
        LET quoted == safestr(text)
            xml == xmlsafestr(text)
            Odd(i) == LET before == {k \in 1..i : \A j \in k..(i - 1) : quoted[j] = 92} IN (i - Min(before)) % 2 = 1
        IN /\ unsafestr(quoted) = text
           /\ \A i \in DOMAIN quoted : quoted[i] \in {39, 34} => Odd(i)
           /\ \A i \in DOMAIN xml : /\ xml[i] \notin {60, 62, 34, 39}
                                   /\ xml[i] = 38 => \E c \in DOMAIN Entity : IsPrefix(Entity[c], Drop(xml, i - 1))
           /\ (\A i \in DOMAIN text : text[i] \in 48..57) /\ text # <<>> =>
                a2bigint(<<45>> \o bigint2string(atol(text))) = -a2ubigint(text)

\* UTF-8 reads as the Latin-1 text it stands for, and a text in which no
\* two-byte character is complete is left as it is (Utility::FromUtf8).
Utf8Trip ==
    codec = "utf8" =>
        LET utf8 == FlattenSeq([i \in 1..Len(text) |->
                IF text[i] < 128 THEN <<text[i]>> ELSE <<192 + (text[i] \div 64), 128 + (text[i] % 64)>>])
        IN /\ FromUtf8(utf8) = text
           /\ (\A i \in 1..(Len(text) - 1) : ~(text[i] \in 192..223 /\ text[i + 1] \in 128..191)) =>
                FromUtf8(text) = text

\* The two URL parsers of the library agree: Utility::Uri and url_this find
\* the same host and port in a URL with a host and no empty port, and the same
\* path where there is one that does not begin with a second slash.
UrlParsersAgree ==
    codec = "url" /\ Uri(text).host # <<>> /\ ~Has(text, <<58, 58>>) =>
        LET u == Uri(text)  t == url_this(text) IN
        /\ u.host = t.host /\ u.port = t.port
        /\ u.path[1] = 47 /\ (Len(u.path) > 1 => u.path[2] # 47) => u.path = t.url
===============================================================================
