------------------------------ MODULE HttpMessage ------------------------------
(***************************************************************************)
(* Sockets-2.3.5: what a kept http connection carries over from one        *)
(* request to the next.  HttpBaseSocket ("base") collects a request in a   *)
(* HttpRequest (HttpTransaction, HttpdCookies) and answers with a          *)
(* HttpResponse, HttpdSocket ("httpd") keeps the headers it knows in       *)
(* members of its own.  Names are compared without regard to their case.   *)
(* A cookie is a pair of a name and a value.                               *)
(***************************************************************************)
EXTENDS Integers, Sequences, SequencesExt, FiniteSets, TLC

CONSTANTS Spelling,       \* how a name may be written: a function to names
          Cookie,         \* values of a Cookie header: sequences of cookies
          Answer,         \* what an application answers: [header, cookies]
          MaxRequests, MaxLines    \* bounds: requests, headers of the first; each
                          \* request after it may have one less

VARIABLES class, n, phase,  \* "lines", "exec"; n counts requests
          req,            \* the HttpRequest; HttpdSocket's members
          copies, freed,  \* requests the application has copied, bodies deleted
          map, append,    \* m_response_header and m_response_header_append
          owed,           \* an answer not given in OnExec: {} or {it}
          lines,          \* the headers of this request, as they were sent
          seen, sent,     \* what the application sees, what was answered
          late            \* history: an answer was given since the last reset, after OnExec
vars == <<class, n, phase, req, copies, freed, map, append, owed, lines, seen, sent, late>>

Empty == [x \in {} |-> x]
Put(m, key, v) == [k \in DOMAIN m \cup {key} |-> IF k = key THEN v ELSE m[k]]

\* HttpRequest's members.  body and form are auto_ptrs: <<>> is NULL.
Blank == [first |-> 0, attribute |-> <<>>, header |-> Empty, cookies |-> <<>>, cookie |-> Empty,
          body |-> <<>>, form |-> <<>>]

Init ==
    /\ class \in {"base", "httpd"} /\ n = 1 /\ phase = "lines"
    /\ req = Blank /\ copies = {} /\ freed = {} /\ map = Empty /\ append = <<>> /\ owed = {}
    /\ lines = <<>> /\ seen = <<>> /\ sent = <<>> /\ late = FALSE

\* HttpRequest::AddCookie: the list keeps all, the map the last of a name.
AddCookie(r, cs) == [r EXCEPT !.cookies = @ \o cs,
                              !.cookie = FoldLeft(LAMBDA m, c : Put(m, Spelling[c[1]], c), @, cs)]
\* HttpRequest's setters for what OnFirst gives: method, version, uri, peer...
SetFirst(r) == [r EXCEPT !.first = n]
\* HttpTransaction::SetHeader, and the setters of each header by its name.
SetHeader(r, key, v) == [r EXCEPT !.header = Put(@, Spelling[key], v)]

-----------------------------------------------------------------------------
\* HttpBaseSocket::OnHeader, HttpdSocket::OnHeader: m_http_cookie is one value.
OnHeader ==
    /\ phase = "lines" /\ n + Len(lines) <= MaxLines /\ n <= MaxRequests
    /\ \E key \in DOMAIN Spelling : \E v \in IF Spelling[key] = "cookie" THEN Cookie ELSE {<<n, Len(lines)>>} :
         /\ lines' = Append(lines, <<key, v>>)
         /\ req' = IF Spelling[key] = "cookie" /\ class = "base" THEN AddCookie(req, v) ELSE SetHeader(req, key, v)
    /\ UNCHANGED <<class, n, phase, copies, freed, map, append, owed, seen, sent, late>>

\* HttpRequest::ParseBody: the query string goes before the body.
ParseBody(r) == IF r.attribute # <<>> THEN r.attribute ELSE IF r.body # <<>> THEN r.body ELSE <<"dummy", n>>

\* HttpdCookies of the connection, for the application.
Cookies(r) ==
    IF class = "base" THEN r.cookies ELSE IF "cookie" \in DOMAIN r.header THEN r.header["cookie"] ELSE <<>>

\* The request is complete: OnFirst (with or without a query string), the body
\* if there is one, Execute up to OnExec.
Complete ==
    /\ phase = "lines" /\ phase' = "exec" /\ n <= MaxRequests
    /\ \E query, body \in BOOLEAN :
         LET full == [SetFirst(req) EXCEPT !.attribute = IF query THEN <<"query", n>> ELSE @,
                                           !.body = IF body THEN <<"body", n>> ELSE @]
         IN  /\ req' = [full EXCEPT !.form = ParseBody(full)]
             /\ seen' = [first |-> n, header |-> full.header, cookies |-> Cookies(full), form |-> ParseBody(full),
                         asked |-> IF query THEN <<"query", n>> ELSE IF body THEN <<"body", n>> ELSE <<"dummy", n>>]
    /\ sent' = <<>> /\ UNCHANGED <<class, n, copies, freed, map, append, owed, lines, late>>

\* Mutant: the copy shares what the source owns.
CopyShared ==
    /\ phase = "exec" /\ class = "base" /\ copies = {}
    /\ copies' = {req} /\ UNCHANGED req
    /\ UNCHANGED <<class, n, phase, freed, map, append, owed, lines, seen, sent, late>>

\* The copy constructor takes the body and the form away from the source.
Copy ==
    /\ phase = "exec" /\ class = "base" /\ copies = {}
    /\ copies' = {req} /\ req' = [req EXCEPT !.body = <<>>, !.form = <<>>]
    /\ UNCHANGED <<class, n, phase, freed, map, append, owed, lines, seen, sent, late>>

\* Mutant: the names of two cookies are compared as they are written.
ResponseCookiesCased(a) == FoldLeft(LAMBDA m, c : Put(m, c[1], c), Empty, a.cookies)

\* HttpResponse::SetCookie, then Respond: content-length unless it is set, the
\* headers, one set-cookie for each name.
ResponseCookies(a) == FoldLeft(LAMBDA m, c : Put(m, Spelling[c[1]], c), Empty, a.cookies)
Respond(a, k) ==
    LET length == IF "content-length" \in DOMAIN map \/ \E p \in Range(append) : p[1] = "content-length"
                  THEN map ELSE Put(map, "content-length", k)
        m == [x \in DOMAIN length \cup a.header |-> IF x \in a.header THEN k ELSE length[x]]
        cs == ResponseCookies(a)
        ap == append \o SetToSeq({<<"set-cookie", cs[x]>> : x \in DOMAIN cs})
    IN  map' = m /\ append' = ap /\ sent' = [of |-> k, asked |-> a, map |-> m, append |-> ap]

\* HttpdCookies::setcookie for each cookie, SendResponse.  AddResponseHeader
\* keeps one value of a name.
SetCookies(a, k) ==
    LET m == [x \in DOMAIN map \cup a.header |-> IF x \in a.header THEN k ELSE map[x]]
        ms == IF a.cookies = <<>> THEN m ELSE Put(m, "set-cookie", Last(a.cookies))
    IN  map' = ms /\ UNCHANGED append /\ sent' = [of |-> k, asked |-> a, map |-> ms, append |-> append]

\* Mutant: the cookies are not emptied.
ResetKeeping(r) == IF class = "httpd" THEN [r EXCEPT !.form = <<>>, !.body = <<>>]
                   ELSE [Blank EXCEPT !.cookies = r.cookies, !.cookie = r.cookie]

\* HttpRequest::Reset; HttpdSocket::Reset leaves the headers it has seen.
Reset(r) == IF class = "httpd" THEN [r EXCEPT !.form = <<>>, !.body = <<>>, !.attribute = <<>>] ELSE Blank

\* The application answers in OnExec or Exec, or keeps the answer for later;
\* then the socket is reset, HTTPSocket::Reset with it.
OnExec ==
    /\ phase = "exec" /\ owed = {}
    /\ \E a \in Answer :
         \/ /\ class = "base" /\ Respond(a, n) /\ UNCHANGED owed
         \/ /\ class = "httpd" /\ SetCookies(a, n) /\ UNCHANGED owed
         \/ /\ class = "base" /\ owed' = {<<a, n>>} /\ UNCHANGED <<sent, map, append>>
    /\ phase' = "reset" /\ UNCHANGED <<class, n, req, copies, freed, lines, seen, late>>
AfterExec ==
    /\ phase = "reset" /\ phase' = "lines" /\ n' = n + 1
    /\ req' = Reset(req) /\ freed' = freed \cup {req.body, req.form} /\ map' = Empty /\ append' = <<>>
    /\ lines' = <<>> /\ seen' = <<>> /\ sent' = <<>> /\ late' = FALSE
    /\ UNCHANGED <<class, copies, owed>>

Later ==
    /\ phase = "lines" /\ owed # {} /\ owed' = {} /\ late' = TRUE
    /\ \E o \in owed : Respond(o[1], o[2])
    /\ UNCHANGED <<class, n, phase, req, copies, freed, lines, seen>>

Next == OnHeader \/ Complete \/ Copy \/ OnExec \/ AfterExec \/ Later
Spec == Init /\ [][Next]_vars

-----------------------------------------------------------------------------
Given(ls, name) == SelectSeq(ls, LAMBDA l : Spelling[l[1]] = name)
Names == {Spelling[l] : l \in DOMAIN Spelling} \ {"cookie"}

\* OnExec sees the request that was sent: of every header the last value, all
\* the cookies, the query string or the body, and with HttpBaseSocket nothing
\* of an earlier request.  Of HttpdSocket less is claimed: it keeps one Cookie
\* header, the last; and of a header or cookie the request does not send
\* nothing is said, as HttpdSocket::Reset leaves those of earlier requests
\* (HttpdSocket.cpp:273) where HTTPSocket.h:126 has "Reset state of socket to
\* sucessfully implement keep-alive".
RequestAsSent ==
    phase = "exec" =>
        LET cs == Given(lines, "cookie") IN
        /\ \A k \in Names : IF Given(lines, k) # <<>> THEN seen.header[k] = Last(Given(lines, k))[2]
                            ELSE class = "base" => k \notin DOMAIN seen.header
        /\ class = "base" => seen.cookies = FlattenSeq([i \in DOMAIN cs |-> cs[i][2]])
        /\ class = "httpd" /\ cs # <<>> => seen.cookies = Last(cs)[2]
        /\ seen.form = seen.asked

\* A copy of a request that is answered later has its body and its form
\* still, whatever the connection does with its own request.
CopiesKept == \A c \in copies : {c.body, c.form} \cap freed \subseteq {<<>>}

\* The header that is sent is that of the answer: its fields, its own length,
\* and every cookie that was set, with the last value set for it; of the
\* cookies of HttpdSocket, which has room for one, only the last is promised.
\* One answer is excepted: the one in OnExec that follows, with no reset in
\* between, an answer given after its OnExec.  It has that answer's fields too.
AnswerAsSet ==
    sent # <<>> /\ ~(late /\ phase = "reset") =>
        /\ {k \in DOMAIN sent.map : k # "set-cookie"} = sent.asked.header \cup (IF class = "base" THEN {"content-length"} ELSE {})
        /\ \A k \in DOMAIN sent.map : k # "set-cookie" => sent.map[k] = sent.of
        /\ LET cs == sent.asked.cookies IN
           IF class = "httpd" THEN cs # <<>> => sent.map["set-cookie"] = Last(cs)
           ELSE {p[2] : p \in Range(sent.append)} =
                {cs[i] : i \in {j \in DOMAIN cs : \A k \in DOMAIN cs : k > j => Spelling[cs[k][1]] # Spelling[cs[j][1]]}}
===============================================================================
