------------------------------- MODULE Request -------------------------------
(***************************************************************************)
(* One connection of postfix's policy protocol, Server::handle             *)
(* (src/src/server.h): the attributes of a request are read line by line   *)
(* into a TripletWriter, Core::process asks the modules of the chain in    *)
(* turn and Action::process makes the answer.  What a matcher finds and    *)
(* what the greylist decides is left open, and both may throw.             *)
(***************************************************************************)
EXTENDS Naturals, Sequences

\* The names the parser knows in a request of postfix (Tokens::Tokens, src/src/tokens.h).
postfixTokens == {"client_address", "sender", "recipient", "reverse_client_name", "client_name"}
postfixRequired == {"client_address", "sender", "recipient"}

CONSTANTS
    Key, Value,     \* names and values of the lines
    Chain,          \* chains of the core: sequences of [matcher, return, policy]
    Setting,        \* settings: records [status, dunno, defer, error]
    maxRequests,    \* _maxRequests, 0 for no limit
    MaxLines,       \* bound: lines of a request
    MaxHandled      \* bound: requests

\* A module of the chain is a matcher and a policy (Core::ModuleType, src/src/core.h).
Module == [matcher : {"all", "exact", "pattern"}, return : BOOLEAN,
           policy : {"whitelist", "greylist"}]
ASSUME ChainAssumption == Chain \subseteq Seq(Module)
ASSUME AnswerAssumption ==
    Setting \subseteq [status : BOOLEAN, dunno : STRING, defer : STRING, error : STRING]
ASSUME LimitAssumption == maxRequests \in Nat /\ MaxLines \in Nat /\ MaxHandled \in Nat

VARIABLES
    chain, setting, \* the configuration of the server
    stage,          \* of the handler: "read", "match", "decide", "write", "closed"
    map, required,  \* the TripletWriter and the parser's missing tokens
    eof,            \* SocketReader::_eof
    idx,            \* the module of the chain that is asked
    extra,          \* prefix and comment of Core::Extra
    action,         \* the result of Core::process
    handled,        \* requests answered
    asked, seen,    \* the first values since the last request; what the modules said
    answer,         \* the last answer, until the next line is read
    nlines          \* lines of this request

request == <<map, required>>
core == <<idx, extra, action, seen>>
config == <<chain, setting>>
requestVars == <<config, stage, request, eof, core, handled, asked, answer, nlines>>

\* The Extra and the TripletWriter a turn of the loop begins with.
NoExtra == [prefix |-> "none", comment |-> "none"]
NoAttribute == [x \in {} |-> {}]

\* std::map::insert, which keeps the value a key has.
insert(m, key, val) ==
    [k \in DOMAIN m \cup {key} |-> IF k \in DOMAIN m THEN m[k] ELSE val]

RequestInit ==
    /\ chain \in Chain /\ setting \in Setting
    /\ stage = "read" /\ map = NoAttribute /\ required = postfixRequired /\ eof = FALSE
    /\ idx = 1 /\ extra = NoExtra /\ action = "none" /\ handled = 0
    /\ asked = NoAttribute /\ seen = <<>> /\ answer = {} /\ nlines = 0

Turn(from, to) == stage = from /\ stage' = to

-----------------------------------------------------------------------------
\* Parser::parse with a line "key=val": TokenList::parse, TripletWriter::add.
Attribute(key, val) ==
    /\ nlines < MaxLines /\ handled < MaxHandled /\ nlines' = nlines + 1 /\ ~eof
    /\ Turn("read", "read")
    /\ required' = required \ {key}
    /\ map' = IF key \in postfixTokens THEN insert(map, key, val) ELSE map
    /\ asked' = insert(asked, key, val) /\ answer' = {}
    /\ eof' \in BOOLEAN         \* the stream may end before the newline
    /\ UNCHANGED <<config, core, handled>>

\* Faulty variant: a request needs no recipient.
EndOfRequestAny ==
    /\ ~eof /\ "sender" \notin required
    /\ Turn("read", "match") /\ idx' = 1 /\ extra' = NoExtra /\ action' = "none" /\ seen' = <<>>
    /\ UNCHANGED <<config, request, eof, handled, asked, answer, nlines>>

\* The empty line, with every required attribute given.
EndOfRequest ==
    /\ ~eof /\ required = {}
    /\ Turn("read", "match") /\ idx' = 1 /\ extra' = NoExtra /\ action' = "none" /\ seen' = <<>>
    /\ UNCHANGED <<config, request, eof, handled, asked, answer, nlines>>

\* parse throws at an empty line that comes too early; at the end of the
\* stream it returns and handle leaves the loop either way.
NoRequest ==
    /\ required # {} \/ eof
    /\ Turn("read", "closed")
    /\ UNCHANGED <<config, request, eof, core, handled, asked, answer, nlines>>

\* The peer closes, the server shuts the socket down or the thread is
\* interrupted.
EndOfStream ==
    /\ ~eof /\ Turn("read", "closed") /\ eof' \in BOOLEAN
    /\ UNCHANGED <<config, request, core, handled, asked, answer, nlines>>

-----------------------------------------------------------------------------
\* AllMatch matches; the others ask the data source, whose comment they take.
ModuleMatches ==
    /\ idx <= Len(chain) /\ Turn("match", "decide")
    /\ seen' = Append(seen, "match")
    /\ extra' = IF chain[idx].return \/ chain[idx].matcher = "pattern"
                THEN [extra EXCEPT !.comment = "row"] ELSE extra
    /\ UNCHANGED <<config, request, eof, idx, action, handled, asked, answer, nlines>>

NoMatch ==
    /\ idx <= Len(chain) /\ chain[idx].matcher # "all" /\ Turn("match", "match")
    /\ seen' = Append(seen, "pass") /\ idx' = idx + 1
    /\ UNCHANGED <<config, request, eof, extra, action, handled, asked, answer, nlines>>

EndOfChain ==
    /\ idx > Len(chain) /\ Turn("match", "write") /\ action' = "dunno"
    /\ UNCHANGED <<config, request, eof, idx, extra, seen, handled, asked, answer, nlines>>

\* Faulty variant: what the policies say is put together.
PolicyDecidesOn ==
    /\ Turn("decide", "match") /\ idx' = idx + 1
    /\ UNCHANGED <<config, request, eof, extra, action, seen, handled, asked, answer, nlines>>

PolicyDecides ==
    /\ Turn("decide", "write")
    /\ IF chain[idx].policy = "whitelist"
       THEN action' = "dunno" /\ extra' = [extra EXCEPT !.prefix = "wl"]
       ELSE \/ action' = "dunno" /\ extra' = [extra EXCEPT !.prefix = "ok"]
            \/ action' = "defer" /\ \E p \in {"new", "wait"} : extra' = [extra EXCEPT !.prefix = p]
    /\ UNCHANGED <<config, request, eof, idx, seen, handled, asked, answer, nlines>>

\* Faulty variant: the handler goes on with the next request.
ThrowsUnanswered ==
    /\ stage = "decide" /\ chain[idx].policy = "greylist"
    /\ stage' = "read" /\ action' = "error" /\ seen' = Append(seen, "error")
    /\ UNCHANGED <<config, request, eof, idx, extra, handled, asked, answer, nlines>>

\* A query, a pattern or an unknown member throws.
Throws ==
    /\ \/ stage = "match" /\ idx <= Len(chain) /\ chain[idx].matcher # "all"
       \/ stage = "decide" /\ chain[idx].policy = "greylist"
    /\ stage' = "write" /\ action' = "error" /\ seen' = Append(seen, "error")
    /\ extra' = [extra EXCEPT !.comment = "Error"]
    /\ UNCHANGED <<config, request, eof, idx, handled, asked, answer, nlines>>

\* Action::process: the text for the action, and the status if it is a defer.
Answer ==
    [text |-> setting[action], status |-> setting.status /\ setting[action] = "defer_if_permit",
     prefix |-> extra.prefix, of |-> map, asked |-> asked, seen |-> seen, action |-> action]

\* Faulty variant: one TripletWriter for the connection.
WriteKeeping ==
    /\ stage = "write" /\ answer' = {Answer} /\ handled' = handled + 1
    /\ stage' = IF handled' = maxRequests THEN "closed" ELSE "read"
    /\ required' = postfixRequired /\ asked' = NoAttribute /\ nlines' = 0
    /\ UNCHANGED <<config, map, eof, core>>

Write ==
    /\ stage = "write"
    /\ \/ /\ answer' = {Answer} /\ handled' = handled + 1
          /\ stage' = IF handled' = maxRequests THEN "closed" ELSE "read"
          /\ map' = NoAttribute /\ required' = postfixRequired /\ asked' = NoAttribute /\ nlines' = 0
       \/ /\ stage' = "closed" /\ UNCHANGED <<handled, answer, request, asked, nlines>>
    /\ UNCHANGED <<config, eof, core>>

Closed == stage = "closed" /\ UNCHANGED requestVars

Process == ModuleMatches \/ NoMatch \/ EndOfChain \/ PolicyDecides \/ Throws \/ Write
RequestNext ==
    \/ EndOfRequest \/ NoRequest \/ EndOfStream \/ Process \/ Closed
    \/ \E key \in Key, val \in Value : Attribute(key, val)
RequestSpec == RequestInit /\ [][RequestNext]_requestVars /\ WF_requestVars(Process)

-----------------------------------------------------------------------------
(* An answer is about the request it follows: the attributes used are the  *)
(* first ones given since the request before, and the three that are       *)
(* required are among them (server.h handle, parser.h parse).              *)
AnswersOwnRequest ==
    \A a \in answer :
        /\ postfixRequired \subseteq DOMAIN a.of
        /\ a.of = [k \in DOMAIN a.asked \cap postfixTokens |-> a.asked[k]]

\* What the modules said, s, gives the action act; prefix is what a policy set.
Matched(s) == {j \in DOMAIN s : s[j] = "match"}
Decided(s, act, prefix) ==
    /\ (act = "error") = (s # <<>> /\ s[Len(s)] = "error")
    /\ act = "defer" =>
          \E j \in Matched(s) : chain[j].policy = "greylist" /\ \A i \in Matched(s) : j <= i
    /\ \A j \in Matched(s), i \in DOMAIN s : i > j => s[i] = "error"
    /\ Matched(s) = {} /\ act # "error" => Len(s) = Len(chain)
    /\ (prefix # "none") = (Matched(s) # {} /\ act # "error")

(* The answer is the decision of the first module of the chain that        *)
(* matches: it is a defer only if that one is a greylist, an error only if *)
(* the module asked last threw, and it names a policy only if that one     *)
(* decided this request (core.cpp process, action.h process).              *)
FirstMatchDecides ==
    \A a \in answer : Decided(a.seen, a.action, a.prefix)

(* The two together: an answer of the policy daemon is about its request   *)
(* and is the decision of the first module that matches it.                *)
RequestDecided == AnswersOwnRequest /\ FirstMatchDecides

(* A complete request is answered or the connection ends (server.h handle):*)
(* no module and no error leaves the client without either.                *)
Asked(n) == stage = "match" /\ handled = n
Answered(n) == handled = n + 1 \/ stage = "closed"
RequestAnswered == \A n \in 0 .. MaxHandled : Asked(n) ~> Answered(n)
==============================================================================
