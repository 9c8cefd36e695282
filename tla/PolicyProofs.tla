---------------------------- MODULE PolicyProofs ----------------------------
(***************************************************************************)
(* A request for a policy decision is answered by the first module that    *)
(* matches it, for any chain of policies, and the greylist policy keeps    *)
(* its promises for any number of workers, any set of triplets, any        *)
(* timeout and any behaviour of the clock.                                 *)
(***************************************************************************)
EXTENDS Greylist, Request, TLAPS

-----------------------------------------------------------------------------
(* The answers of the policy daemon, for any chain, settings and lines.    *)

ExtraType == [prefix : {"none", "wl", "ok", "new", "wait"}, comment : {"none", "row", "Error"}]
RequestTypeOK ==
    /\ chain \in Seq(Module) /\ idx \in Nat /\ seen \in Seq({"match", "pass", "error"})
    /\ stage \in {"read", "match", "decide", "write", "closed"}
    /\ action \in {"none", "dunno", "defer", "error"}
    /\ extra \in ExtraType

\* The TripletWriter holds the attributes given since the last answer, and
\* what is still required are those not given.
OwnInv ==
    /\ map = [k \in DOMAIN asked \cap postfixTokens |-> asked[k]]
    /\ required = postfixRequired \ DOMAIN asked
    /\ stage \in {"match", "decide", "write"} => required = {}

\* The modules before the one that is asked did not match.
NoneBefore(n) == \A j \in 1 .. n : seen[j] = "pass"

\* How far Core::process is in the chain.
CoreInv ==
    /\ stage = "match" =>
          /\ idx = Len(seen) + 1 /\ idx <= Len(chain) + 1 /\ NoneBefore(Len(seen))
          /\ action = "none" /\ extra.prefix = "none"
    /\ stage = "decide" =>
          /\ idx = Len(seen) /\ idx \in 1 .. Len(chain) /\ NoneBefore(idx - 1)
          /\ seen[idx] = "match" /\ action = "none" /\ extra.prefix = "none"
    /\ stage = "write" => Decided(seen, action, extra.prefix)

RequestInv == RequestTypeOK /\ OwnInv /\ CoreInv /\ RequestDecided

(* A TripletWriter begins with the attributes of a request without lines.  *)
LEMMA NoneGiven ==
    /\ DOMAIN NoAttribute = {}
    /\ NoAttribute = [k \in DOMAIN NoAttribute \cap postfixTokens |-> NoAttribute[k]]
<1>1. DOMAIN NoAttribute = {}
  BY Zenon DEF NoAttribute
<1>2. DOMAIN NoAttribute \cap postfixTokens = {}
  BY Zenon, <1>1
<1> QED BY Zenon, <1>1, <1>2 DEF NoAttribute

(* A connection begins without an answer and without attributes.           *)
LEMMA RequestStart == RequestInit => RequestInv
<1> SUFFICES ASSUME RequestInit PROVE RequestInv
  BY Zenon
<1>1. RequestTypeOK
  BY ChainAssumption DEF RequestInit, RequestTypeOK, NoExtra, ExtraType
<1>2. OwnInv
  BY NoneGiven DEF RequestInit, OwnInv
<1>3. CoreInv
  BY Zenon DEF RequestInit, CoreInv
<1>4. RequestDecided
  BY Zenon DEF RequestInit, RequestDecided, AnswersOwnRequest, FirstMatchDecides
<1> QED BY Zenon, <1>1, <1>2, <1>3, <1>4 DEF RequestInv

(* What was answered stays right while nothing is answered.                *)
LEMMA AnswersKept ==
    ASSUME RequestDecided, answer' = {} \/ UNCHANGED <<answer, chain>>
    PROVE  RequestDecided'
  BY Zenon DEF RequestDecided, AnswersOwnRequest, FirstMatchDecides, Decided

(* The lines of a request, Parser::parse, keep it.                         *)
LEMMA LineStep ==
    ASSUME RequestInv, NEW key \in Key, NEW val \in Value, Attribute(key, val)
    PROVE  RequestInv'
<1> USE DEF RequestInv, Attribute, Turn, config, core
<1>1. RequestTypeOK'
  BY Zenon DEF RequestTypeOK
<1>2. OwnInv'
  <2>1. map = [k \in DOMAIN asked \cap postfixTokens |-> asked[k]]
    BY Zenon DEF OwnInv
  <2>2. asked' = [k \in DOMAIN asked \cup {key} |-> IF k \in DOMAIN asked THEN asked[k] ELSE val]
    BY Zenon DEF insert
  <2>3. map' = [k \in DOMAIN asked' \cap postfixTokens |-> asked'[k]]
    <3>1. CASE key \in postfixTokens
      BY <2>1, <2>2, <3>1 DEF insert
    <3>2. CASE key \notin postfixTokens
      BY Zenon, <2>1, <2>2, <3>2
    <3> QED BY Zenon, <3>1, <3>2
  <2>4. required' = postfixRequired \ DOMAIN asked'
    BY Zenon, <2>2 DEF OwnInv
  <2> QED BY Zenon, <2>3, <2>4 DEF OwnInv
<1>3. CoreInv'
  BY Zenon DEF CoreInv
<1>4. RequestDecided'
  BY Zenon, AnswersKept
<1> QED BY Zenon, <1>1, <1>2, <1>3, <1>4

(* So do the ends of a request and of the connection.                      *)
LEMMA EndStep ==
    ASSUME RequestInv, EndOfRequest \/ NoRequest \/ EndOfStream
    PROVE  RequestInv'
<1> USE DEF RequestInv, EndOfRequest, NoRequest, EndOfStream, Turn, config, core, request
<1>1. RequestTypeOK'
  <2>1. CASE EndOfRequest
    <3>1. /\ stage' = "match" /\ idx' = 1 /\ extra' = NoExtra /\ action' = "none" /\ seen' = <<>>
          /\ chain' = chain
      BY Zenon, <2>1
    <3> QED BY <3>1 DEF RequestTypeOK, NoExtra, ExtraType
  <2>2. CASE NoRequest \/ EndOfStream
    BY Zenon, <2>2 DEF RequestTypeOK
  <2> QED BY Zenon, <2>1, <2>2
<1>2. OwnInv'
  BY Zenon DEF OwnInv
<1>3. CoreInv'
  <2>1. CASE EndOfRequest
    BY <2>1 DEF CoreInv, NoneBefore, NoExtra, RequestTypeOK
  <2>2. CASE NoRequest \/ EndOfStream
    BY Zenon, <2>2 DEF CoreInv
  <2> QED BY Zenon, <2>1, <2>2
<1>4. RequestDecided'
  <2>1. UNCHANGED <<answer, chain>>
    BY Zenon
  <2> QED BY Zenon, <2>1, AnswersKept
<1> QED BY Zenon, <1>1, <1>2, <1>3, <1>4

(* A module that does not match passes the request on, and one that does   *)
(* hands it to its policy.                                                 *)
LEMMA MatchStep ==
    ASSUME RequestInv, ModuleMatches \/ NoMatch
    PROVE  RequestInv'
<1> USE DEF RequestInv, ModuleMatches, NoMatch, Turn, config, request
<1>1. RequestTypeOK'
  <2>1. extra' \in ExtraType
    BY Zenon DEF RequestTypeOK, ExtraType
  <2>2. seen' \in Seq({"match", "pass", "error"})
    <3>1. /\ seen \in Seq({"match", "pass", "error"})
          /\ seen' \in {Append(seen, "match"), Append(seen, "pass")}
      BY Zenon DEF RequestTypeOK
    <3> QED BY <3>1
  <2> QED BY <2>1, <2>2 DEF RequestTypeOK
<1>2. OwnInv'
  BY Zenon DEF OwnInv
<1>3. CoreInv'
  <2>1. /\ idx = Len(seen) + 1 /\ idx <= Len(chain) + 1 /\ NoneBefore(Len(seen))
        /\ action = "none" /\ extra.prefix = "none"
    BY Zenon DEF CoreInv
  <2>2. /\ Len(seen') = idx /\ \A j \in 1 .. Len(seen) : seen'[j] = seen[j]
        /\ seen'[idx] = (IF ModuleMatches THEN "match" ELSE "pass")
    BY <2>1 DEF RequestTypeOK
  <2>3. extra'.prefix = "none"
    BY Zenon, <2>1 DEF RequestTypeOK, ExtraType
  <2>4. CASE ModuleMatches
    BY <2>1, <2>2, <2>3, <2>4 DEF CoreInv, NoneBefore, RequestTypeOK
  <2>5. CASE NoMatch
    BY <2>1, <2>2, <2>3, <2>5 DEF CoreInv, NoneBefore, RequestTypeOK
  <2> QED BY Zenon, <2>4, <2>5
<1>4. RequestDecided'
  <2>1. UNCHANGED <<answer, chain>>
    BY Zenon
  <2> QED BY Zenon, <2>1, AnswersKept
<1> QED BY Zenon, <1>1, <1>2, <1>3, <1>4

(* A chain without a match is decided, *)
LEMMA EndOfChainStep ==
    ASSUME RequestInv, EndOfChain
    PROVE  RequestInv'
<1> USE DEF RequestInv, EndOfChain, Turn, config, request
<1>1. RequestTypeOK'
  BY Zenon DEF RequestTypeOK
<1>2. OwnInv'
  BY Zenon DEF OwnInv
<1>3. CoreInv'
  <2>1. /\ Len(seen) = Len(chain) /\ NoneBefore(Len(seen)) /\ extra.prefix = "none"
    BY DEF CoreInv, RequestTypeOK
  <2>2. Matched(seen) = {} /\ ~(seen # <<>> /\ seen[Len(seen)] = "error")
    BY <2>1 DEF Matched, NoneBefore, RequestTypeOK
  <2>3. Decided(seen, "dunno", "none")
    BY Zenon, <2>1, <2>2 DEF Decided
  <2> QED BY Zenon, <2>1, <2>3 DEF CoreInv, Decided
<1>4. RequestDecided'
  <2>1. UNCHANGED <<answer, chain>>
    BY Zenon
  <2> QED BY Zenon, <2>1, AnswersKept
<1> QED BY Zenon, <1>1, <1>2, <1>3, <1>4

(* so is one whose policy was asked, *)
LEMMA PolicyStep ==
    ASSUME RequestInv, PolicyDecides
    PROVE  RequestInv'
<1> USE DEF RequestInv, PolicyDecides, Turn, config, request
<1>1. RequestTypeOK'
  <2>1. extra' \in ExtraType
    BY Zenon DEF RequestTypeOK, ExtraType
  <2> QED BY Zenon, <2>1 DEF RequestTypeOK
<1>2. OwnInv'
  BY Zenon DEF OwnInv
<1>3. CoreInv'
  <2>1. /\ idx = Len(seen) /\ idx \in 1 .. Len(chain) /\ NoneBefore(idx - 1)
        /\ seen[idx] = "match"
    BY Zenon DEF CoreInv
  <2>2. Matched(seen) = {idx} /\ seen # <<>>
    BY <2>1 DEF Matched, NoneBefore, RequestTypeOK
  <2>3. chain[idx].policy \in {"whitelist", "greylist"}
    <3>1. chain[idx] \in Module
      BY <2>1 DEF RequestTypeOK
    <3> QED BY Zenon, <3>1 DEF Module
  <2>4. extra \in ExtraType
    BY Zenon DEF RequestTypeOK
  <2>5. /\ action' \in {"dunno", "defer"} /\ extra'.prefix # "none"
        /\ action' = "defer" => chain[idx].policy = "greylist"
    BY Zenon, <2>3, <2>4 DEF ExtraType
  <2>6. Decided(seen, action', extra'.prefix)
    BY <2>1, <2>2, <2>5 DEF Decided, RequestTypeOK
  <2> QED BY Zenon, <2>6 DEF CoreInv, Decided
<1>4. RequestDecided'
  <2>1. UNCHANGED <<answer, chain>>
    BY Zenon
  <2> QED BY Zenon, <2>1, AnswersKept
<1> QED BY Zenon, <1>1, <1>2, <1>3, <1>4

(* and one with a module that threw.                                       *)
LEMMA ThrowStep ==
    ASSUME RequestInv, Throws
    PROVE  RequestInv'
<1> USE DEF RequestInv, Throws, config, request
<1>1. RequestTypeOK'
  <2>1. extra' \in ExtraType
    BY Zenon DEF RequestTypeOK, ExtraType
  <2>2. seen' \in Seq({"match", "pass", "error"})
    <3>1. seen \in Seq({"match", "pass", "error"}) /\ seen' = Append(seen, "error")
      BY Zenon DEF RequestTypeOK
    <3> QED BY <3>1
  <2> QED BY Zenon, <2>1, <2>2 DEF RequestTypeOK
<1>2. OwnInv'
  BY Zenon DEF OwnInv
<1>3. CoreInv'
  <2> DEFINE n == Len(seen)
  <2>1. /\ Len(seen') = n + 1 /\ n \in Nat /\ seen' # <<>> /\ DOMAIN seen' = 1 .. n + 1
        /\ \A j \in 1 .. n : seen'[j] = seen[j]
        /\ seen'[n + 1] = "error"
    BY DEF RequestTypeOK
  <2>2. \A j \in 1 .. n : seen[j] = "match" => j = n
    BY <2>1 DEF CoreInv, NoneBefore
  <2>3. extra \in ExtraType /\ extra.prefix = "none" /\ extra' = [extra EXCEPT !.comment = "Error"]
    BY Zenon DEF CoreInv, RequestTypeOK
  <2>4. \A j \in Matched(seen') : j = n
    BY <2>1, <2>2 DEF Matched
  <2>5. \A j \in Matched(seen'), i \in DOMAIN seen' : i > j => seen'[i] = "error"
    BY <2>1, <2>4
  <2>6. Decided(seen', "error", "none")
    BY Zenon, <2>1, <2>5 DEF Decided
  <2>7. extra'.prefix = "none"
    BY Zenon, <2>3 DEF ExtraType
  <2>8. stage' = "write" /\ action' = "error" /\ chain' = chain
    BY Zenon
  <2>9. Decided(seen, action, extra.prefix)'
    BY Zenon, <2>6, <2>7, <2>8 DEF Decided
  <2> QED BY Zenon, <2>8, <2>9 DEF CoreInv
<1>4. RequestDecided'
  <2>1. UNCHANGED <<answer, chain>>
    BY Zenon
  <2> QED BY Zenon, <2>1, AnswersKept
<1> QED BY Zenon, <1>1, <1>2, <1>3, <1>4

(* Write sends what was decided, about the attributes that were given.     *)
LEMMA WriteStep ==
    ASSUME RequestInv, Write
    PROVE  RequestInv'
<1> USE DEF RequestInv, Write, config, core, request
<1>1. RequestTypeOK'
  BY Zenon DEF RequestTypeOK
<1>2. OwnInv'
  <2>1. CASE /\ map' = NoAttribute /\ asked' = NoAttribute
             /\ required' = postfixRequired /\ stage' \in {"read", "closed"}
    <3>1. required' = postfixRequired \ DOMAIN asked'
      BY <2>1, NoneGiven
    <3> QED BY <2>1, <3>1, NoneGiven DEF OwnInv
  <2>2. CASE stage' = "closed" /\ UNCHANGED <<map, required, asked>>
    BY Zenon, <2>2 DEF OwnInv
  <2> QED BY Zenon, <2>1, <2>2
<1>3. CoreInv'
  BY Zenon DEF CoreInv
<1>4. AnswersOwnRequest'
  <2>1. postfixRequired \subseteq DOMAIN map
    BY Zenon DEF OwnInv, postfixRequired, postfixTokens
  <2> QED BY <2>1 DEF OwnInv, RequestDecided, AnswersOwnRequest, Answer
<1>5. FirstMatchDecides'
  <2>1. CASE answer' = {Answer}
    <3>1. Answer.seen = seen /\ Answer.action = action /\ Answer.prefix = extra.prefix
      BY Zenon DEF Answer
    <3>2. Decided(Answer.seen, Answer.action, Answer.prefix) /\ chain' = chain
      BY Zenon, <3>1 DEF CoreInv
    <3> QED BY Zenon, <2>1, <3>2 DEF FirstMatchDecides, Decided
  <2>2. CASE answer' = answer
    BY Zenon, <2>2, AnswersKept DEF RequestDecided
  <2> QED BY Zenon, <2>1, <2>2
<1> QED BY Zenon, <1>1, <1>2, <1>3, <1>4, <1>5 DEF RequestDecided

(***************************************************************************)
(* Whatever the chain, the settings, the lines of the requests and how     *)
(* many of them come over the connection: an answer is about the request   *)
(* it follows and is the decision of the first module that matches         *)
(* (Server::handle, Parser::parse, Core::process, Action::process).        *)
(***************************************************************************)
THEOREM RequestsDecided == RequestSpec => []RequestDecided
<1>1. RequestInv /\ [RequestNext]_requestVars => RequestInv'
  <2> SUFFICES ASSUME RequestInv, [RequestNext]_requestVars PROVE RequestInv'
    BY Zenon
  <2>1. CASE UNCHANGED requestVars
    <3>1. /\ UNCHANGED <<chain, idx, seen, stage, action, extra>>
          /\ UNCHANGED <<map, required, asked, answer>>
      BY Zenon, <2>1 DEF requestVars, config, request, core
    <3>2. RequestTypeOK' /\ OwnInv'
      BY Zenon, <3>1 DEF RequestInv, RequestTypeOK, OwnInv
    <3>3. CoreInv' /\ RequestDecided'
      BY Zenon, <3>1, AnswersKept DEF RequestInv, CoreInv, NoneBefore, Decided
    <3> QED BY Zenon, <3>2, <3>3 DEF RequestInv
  <2>2. CASE EndOfRequest \/ NoRequest \/ EndOfStream
    BY Zenon, <2>2, EndStep
  <2>3. CASE Process
    BY Zenon, <2>3, MatchStep, EndOfChainStep, PolicyStep, ThrowStep, WriteStep DEF Process
  <2>4. CASE \E key \in Key, val \in Value : Attribute(key, val)
    BY Zenon, <2>4, LineStep
  <2> QED BY Zenon, <2>1, <2>2, <2>3, <2>4 DEF RequestNext, Closed
<1> QED BY <1>1, RequestStart, PTL DEF RequestSpec, RequestInv

-----------------------------------------------------------------------------
\* The rows and their history: all that the workers share.
RowsInv == CountExact /\ UtsIsBirth /\ NeverEarly

(* Where each action takes its worker.                                     *)
LEMMA Moves ==
    ASSUME NEW w \in Worker
    PROVE  /\ Decide(w) => Go(w, "idle", "find")
           /\ FindTriplet(w) => Go(w, "find", "decide")
           /\ FindNoTriplet(w) => Go(w, "find", "stamp")
           /\ StampInsert(w) => Go(w, "stamp", "insert")
           /\ InsertTriplet(w) \/ InsertDuplicate(w) => Go(w, "insert", "idle")
           /\ Pass(w) => Go(w, "decide", "increment")
           /\ Defer(w) => Go(w, "decide", "wait")
           /\ IncrementTriplet(w) => Go(w, "increment", "idle")
           /\ Reply(w) => Go(w, "wait", "idle")
           /\ QueryFails(w) => \E l \in {"find", "insert", "increment"} : Go(w, l, "idle")
  BY Zenon DEF Decide, FindTriplet, FindNoTriplet, StampInsert, InsertTriplet, InsertDuplicate,
     Pass, Defer, IncrementTriplet, Reply, QueryFails

(* Every step keeps the variables in their types.                          *)
LEMMA TypeStep ==
    ASSUME TypeOK, CountExact, LocalsExact, [Next]_vars
    PROVE  TypeOK'
<1> USE DEF TypeOK, vars, locals, Go, DecidePc
<1>1. CASE UNCHANGED vars
  BY Zenon, <1>1
<1>2. ASSUME NEW w \in Worker, Decide(w) PROVE TypeOK'
  BY <1>2 DEF Decide
<1>3. ASSUME NEW w \in Worker, FindTriplet(w) PROVE TypeOK'
  <2>1. PICK i \in DOMAIN table :
           /\ id' = [id EXCEPT ![w] = i]
           /\ count' = [count EXCEPT ![w] = table[i].count]
           /\ uts' = [uts EXCEPT ![w] = table[i].uts]
    BY Zenon, <1>3 DEF FindTriplet, Found
  <2>2. i \in Nat /\ table[i] \in Row
    BY <2>1
  <2>3. table[i].count \in Nat /\ table[i].uts \in Nat
    BY Zenon, <2>2 DEF Row
  <2> QED BY Zenon, <1>3, <2>1, <2>2, <2>3 DEF FindTriplet
<1>4. ASSUME NEW w \in Worker, FindNoTriplet(w) PROVE TypeOK'
  <2>1. Len(table) \in Nat
    OBVIOUS
  <2> QED BY Zenon, <1>4, <2>1 DEF FindNoTriplet
<1>5. ASSUME NEW w \in Worker, StampInsert(w) PROVE TypeOK'
  BY Zenon, <1>5 DEF StampInsert
<1>6. ASSUME NEW w \in Worker, InsertTriplet(w) PROVE TypeOK'
  <2>1. [key |-> req[w], count |-> 0, uts |-> lNow[w]] \in Row
    BY Zenon DEF Row
  <2>2. [born |-> lNow[w], saw |-> saw[w], first |-> 0, passes |-> 0] \in Past
    BY Zenon DEF Past
  <2>3. table' \in Seq(Row) /\ history' \in Seq(Past)
    BY <1>6, <2>1, <2>2 DEF InsertTriplet
  <2> QED BY Zenon, <1>6, <2>3 DEF InsertTriplet
<1>7. ASSUME NEW w \in Worker, InsertDuplicate(w) PROVE TypeOK'
  BY Zenon, <1>7 DEF InsertDuplicate
<1>8. ASSUME NEW w \in Worker, Pass(w) PROVE TypeOK'
  BY Zenon, <1>8 DEF Pass
<1>9. ASSUME NEW w \in Worker, Defer(w) PROVE TypeOK'
  BY Zenon, <1>9 DEF Defer
<1>10. ASSUME NEW w \in Worker, IncrementTriplet(w) PROVE TypeOK'
  <2>1. id[w] \in 1..Len(table) /\ id[w] \in 1..Len(history)
    BY Zenon, <1>10 DEF IncrementTriplet, LocalsExact, CountExact
  <2>2. table[id[w]] \in Row /\ history[id[w]] \in Past
    BY <2>1
  <2>3. Updated(w, table[id[w]].count + 1) \in Row
    BY SMTT(60), <2>2 DEF Row, Updated
  <2>4. Recorded(w) \in Past
    <3>1. /\ history[id[w]].born \in Nat /\ history[id[w]].saw \in Nat /\ history[id[w]].first \in Nat
          /\ history[id[w]].passes \in Nat /\ lNow[w] \in Nat
      BY Zenon, <2>2 DEF Past
    <3>2. PICK f \in Nat : f = IF history[id[w]].passes = 0 THEN lNow[w]
                              ELSE history[id[w]].first
      BY Zenon, <3>1
    <3>3. Recorded(w) = [born |-> history[id[w]].born, saw |-> history[id[w]].saw, first |-> f,
                         passes |-> history[id[w]].passes + 1]
      BY Zenon, <3>2 DEF Recorded
    <3>4. \A b, c, p \in Nat : [born |-> b, saw |-> c, first |-> f, passes |-> p] \in Past
      BY Zenon DEF Past
    <3> HIDE DEF TypeOK, Past, Row
    <3>5. history[id[w]].passes + 1 \in Nat
      BY <3>1
    <3> QED BY Zenon, <3>1, <3>3, <3>4, <3>5
  <2>5. table' \in Seq(Row) /\ history' \in Seq(Past)
    <3>1. \A R, r, s, i : s \in Seq(R) /\ r \in R /\ i \in 1..Len(s)
                            => [s EXCEPT ![i] = r] \in Seq(R)
      OBVIOUS
    <3> QED BY Zenon, <1>10, <2>1, <2>3, <2>4, <3>1 DEF IncrementTriplet
  <2> QED BY Zenon, <1>10, <2>5 DEF IncrementTriplet
<1>11. ASSUME NEW w \in Worker, Reply(w) PROVE TypeOK'
  BY Zenon, <1>11 DEF Reply
<1>12. ASSUME NEW w \in Worker, QueryFails(w) PROVE TypeOK'
  BY Zenon, <1>12 DEF QueryFails
<1>13. CASE SetClock
  BY <1>13, SettingAssumption DEF SetClock
<1> QED
  BY Zenon, <1>1, <1>2, <1>3, <1>4, <1>5, <1>6, <1>7, <1>8, <1>9, <1>10, <1>11,
     <1>12, <1>13 DEF Next

(* Inserting a row: the old rows keep their place, the new one is last.    *)
LEMMA InsertRows ==
    ASSUME TypeOK, CountExact, NEW w \in Worker, InsertTriplet(w)
    PROVE  /\ Len(table') = Len(table) + 1 /\ Len(history') = Len(table')
           /\ \A i \in 1..Len(table) : table'[i] = table[i] /\ history'[i] = history[i]
           /\ table'[Len(table')].count = 0
           /\ table'[Len(table')].uts = lNow[w]
           /\ history'[Len(table')].born = lNow[w]
           /\ history'[Len(table')].passes = 0
  BY DEF InsertTriplet, TypeOK, CountExact, Row, Past

(* Letting a request through changes one row: its count and its uts.       *)
LEMMA IncrementRows ==
    ASSUME TypeOK, CountExact, LocalsExact, NEW w \in Worker, IncrementTriplet(w)
    PROVE  /\ id[w] \in 1..Len(table)
           /\ Len(table') = Len(table) /\ Len(history') = Len(history)
           /\ \A i \in 1..Len(table) : i # id[w] =>
                 table'[i] = table[i] /\ history'[i] = history[i]
           /\ table'[id[w]].count = table[id[w]].count + 1
           /\ history'[id[w]].passes = history[id[w]].passes + 1
           /\ history'[id[w]].born = history[id[w]].born
           /\ history'[id[w]].first =
                 IF history[id[w]].passes = 0 THEN lNow[w] ELSE history[id[w]].first
<1>1. id[w] \in 1..Len(table) /\ id[w] \in 1..Len(history)
  BY Zenon DEF IncrementTriplet, Go, LocalsExact, CountExact
<1>2. table[id[w]] \in Row /\ history[id[w]] \in Past
  BY <1>1 DEF TypeOK
<1>3. Len(table') = Len(table) /\ Len(history') = Len(history)
  BY <1>1 DEF IncrementTriplet, TypeOK
<1>4. \A i \in 1..Len(table) : i # id[w] => table'[i] = table[i] /\ history'[i] = history[i]
  BY <1>1 DEF IncrementTriplet, TypeOK, CountExact
<1>5. table'[id[w]] = Updated(w, table[id[w]].count + 1) /\ history'[id[w]] = Recorded(w)
  BY <1>1 DEF IncrementTriplet, TypeOK
<1> QED BY SMTT(60), <1>1, <1>2, <1>3, <1>4, <1>5 DEF Updated, Recorded, Row, Past

(* Only inserting and letting through touch the table and its history.     *)
LEMMA TableStep ==
    ASSUME [Next]_vars, ~UNCHANGED <<table, history>>
    PROVE  \E w \in Worker : InsertTriplet(w) \/ IncrementTriplet(w)
<1>1. \A w \in Worker : ~(Decide(w) \/ FindTriplet(w) \/ FindNoTriplet(w) \/ StampInsert(w))
  BY Zenon DEF Decide, FindTriplet, FindNoTriplet, StampInsert
<1>2. \A w \in Worker : ~(InsertDuplicate(w) \/ Pass(w) \/ Defer(w) \/ Reply(w) \/ QueryFails(w))
  BY Zenon DEF InsertDuplicate, Pass, Defer, Reply, QueryFails
<1>3. ~SetClock /\ ~UNCHANGED vars
  BY Zenon DEF SetClock, vars
<1> QED BY Zenon, <1>1, <1>2, <1>3 DEF Next

(* Every step keeps the rows and their history right.                      *)
LEMMA RowsStep ==
    ASSUME TypeOK, RowsInv, LocalsExact, [Next]_vars
    PROVE  RowsInv'
<1> USE SettingAssumption DEF RowsInv
<1>1. CASE UNCHANGED <<table, history>>
  BY Zenon, <1>1 DEF CountExact, UtsIsBirth, NeverEarly
<1>2. ASSUME NEW w \in Worker, InsertTriplet(w) PROVE RowsInv'
  <2>1. \A i \in 1..Len(table') : i \in 1..Len(table) \/ i = Len(table')
    BY SMTT(60), <1>2, InsertRows DEF TypeOK
  <2>2. CountExact'
    BY Zenon, <1>2, <2>1, InsertRows DEF CountExact
  <2>3. UtsIsBirth'
    BY Zenon, <1>2, <2>1, InsertRows DEF UtsIsBirth
  <2>4. NeverEarly'
    BY <1>2, <2>1, InsertRows DEF NeverEarly, CountExact
  <2> QED BY Zenon, <2>2, <2>3, <2>4
<1>3. ASSUME NEW w \in Worker, IncrementTriplet(w) PROVE RowsInv'
  <2>1. table[id[w]].count \in Nat /\ history[id[w]].born \in Nat /\ lNow[w] \in Nat
    <3>1. id[w] \in 1..Len(table) /\ id[w] \in 1..Len(history)
      BY Zenon, <1>3, IncrementRows DEF CountExact
    <3>2. table[id[w]] \in Row /\ history[id[w]] \in Past /\ lNow[w] \in Nat
      BY <3>1 DEF TypeOK
    <3> QED BY Zenon, <3>2 DEF Row, Past
  <2>2. CountExact'
    BY Zenon, <1>3, IncrementRows DEF CountExact
  <2>3. UtsIsBirth'
    BY SMTT(60), <1>3, <2>1, IncrementRows DEF UtsIsBirth
  <2>4. history[id[w]].passes = 0 => lNow[w] > history[id[w]].born + Timeout
    <3>1. table[id[w]].count = history[id[w]].passes
      BY Zenon, <1>3, IncrementRows DEF CountExact
    <3>2. pc[w] = "increment" /\ count[w] \in Nat
      BY Zenon, <1>3 DEF IncrementTriplet, Go, TypeOK
    <3> QED BY <2>1, <3>1, <3>2 DEF LocalsExact
  <2>5. table[id[w]].count = history[id[w]].passes
    BY <1>3, IncrementRows DEF CountExact
  <2>6. NeverEarly'
    <3> SUFFICES ASSUME NEW i \in 1..Len(history'), history'[i].passes > 0
                 PROVE  history'[i].first > history'[i].born + Timeout
      BY Zenon DEF NeverEarly
    <3>1. CASE i = id[w]
      <4>1. history'[i].born = history[i].born
        BY Zenon, <1>3, <3>1, IncrementRows
      <4>2. i \in 1..Len(history)
        BY Zenon, <1>3, IncrementRows
      <4>3. CASE history[i].passes = 0
        BY Zenon, <1>3, <2>4, <3>1, <4>1, <4>3, IncrementRows
      <4>4. CASE history[i].passes # 0
        <5>1. history[i].passes > 0
          BY <2>1, <2>5, <3>1, <4>4
        <5>2. history'[i].first = history[i].first
          BY Zenon, <1>3, <3>1, <4>4, IncrementRows
        <5> QED BY Zenon, <4>1, <4>2, <5>1, <5>2 DEF NeverEarly
      <4> QED BY Zenon, <4>3, <4>4
    <3>2. CASE i # id[w]
      BY SMTT(60), <1>3, <3>2, IncrementRows DEF NeverEarly, CountExact
    <3> QED BY Zenon, <3>1, <3>2
  <2> QED BY <2>2, <2>3, <2>6
<1> QED
  BY Zenon, <1>1, <1>2, <1>3, TableStep

(* What LocalsExact says of one worker.                                    *)
Exact(w) ==
    pc[w] \in {"decide", "increment", "wait"} =>
        /\ id[w] \in 1..Len(table)
        /\ count[w] <= table[id[w]].count
        /\ count[w] = 0 => uts[w] = history[id[w]].born
        /\ pc[w] = "wait" => count[w] = 0 /\ lNow[w] <= history[id[w]].born + Timeout
        /\ pc[w] = "increment" /\ count[w] = 0 => lNow[w] > history[id[w]].born + Timeout

(* A step that leaves a worker's locals alone leaves what they say true,   *)
(* provided rows stay, keep their birth and never lose count.              *)
LEMMA ExactKept ==
    ASSUME TypeOK, CountExact, NEW w \in Worker, Exact(w),
           pc'[w] = pc[w] \/ pc'[w] \notin {"decide", "increment", "wait"},
           id'[w] = id[w], count'[w] = count[w], uts'[w] = uts[w], lNow'[w] = lNow[w],
           Len(table') >= Len(table), Len(table') \in Nat,
           \A i \in 1..Len(table) : /\ table'[i].count \in Nat
                                    /\ table'[i].count >= table[i].count
                                    /\ history'[i].born = history[i].born
    PROVE  Exact(w)'
<1> SUFFICES ASSUME pc'[w] \in {"decide", "increment", "wait"} PROVE Exact(w)'
  BY Zenon DEF Exact
<1>1. id[w] \in 1..Len(table) /\ count[w] \in Nat /\ Len(table) \in Nat
  BY DEF Exact, TypeOK
<1>2. table[id[w]].count \in Nat
  <2>1. table[id[w]] \in Row
    BY <1>1 DEF TypeOK
  <2> QED BY Zenon, <2>1 DEF Row
<1> QED BY SMTT(60), <1>1, <1>2 DEF Exact

(* Every step keeps what the workers remember true of the table.           *)
LEMMA LocalsStep ==
    ASSUME TypeOK, RowsInv, LocalsExact, [Next]_vars
    PROVE  LocalsExact'
<1> USE SettingAssumption DEF RowsInv, locals
<1>1. \A v \in Worker : Exact(v)
  BY Zenon DEF LocalsExact, Exact
<1>2. \A i \in 1..Len(table) : /\ table[i].count \in Nat /\ table[i].uts \in Nat
                               /\ history[i].born \in Nat
  <2>1. \A i \in 1..Len(table) : table[i] \in Row /\ history[i] \in Past
    BY DEF TypeOK, CountExact
  <2> QED BY Zenon, <2>1 DEF Row, Past
<1>3. Len(table) \in Nat
  BY DEF TypeOK
<1> SUFFICES ASSUME NEW v \in Worker PROVE Exact(v)'
  BY Zenon DEF LocalsExact, Exact
<1>4. CASE UNCHANGED vars \/ SetClock
  BY Zenon, <1>1, <1>4 DEF vars, SetClock, Exact
<1>5. ASSUME NEW w \in Worker,
             Decide(w) \/ FindNoTriplet(w) \/ StampInsert(w) \/ InsertDuplicate(w)
             \/ Reply(w) \/ QueryFails(w)
      PROVE  Exact(v)'
  <2>1. UNCHANGED <<table, history, id, count, uts>>
    BY Zenon, <1>5 DEF Decide, FindNoTriplet, StampInsert, InsertDuplicate, Reply, QueryFails
  <2>2. CASE v = w
    BY Zenon, <1>5, <2>2 DEF Exact, TypeOK, Decide, FindNoTriplet, StampInsert, InsertDuplicate,
       Reply, QueryFails, Go
  <2>3. CASE v # w
    <3>1. pc'[v] = pc[v] /\ lNow'[v] = lNow[v]
      BY Zenon, <1>5, <2>3 DEF TypeOK, Decide, FindNoTriplet, StampInsert, InsertDuplicate,
         Reply, QueryFails, Go
    <3> QED BY Zenon, <1>1, <2>1, <3>1 DEF Exact
  <2> QED BY Zenon, <2>2, <2>3
<1>6. ASSUME NEW w \in Worker, FindTriplet(w) PROVE Exact(v)'
  <2>1. UNCHANGED <<table, history, lNow>>
    BY Zenon, <1>6 DEF FindTriplet
  <2>2. CASE v = w
    <3>1. PICK i \in 1..Len(table) :
             id'[w] = i /\ count'[w] = table[i].count /\ uts'[w] = table[i].uts
      <4>1. DOMAIN table = 1..Len(table)
        BY DEF TypeOK
      <4>2. PICK i \in Found(req[w]) :
               /\ id' = [id EXCEPT ![w] = i]
               /\ count' = [count EXCEPT ![w] = table[i].count]
               /\ uts' = [uts EXCEPT ![w] = table[i].uts]
        BY Zenon, <1>6 DEF FindTriplet
      <4>3. id \in [Worker -> Nat] /\ count \in [Worker -> Nat] /\ uts \in [Worker -> Nat]
        BY Zenon DEF TypeOK
      <4> QED BY Zenon, <4>1, <4>2, <4>3 DEF Found
    <3>2. pc'[w] = "decide"
      BY Zenon, <1>6 DEF FindTriplet, Go, TypeOK
    <3> QED BY <1>2, <2>1, <2>2, <3>1, <3>2 DEF Exact, UtsIsBirth
  <2>3. CASE v # w
    <3>1. pc'[v] = pc[v] /\ id'[v] = id[v] /\ count'[v] = count[v] /\ uts'[v] = uts[v]
      BY Zenon, <1>6, <2>3 DEF TypeOK, FindTriplet, Go
    <3> QED BY Zenon, <1>1, <2>1, <3>1 DEF Exact
  <2> QED BY <2>2, <2>3
<1>7. ASSUME NEW w \in Worker, Pass(w) \/ Defer(w) PROVE Exact(v)'
  <2>1. UNCHANGED <<table, history, id, count, uts>>
    BY Zenon, <1>7 DEF Pass, Defer
  <2>2. CASE v = w
    <3>1. /\ id[w] \in 1..Len(table) /\ count[w] <= table[id[w]].count
          /\ count[w] = 0 => uts[w] = history[id[w]].born
      BY Zenon, <1>1, <1>7 DEF Pass, Defer, Go, Exact
    <3>2. lNow'[w] = clock /\ clock \in Nat /\ count[w] \in Nat /\ uts[w] \in Nat
      BY Zenon, <1>7 DEF Pass, Defer, TypeOK
    <3>3. \/ pc'[w] = "increment" /\ (count[w] > 0 \/ TimeDiff(w, clock) > Timeout)
          \/ pc'[w] = "wait" /\ ~(count[w] > 0 \/ TimeDiff(w, clock) > Timeout)
      BY Zenon, <1>7 DEF Pass, Defer, Go, TypeOK
    <3> QED BY SMTT(60), <2>1, <2>2, <3>1, <3>2, <3>3 DEF Exact, TimeDiff
  <2>3. CASE v # w
    <3>1. pc'[v] = pc[v] /\ lNow'[v] = lNow[v]
      BY Zenon, <1>7, <2>3 DEF TypeOK, Pass, Defer, Go
    <3> QED BY Zenon, <1>1, <2>1, <3>1 DEF Exact
  <2> QED BY <2>2, <2>3
<1>8. ASSUME NEW w \in Worker, InsertTriplet(w) \/ IncrementTriplet(w) PROVE Exact(v)'
  <2>1. UNCHANGED <<id, count, uts, lNow>>
    BY Zenon, <1>8 DEF InsertTriplet, IncrementTriplet
  <2>2. pc'[v] = pc[v] \/ pc'[v] = "idle"
    BY Zenon, <1>8 DEF InsertTriplet, IncrementTriplet, Go, TypeOK
  <2>3. Len(table') >= Len(table) /\ Len(table') \in Nat
    BY <1>3, <1>8, InsertRows, IncrementRows
  <2>4. \A i \in 1..Len(table) : /\ table'[i].count \in Nat
                                 /\ table'[i].count >= table[i].count
                                 /\ history'[i].born = history[i].born
    BY <1>2, <1>8, InsertRows, IncrementRows
  <2> QED BY Zenon, <1>1, <2>1, <2>2, <2>3, <2>4, ExactKept
<1> QED
  BY Zenon, <1>4, <1>5, <1>6, <1>7, <1>8 DEF Next

-----------------------------------------------------------------------------
(* The invariant of the policy holds however its workers interleave.       *)
THEOREM GreylistInvariant == Spec => []GreylistInv
<1>1. ASSUME Init PROVE GreylistInv
  <2>1. TypeOK
    BY <1>1 DEF Init, TypeOK, DecidePc
  <2>2. table = <<>> /\ history = <<>> /\ \A w \in Worker : pc[w] = "idle"
    BY Zenon, <1>1 DEF Init
  <2>3. CountExact /\ UtsIsBirth /\ NeverEarly
    BY <2>2 DEF CountExact, UtsIsBirth, NeverEarly
  <2>4. LocalsExact
    BY Zenon, <2>2 DEF LocalsExact
  <2> QED BY Zenon, <2>1, <2>3, <2>4 DEF GreylistInv
<1>2. GreylistInv /\ [Next]_vars => GreylistInv'
  BY Zenon, TypeStep, RowsStep, LocalsStep DEF GreylistInv, RowsInv
<1> QED BY <1>1, <1>2, PTL DEF Spec

(* No request is let through within _timeout seconds of the insertion of   *)
(* its row unless the row already let one through (greylist.h:43-49).      *)
THEOREM GreylistNeverEarly == Spec => []NeverEarly
<1>1. GreylistInv => NeverEarly
  BY Zenon DEF GreylistInv
<1> QED BY <1>1, GreylistInvariant, PTL

(* An early retry never extends the wait (greylist.h:41-53).               *)
THEOREM GreylistNotPostponed == Spec => []NotPostponed
<1>1. GreylistInv => NotPostponed
  BY Zenon DEF GreylistInv, LocalsExact, NotPostponed
<1> QED BY <1>1, GreylistInvariant, PTL

(* Concurrent workers lose no increment of a row's count                   *)
(* (greylist.h:120-127).                                                   *)
THEOREM GreylistCountExact == Spec => []CountExact
<1>1. GreylistInv => CountExact
  BY Zenon DEF GreylistInv
<1> QED BY <1>1, GreylistInvariant, PTL

(* What letting a request through leaves of a row: its triplet, and what   *)
(* the worker that inserted it saw.                                        *)
LEMMA IncrementKeeps ==
    ASSUME GreylistInv, NEW w \in Worker, IncrementTriplet(w)
    PROVE  /\ DOMAIN table' = DOMAIN table
           /\ \A i \in DOMAIN table : table'[i].key = table[i].key /\ history'[i].saw = history[i].saw
<1>1. id[w] \in 1..Len(table) /\ DOMAIN table = 1..Len(table) /\ DOMAIN history = 1..Len(table)
  <2>1. id[w] \in 1..Len(table) /\ Len(history) = Len(table)
    BY Zenon, IncrementRows DEF GreylistInv, CountExact
  <2> QED BY <2>1 DEF GreylistInv, TypeOK
<1>2. DOMAIN table' = DOMAIN table /\ \A i \in DOMAIN table : table'[i].key = table[i].key
  BY Zenon, <1>1 DEF IncrementTriplet, Updated
<1>3. \A i \in DOMAIN table : history'[i].saw = history[i].saw
  BY Zenon, <1>1 DEF IncrementTriplet, Recorded
<1> QED BY Zenon, <1>2, <1>3

(* A row that is added is of the worker's triplet and keeps what it saw.   *)
LEMMA InsertKeeps ==
    ASSUME GreylistInv, NEW w \in Worker, InsertTriplet(w)
    PROVE  /\ DOMAIN table = 1..Len(table) /\ Len(table) \in Nat
           /\ DOMAIN table' = 1..(Len(table) + 1) /\ Len(table') = Len(table) + 1
           /\ \A i \in DOMAIN table : table'[i] = table[i] /\ history'[i] = history[i]
           /\ table'[Len(table) + 1].key = req[w]
           /\ history'[Len(table) + 1].saw = saw[w]
  BY DEF GreylistInv, InsertTriplet, TypeOK, CountExact

(* A worker saw no more rows than there are.                               *)
LEMMA SawStep ==
    ASSUME GreylistInv, SawRows, [Next]_vars
    PROVE  SawRows'
<1>0. Len(table) \in Nat /\ saw \in [Worker -> Nat]
  BY DEF GreylistInv, TypeOK
<1>1. ASSUME NEW w \in Worker, FindNoTriplet(w) PROVE SawRows'
  <2>1. saw' = [saw EXCEPT ![w] = Len(table)] /\ table' = table
    BY Zenon, <1>1 DEF FindNoTriplet
  <2> QED BY <1>0, <2>1 DEF SawRows
<1>2. ASSUME NEW w \in Worker, InsertTriplet(w) \/ IncrementTriplet(w) PROVE SawRows'
  <2>1. saw' = saw
    BY Zenon, <1>2 DEF InsertTriplet, IncrementTriplet
  <2>2. Len(table') \in {Len(table), Len(table) + 1}
    BY <1>2, InsertRows, IncrementRows DEF GreylistInv
  <2> QED BY <1>0, <2>1, <2>2 DEF SawRows
<1>3. CASE UNCHANGED <<saw, table>>
  BY Zenon, <1>3 DEF SawRows
<1>4. ASSUME NEW w \in Worker, Decide(w) \/ FindTriplet(w) \/ StampInsert(w) \/ InsertDuplicate(w)
      PROVE  UNCHANGED <<saw, table>>
  BY Zenon, <1>4 DEF Decide, FindTriplet, StampInsert, InsertDuplicate
<1>5. ASSUME NEW w \in Worker, Pass(w) \/ Defer(w) \/ Reply(w) \/ QueryFails(w)
      PROVE  UNCHANGED <<saw, table>>
  BY Zenon, <1>5 DEF Pass, Defer, Reply, QueryFails
<1>6. SetClock \/ UNCHANGED vars => UNCHANGED <<saw, table>>
  BY Zenon DEF SetClock, vars
<1> QED BY Zenon, <1>1, <1>2, <1>3, <1>4, <1>5, <1>6 DEF Next

(* Every step keeps the rows of a triplet younger than the lookup of the   *)
(* worker that is about to add one.                                        *)
LEMMA SinceStep ==
    ASSUME GreylistInv, SawRows, NewSinceLookup, [Next]_vars
    PROVE  NewSinceLookup'
<1> SUFFICES ASSUME NEW v \in Worker, pc'[v] \in {"stamp", "insert"}, NEW i \in RowsOf(req[v])'
             PROVE  i > saw'[v]
  BY Zenon DEF NewSinceLookup
<1> USE DEF GreylistInv
<1>0. /\ pc \in [Worker -> DecidePc] /\ req \in [Worker -> Triplet] /\ saw \in [Worker -> Nat]
      /\ DOMAIN table = 1..Len(table) /\ Len(table) \in Nat
  BY DEF TypeOK
<1>1. ASSUME pc[v] \in {"stamp", "insert"}, req'[v] = req[v], saw'[v] = saw[v], i \in RowsOf(req[v])
      PROVE  i > saw'[v]
  BY Zenon, <1>1 DEF NewSinceLookup
<1>2. CASE UNCHANGED vars \/ SetClock
  BY Zenon, <1>1, <1>2 DEF vars, locals, SetClock, RowsOf
<1>3. ASSUME NEW w \in Worker,
             Decide(w) \/ FindTriplet(w) \/ StampInsert(w) \/ InsertDuplicate(w)
             \/ Pass(w) \/ Defer(w) \/ Reply(w) \/ QueryFails(w)
      PROVE  i > saw'[v]
  <2>1. UNCHANGED <<table, saw>>
    BY Zenon, <1>3 DEF Decide, FindTriplet, StampInsert, InsertDuplicate, Pass, Defer, Reply, QueryFails
  <2>2. CASE v = w
    <3>1. StampInsert(w)
      <4>1. ~(Decide(w) \/ FindTriplet(w) \/ InsertDuplicate(w) \/ Pass(w) \/ Defer(w))
        BY <2>2, <1>0, Moves DEF Go
      <4>2. ~(Reply(w) \/ QueryFails(w))
        BY <2>2, <1>0, Moves DEF Go
      <4> QED BY Zenon, <1>3, <4>1, <4>2
    <3> QED BY Zenon, <1>1, <2>1, <2>2, <3>1 DEF StampInsert, Go, RowsOf
  <2>3. CASE v # w
    <3>1. pc'[v] = pc[v] /\ req'[v] = req[v]
      BY Zenon, <1>0, <1>3, <2>3 DEF Decide, FindTriplet, StampInsert, InsertDuplicate, Pass, Defer, Reply,
         QueryFails, Go, locals
    <3> QED BY Zenon, <1>1, <2>1, <3>1 DEF RowsOf
  <2> QED BY Zenon, <2>2, <2>3
<1>4. ASSUME NEW w \in Worker, FindNoTriplet(w) PROVE i > saw'[v]
  <2>1. UNCHANGED <<table, req>>
    BY Zenon, <1>4 DEF FindNoTriplet, locals
  <2>2. CASE v = w
    <3>1. \A j \in DOMAIN table : ~Matches(table[j].key, req[w])
      BY Zenon, <1>4 DEF FindNoTriplet, Found
    <3>2. RowsOf(req[w]) = {}
      BY Zenon, <3>1 DEF RowsOf, Matches
    <3> QED BY Zenon, <2>1, <2>2, <3>2 DEF RowsOf
  <2>3. CASE v # w
    BY Zenon, <1>0, <1>1, <1>4, <2>1, <2>3 DEF FindNoTriplet, Go, RowsOf
  <2> QED BY Zenon, <2>2, <2>3
<1>5. ASSUME NEW w \in Worker, InsertTriplet(w) PROVE i > saw'[v]
  <2>1. UNCHANGED <<req, saw>> /\ pc' = [pc EXCEPT ![w] = "idle"]
    BY Zenon, <1>5 DEF InsertTriplet, Go, locals
  <2>2. v # w /\ pc[v] \in {"stamp", "insert"}
    BY <1>0, <2>1
  <2>3. CASE i \in DOMAIN table
    BY Zenon, <1>1, <1>5, <2>1, <2>2, <2>3, InsertKeeps DEF RowsOf
  <2>4. CASE i \notin DOMAIN table
    <3>1. i = Len(table) + 1
      BY <1>5, <2>4, InsertKeeps DEF RowsOf
    <3>2. saw[v] <= Len(table)
      BY Zenon DEF SawRows
    <3> QED BY <1>0, <2>1, <3>1, <3>2
  <2> QED BY Zenon, <2>3, <2>4
<1>6. ASSUME NEW w \in Worker, IncrementTriplet(w) PROVE i > saw'[v]
  <2>1. UNCHANGED <<req, saw>> /\ pc' = [pc EXCEPT ![w] = "idle"]
    BY Zenon, <1>6 DEF IncrementTriplet, Go, locals
  <2>2. pc[v] \in {"stamp", "insert"}
    BY <1>0, <2>1
  <2> QED BY Zenon, <1>1, <1>6, <2>1, <2>2, IncrementKeeps DEF RowsOf
<1> QED BY Zenon, <1>2, <1>3, <1>4, <1>5, <1>6 DEF Next

(* Only requests that overlap give a triplet two rows.                     *)
LEMMA OverlapStep ==
    ASSUME GreylistInv, NewSinceLookup, DuplicatesOverlap, [Next]_vars
    PROVE  DuplicatesOverlap'
<1>0. DOMAIN table = 1..Len(table) /\ Len(table) \in Nat
  BY DEF GreylistInv, TypeOK
<1>1. CASE UNCHANGED <<table, history>>
  BY Zenon, <1>1 DEF DuplicatesOverlap
<1>2. ASSUME NEW w \in Worker, IncrementTriplet(w) PROVE DuplicatesOverlap'
  <2>1. Len(table') = Len(table)
    BY Zenon, <1>2, IncrementRows DEF GreylistInv
  <2> QED BY Zenon, <1>0, <1>2, <2>1, IncrementKeeps DEF DuplicatesOverlap
<1>3. ASSUME NEW w \in Worker, InsertTriplet(w) PROVE DuplicatesOverlap'
  <2> SUFFICES ASSUME NEW i \in 1..Len(table'), NEW j \in 1..Len(table'), i < j,
                      table'[i].key = table'[j].key
               PROVE  history'[j].saw < i
    BY Zenon DEF DuplicatesOverlap
  <2>1. i \in DOMAIN table /\ (j \in DOMAIN table \/ j = Len(table) + 1)
    BY <1>0, <1>3, InsertKeeps
  <2>2. CASE j \in DOMAIN table
    BY Zenon, <1>0, <1>3, <2>1, <2>2, InsertKeeps DEF DuplicatesOverlap
  <2>3. CASE j = Len(table) + 1
    <3>1. i \in RowsOf(req[w]) /\ history'[j].saw = saw[w]
      BY Zenon, <1>3, <2>1, <2>3, InsertKeeps DEF RowsOf
    <3>2. pc[w] = "insert" /\ saw[w] \in Nat /\ i \in Nat
      BY <1>0, <1>3, <2>1 DEF InsertTriplet, Go, GreylistInv, TypeOK
    <3>3. i > saw[w]
      BY Zenon, <3>1, <3>2 DEF NewSinceLookup
    <3> QED BY <3>1, <3>2, <3>3
  <2> QED BY Zenon, <2>1, <2>2, <2>3
<1> QED BY Zenon, <1>1, <1>2, <1>3, TableStep

(* A triplet that has passed waits again only for a row that an            *)
(* overlapping request inserted, or when the clock was set back, and is    *)
(* recorded as new only by a request whose lookup is older than its rows:  *)
(* for any mode, with and without a unique index, any workers and any      *)
(* clients (greylist.h:35-53, 90-102).                                     *)
THEOREM GreylistOncePassed == Spec => []OncePassed
<1>1. Init => SawRows /\ NewSinceLookup /\ DuplicatesOverlap
  <2> SUFFICES ASSUME Init PROVE SawRows /\ NewSinceLookup /\ DuplicatesOverlap
    BY Zenon
  <2>1. /\ table = <<>> /\ \A w \in Worker : saw[w] = 0 /\ pc[w] = "idle"
    BY Zenon DEF Init
  <2> QED BY <2>1 DEF SawRows, NewSinceLookup, DuplicatesOverlap
<1>2. GreylistInv /\ SawRows /\ NewSinceLookup /\ DuplicatesOverlap /\ [Next]_vars
      => (SawRows /\ NewSinceLookup /\ DuplicatesOverlap)'
  BY Zenon, SawStep, SinceStep, OverlapStep
<1>3. GreylistInv /\ NewSinceLookup /\ DuplicatesOverlap => OncePassed
  <2> SUFFICES ASSUME GreylistInv, NewSinceLookup, DuplicatesOverlap, NEW w \in Worker, pc[w] = "wait",
                      NEW i \in RowsOf(table[id[w]].key), table[i].count > 0
               PROVE  (i = id[w] /\ lNow[w] < history[i].first) \/ Overlapped(i, id[w])
    BY Zenon DEF OncePassed, NewSinceLookup
  <2>1. /\ DOMAIN table = 1..Len(table) /\ Len(table) \in Nat /\ Len(history) = Len(table)
        /\ history \in Seq(Past) /\ lNow[w] \in Nat
    BY DEF GreylistInv, TypeOK, CountExact
  <2>2. /\ i \in 1..Len(table) /\ id[w] \in 1..Len(table) /\ table[i].key = table[id[w]].key
        /\ lNow[w] <= history[id[w]].born + Timeout
    BY Zenon, <2>1 DEF GreylistInv, LocalsExact, RowsOf
  <2>3. CASE i = id[w]
    <3>1. history[i].passes > 0
      BY Zenon, <2>2 DEF GreylistInv, CountExact
    <3>2. history[i].first > history[i].born + Timeout
      BY Zenon, <2>1, <2>2, <3>1 DEF GreylistInv, NeverEarly
    <3>3. history[i] \in Past
      BY <2>1, <2>2
    <3>4. history[i].first \in Nat /\ history[i].born \in Nat
      BY Zenon, <3>3 DEF Past
    <3> QED BY <2>1, <2>2, <2>3, <3>2, <3>4, SettingAssumption
  <2>4. CASE i # id[w]
    <3>1. i < id[w] \/ id[w] < i
      BY <2>1, <2>2, <2>4
    <3> QED BY Zenon, <2>2, <3>1 DEF DuplicatesOverlap, Overlapped
  <2> QED BY Zenon, <2>3, <2>4
<1> QED BY <1>1, <1>2, <1>3, GreylistInvariant, PTL DEF Spec

-----------------------------------------------------------------------------
(* The facts about finite sets that the number of rows rests on.           *)
Sets == INSTANCE FiniteSetTheorems

(* They speak of the cardinality of FiniteSets.                            *)
LEMMA SameCardinality ==
    /\ \A S : Sets!Cardinality(S) = Cardinality(S)
    /\ \A S : Sets!IsFiniteSet(S) <=> IsFiniteSet(S)
<1>1. \A S : Sets!Cardinality(S) = Cardinality(S)
  BY Zenon DEF Sets!Cardinality, Cardinality
<1>2. \A S : Sets!IsFiniteSet(S) <=> IsFiniteSet(S)
  BY Zenon DEF Sets!IsFiniteSet, IsFiniteSet
<1> QED BY Zenon, <1>1, <1>2

(* The rows of a table are finitely many,                                  *)
LEMMA FiniteInterval ==
    ASSUME NEW n \in Nat
    PROVE  IsFiniteSet(1..n)
  BY SameCardinality, Sets!FS_Interval

(* a finite set has a number of elements,                                  *)
LEMMA FiniteCount ==
    ASSUME NEW S, IsFiniteSet(S)
    PROVE  Cardinality(S) \in Nat /\ (S = {} => Cardinality(S) = 0)
  BY Zenon, SameCardinality, Sets!FS_CardinalityType, Sets!FS_EmptySet

(* a part of it has no more,                                               *)
LEMMA FiniteSubset ==
    ASSUME NEW S, IsFiniteSet(S), NEW T \in SUBSET S
    PROVE  IsFiniteSet(T) /\ Cardinality(T) <= Cardinality(S)
  BY Zenon, SameCardinality, Sets!FS_Subset

(* a new element adds one                                                  *)
LEMMA OneMore ==
    ASSUME NEW S, IsFiniteSet(S), NEW x, x \notin S
    PROVE  Cardinality(S \cup {x}) = Cardinality(S) + 1
  BY Zenon, SameCardinality, Sets!FS_AddElement

(* and one that is taken away leaves one less.                             *)
LEMMA OneLess ==
    ASSUME NEW S, IsFiniteSet(S), NEW x \in S
    PROVE  Cardinality(S \ {x}) = Cardinality(S) - 1
  BY Zenon, SameCardinality, Sets!FS_RemoveElement

(* Everything counted is finite.                                           *)
LEMMA FiniteRows ==
    ASSUME TypeOK, NEW t \in Triplet
    PROVE  /\ IsFiniteSet(RowsOf(t)) /\ IsFiniteSet(Inserting(t))
           /\ Cardinality(RowsOf(t)) \in Nat /\ Cardinality(Inserting(t)) \in Nat
           /\ Cardinality(Inserting(t)) <= Cardinality(Worker) /\ Cardinality(Worker) \in Nat
<1>1. DOMAIN table = 1..Len(table) /\ Len(table) \in Nat
  BY DEF TypeOK
<1>2. IsFiniteSet(1..Len(table))
  BY Zenon, <1>1, FiniteInterval
<1>3. RowsOf(t) \subseteq 1..Len(table) /\ Inserting(t) \subseteq Worker
  BY Zenon, <1>1 DEF RowsOf, Inserting
<1>4. IsFiniteSet(RowsOf(t))
  BY Zenon, <1>2, <1>3, FiniteSubset
<1>5. IsFiniteSet(Inserting(t)) /\ Cardinality(Inserting(t)) <= Cardinality(Worker)
  BY ZenonT(60), <1>3, WorkerAssumption, FiniteSubset
<1> QED BY Zenon, <1>4, <1>5, WorkerAssumption, FiniteCount

(* A step that adds no row and sends nobody to insert keeps the bound.     *)
LEMMA BoundKept ==
    ASSUME TypeOK, InsertsBounded, NEW t \in Triplet,
           RowsOf(t)' = RowsOf(t), Inserting(t)' \subseteq Inserting(t)
    PROVE  RowsOf(t)' # {} =>
             Cardinality(RowsOf(t)') + Cardinality(Inserting(t)') <= Cardinality(Worker)
<1>1. /\ IsFiniteSet(Inserting(t)') /\ Cardinality(Inserting(t)') \in Nat
      /\ Cardinality(Inserting(t)') <= Cardinality(Inserting(t))
  BY Zenon, FiniteRows, FiniteSubset, FiniteCount
<1> QED BY <1>1, FiniteRows DEF InsertsBounded

(* Every step keeps the rows of a triplet and those about to be inserted   *)
(* bounded by the workers.                                                 *)
LEMMA BoundStep ==
    ASSUME TypeOK, CountExact, LocalsExact, InsertsBounded, [Next]_vars
    PROVE  InsertsBounded'
<1> SUFFICES ASSUME NEW t \in Triplet
             PROVE  RowsOf(t)' # {} =>
                      Cardinality(RowsOf(t)') + Cardinality(Inserting(t)') <= Cardinality(Worker)
  BY Zenon DEF InsertsBounded
<1>1. CASE UNCHANGED vars \/ SetClock
  <2>1. RowsOf(t)' = RowsOf(t) /\ Inserting(t)' = Inserting(t)
    BY Zenon, <1>1 DEF vars, locals, SetClock, RowsOf, Inserting
  <2> QED BY Zenon, <2>1, BoundKept
<1>2. ASSUME NEW w \in Worker,
             Decide(w) \/ FindTriplet(w) \/ StampInsert(w) \/ InsertDuplicate(w)
             \/ Pass(w) \/ Defer(w) \/ Reply(w) \/ QueryFails(w)
      PROVE  RowsOf(t)' # {} =>
               Cardinality(RowsOf(t)') + Cardinality(Inserting(t)') <= Cardinality(Worker)
  <2>1. UNCHANGED table
    BY Zenon, <1>2 DEF Decide, FindTriplet, StampInsert, InsertDuplicate, Pass, Defer, Reply,
       QueryFails
  <2>2. /\ \A v \in Worker \ {w} : pc'[v] = pc[v] /\ req'[v] = req[v]
        /\ pc'[w] \notin {"stamp", "insert"} \/ (pc[w] = "stamp" /\ req'[w] = req[w])
    <3>1. pc \in [Worker -> DecidePc] /\ req \in [Worker -> Triplet]
      BY Zenon DEF TypeOK
    <3>2. PICK l, m : Go(w, l, m) /\ (m \notin {"stamp", "insert"} \/ (l = "stamp" /\ req' = req))
      <4>1. StampInsert(w) => req' = req
        BY Zenon DEF StampInsert
      <4>2. CASE Decide(w) \/ FindTriplet(w)
        BY <4>2, Moves
      <4>3. CASE StampInsert(w)
        BY Zenon, <4>1, <4>3, Moves
      <4>4. CASE InsertDuplicate(w) \/ Pass(w) \/ Defer(w)
        BY <4>4, Moves
      <4>5. CASE Reply(w) \/ QueryFails(w)
        BY <4>5, Moves
      <4> QED BY Zenon, <1>2, <4>2, <4>3, <4>4, <4>5
    <3>3. req' = req \/ \E u \in Triplet : req' = [req EXCEPT ![w] = u]
      <4>1. CASE Decide(w)
        BY Zenon, <4>1 DEF Decide
      <4>2. CASE FindTriplet(w) \/ StampInsert(w) \/ Pass(w) \/ Defer(w)
        BY Zenon, <4>2 DEF FindTriplet, StampInsert, Pass, Defer
      <4>3. CASE InsertDuplicate(w) \/ Reply(w) \/ QueryFails(w)
        BY Zenon, <4>3 DEF InsertDuplicate, Reply, QueryFails, locals
      <4> QED BY Zenon, <1>2, <4>1, <4>2, <4>3
    <3> QED BY Zenon, <3>1, <3>2, <3>3 DEF Go
  <2>3. Inserting(t)' \subseteq Inserting(t)
    BY Zenon, <2>2 DEF Inserting
  <2> QED BY Zenon, <2>1, <2>3, BoundKept DEF RowsOf
<1>3. ASSUME NEW w \in Worker, IncrementTriplet(w)
      PROVE  RowsOf(t)' # {} =>
               Cardinality(RowsOf(t)') + Cardinality(Inserting(t)') <= Cardinality(Worker)
  <2>1. id[w] \in 1..Len(table)
    BY ZenonT(60), <1>3, IncrementRows
  <2>2. DOMAIN table' = DOMAIN table /\ \A i \in DOMAIN table : table'[i].key = table[i].key
    BY Zenon, <1>3, <2>1 DEF IncrementTriplet, Updated, TypeOK
  <2>3. RowsOf(t)' = RowsOf(t)
    BY Zenon, <2>2 DEF RowsOf
  <2>4. Inserting(t)' \subseteq Inserting(t)
    <3>1. pc' = [pc EXCEPT ![w] = "idle"] /\ req' = req /\ pc \in [Worker -> DecidePc]
      BY Zenon, <1>3 DEF IncrementTriplet, Go, locals, TypeOK
    <3> QED BY Zenon, <3>1 DEF Inserting
  <2> QED BY ZenonT(60), <2>3, <2>4, BoundKept
<1>4. ASSUME NEW w \in Worker, FindNoTriplet(w)
      PROVE  RowsOf(t)' # {} =>
               Cardinality(RowsOf(t)') + Cardinality(Inserting(t)') <= Cardinality(Worker)
  <2>1. RowsOf(t)' = RowsOf(t)
    BY Zenon, <1>4 DEF FindNoTriplet, RowsOf
  <2>2. CASE req[w] = t
    <3>1. \A i \in DOMAIN table : ~Matches(table[i].key, t)
      BY Zenon, <1>4, <2>2 DEF FindNoTriplet, Found
    <3>2. RowsOf(t) = {}
      BY Zenon, <3>1 DEF RowsOf, Matches
    <3> QED BY Zenon, <2>1, <3>2
  <2>3. CASE req[w] # t
    <3>1. Inserting(t)' \subseteq Inserting(t)
      <4>1. pc' = [pc EXCEPT ![w] = "stamp"] /\ req' = req /\ pc \in [Worker -> DecidePc]
        BY Zenon, <1>4 DEF FindNoTriplet, Go, locals, TypeOK
      <4> QED BY Zenon, <2>3, <4>1 DEF Inserting
    <3> QED BY <2>1, <3>1, BoundKept
  <2> QED BY Zenon, <2>2, <2>3
<1>5. ASSUME NEW w \in Worker, InsertTriplet(w)
      PROVE  RowsOf(t)' # {} =>
               Cardinality(RowsOf(t)') + Cardinality(Inserting(t)') <= Cardinality(Worker)
  <2> DEFINE n == Len(table) + 1
  <2>1. /\ DOMAIN table = 1..Len(table) /\ Len(table) \in Nat
        /\ DOMAIN table' = 1..n
        /\ \A i \in DOMAIN table : table'[i] = table[i]
        /\ table'[n].key = req[w]
    <3>1. table \in Seq(Row)
      BY Zenon DEF TypeOK
    <3>2. table' = Append(table, [key |-> req[w], count |-> 0, uts |-> lNow[w]])
      BY Zenon, <1>5 DEF InsertTriplet
    <3> QED BY <3>1, <3>2
  <2>2. /\ pc' = [pc EXCEPT ![w] = "idle"] /\ req' = req /\ pc[w] = "insert"
        /\ pc \in [Worker -> DecidePc]
    BY Zenon, <1>5 DEF InsertTriplet, Go, locals, TypeOK
  <2>3. CASE req[w] = t
    <3>1. RowsOf(t)' = RowsOf(t) \cup {n} /\ n \notin RowsOf(t)
      BY <2>1, <2>3 DEF RowsOf
    <3>2. Inserting(t)' = Inserting(t) \ {w} /\ w \in Inserting(t)
      BY Zenon, <2>3, <2>2 DEF Inserting
    <3>3. Cardinality(RowsOf(t)') = Cardinality(RowsOf(t)) + 1
      BY Zenon, <3>1, FiniteRows, OneMore
    <3>4. Cardinality(Inserting(t)') = Cardinality(Inserting(t)) - 1
      BY Zenon, <3>2, FiniteRows, OneLess
    <3>5. CASE RowsOf(t) = {}
      <4>1. Cardinality(RowsOf(t)) = 0
        BY Zenon, <3>5, FiniteRows, FiniteCount
      <4> QED BY <3>3, <3>4, <4>1, FiniteRows
    <3>6. CASE RowsOf(t) # {}
      BY SMTT(60), <3>3, <3>4, <3>6, FiniteRows DEF InsertsBounded
    <3> QED BY Zenon, <3>5, <3>6
  <2>4. CASE req[w] # t
    <3>1. RowsOf(t)' = RowsOf(t)
      BY <2>1, <2>4 DEF RowsOf
    <3>2. Inserting(t)' \subseteq Inserting(t)
      BY Zenon, <2>2 DEF Inserting
    <3> QED BY <3>1, <3>2, BoundKept
  <2> QED BY <2>3, <2>4
<1> QED BY Zenon, <1>1, <1>2, <1>3, <1>4, <1>5 DEF Next

(* However many requests repeat a triplet, it has at most as many rows as  *)
(* there are workers (greylist.h:35-36).                                   *)
THEOREM GreylistDuplicates == Spec => []DuplicatesBounded
<1>1. Init => InsertsBounded
  BY DEF Init, InsertsBounded, RowsOf
<1>2. GreylistInv /\ InsertsBounded /\ [Next]_vars => InsertsBounded'
  BY Zenon, BoundStep DEF GreylistInv
<1>3. GreylistInv /\ InsertsBounded => DuplicatesBounded
  <2> SUFFICES ASSUME GreylistInv, InsertsBounded, NEW t \in Triplet
               PROVE  Cardinality(RowsOf(t)) <= Cardinality(Worker)
    BY Zenon DEF DuplicatesBounded
  <2>1. CASE RowsOf(t) = {}
    BY <2>1, FiniteRows, FiniteCount DEF GreylistInv
  <2>2. CASE RowsOf(t) # {}
    BY <2>2, FiniteRows DEF InsertsBounded, GreylistInv
  <2> QED BY Zenon, <2>1, <2>2
<1> QED BY <1>1, <1>2, <1>3, GreylistInvariant, PTL DEF Spec

=============================================================================
