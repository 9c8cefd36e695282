------------------------------ MODULE Matchers ------------------------------
(***************************************************************************)
(* The four matchers that look a triplet up in a table: ExactMatch and     *)
(* PatternMatch query it for every request (exactmatch.h, patternmatch.h), *)
(* CachedExactMatch and CachedPatternMatch read a copy                     *)
(* (cachedexactmatch.h, cachedpatternmatch.h), and RegEx compiles a        *)
(* pattern (regexcpp.h).  A text is a sequence of letters, a row holds a   *)
(* text and a comment, and a pattern is searched for as it stands.         *)
(***************************************************************************)
EXTENDS Naturals, Sequences

CONSTANTS
    Row,       \* [text, comment]
    Member,    \* members of the triplets asked for: lower-case texts
    Lower,     \* letters to lower-case letters, "(" to itself
    MaxRows,   \* rows of the table
    MaxCalls   \* calls of match

VARIABLES
    matcher,   \* which of the four is configured
    return,    \* whether its section names a return column
    rows,      \* the table
    cached,    \* whether the handler holds a cache
    cache,     \* the rows of that cache
    pc,        \* "idle", "load" (Factory::create) or "scan"
    member,    \* the triplet's member
    query,     \* the rows looked through
    source,    \* the rows of the table they come from
    i,         \* rows fetched so far
    building,  \* the cache being filled
    live,      \* RegEx storages not freed
    lost,      \* those of caches an exception abandoned
    last,      \* the last answer, the rows it was made from, the member
    calls

vars == <<matcher, return, rows, cached, cache, pc, member, query, source, i, building,
          live, lost, last, calls>>

LowerCase(text) == [k \in DOMAIN text |-> Lower[text[k]]]
Cached == matcher \in {"cached exact", "cached pattern"}
Pattern == matcher \in {"pattern", "cached pattern"}

\* regcomp: an unbalanced parenthesis does not compile.
Bad(text) == \E k \in DOMAIN text : text[k] = "("

\* regexec with REG_ICASE and no anchors: the pattern occurs in the text.
RegexMatch(pattern, text) ==
    \E k \in 0 .. Len(text) - Len(pattern) :
        \A j \in 1 .. Len(pattern) : LowerCase(pattern)[j] = text[k + j]

Init ==
    /\ matcher \in {"exact", "pattern", "cached exact", "cached pattern"} /\ return \in BOOLEAN
    /\ \E n \in 0 .. MaxRows : rows \in [1 .. n -> Row]
    /\ cached = FALSE /\ cache = <<>> /\ pc = "idle" /\ member = <<>>
    /\ query = <<>> /\ source = <<>> /\ i = 0 /\ building = <<>> /\ live = 0 /\ lost = 0
    /\ last = [answer |-> <<>>, of |-> <<>>, member |-> <<>>]
    /\ calls = 0

NoMatch == <<"no">>
Matched == <<"yes">>     \* and no comment
Throw == <<"throw">>

Answer(answer) ==
    /\ last' = [answer |-> answer, of |-> source, member |-> member]
    /\ pc' = "idle"

----------------------------------------------------------------------------
\* match: the plain matchers query, the cached ones take the cache, or load.
Match(m) ==
    /\ pc = "idle" /\ calls < MaxCalls
    /\ calls' = calls + 1
    /\ member' = m
    /\ i' = 0
    /\ query' = IF Cached /\ cached THEN cache ELSE rows
    /\ source' = IF Cached /\ cached THEN source ELSE rows
    /\ building' = <<>>
    /\ pc' = IF Cached /\ ~cached THEN "load" ELSE "scan"
    /\ UNCHANGED <<matcher, return, rows, cached, cache, live, lost, last>>

StoreCased(row) == row

\* What create stores of a row: CachedExactMatch lower-cases both fields.
Store(row) ==
    IF Pattern THEN row
    ELSE [text |-> LowerCase(row.text), comment |-> LowerCase(row.comment)]

\* A pattern that does not compile throws out of create and of match; the
\* cache under construction is a bare pointer, so nothing frees its rows.
Load ==
    /\ pc = "load" /\ return
    /\ LET row == query[i + 1] IN
       \/ /\ i = Len(query)
          /\ cached' = TRUE /\ cache' = building /\ query' = building
          /\ i' = 0 /\ pc' = "scan"
          /\ UNCHANGED <<building, live, lost, last>>
       \/ /\ i < Len(query) /\ ~(Pattern /\ Bad(row.text))
          /\ building' = Append(building, Store(row))
          /\ live' = IF Pattern THEN live + 1 ELSE live
          /\ i' = i + 1
          /\ UNCHANGED <<cached, cache, query, lost, pc, last>>
       \/ /\ i < Len(query) /\ Pattern /\ Bad(row.text)
          /\ lost' = lost + i
          /\ Answer(Throw)
          /\ UNCHANGED <<cached, cache, query, building, live, i>>
    /\ UNCHANGED <<matcher, return, rows, member, source, calls>>

\* The column `` of addReturnField("") is refused by the database, in lookup.
LookupThrows ==
    /\ pc \in {"load", "scan"} /\ ~return /\ matcher # "exact"
    /\ Answer(Throw)
    /\ UNCHANGED <<matcher, return, rows, cached, cache, member, query, source, i, building,
                   live, lost, calls>>

\* The loop of the two pattern matchers.  The plain one compiles the row's
\* pattern for this turn of the loop only.
ScanPattern ==
    /\ pc = "scan" /\ return /\ Pattern
    /\ \/ /\ i = Len(query)
          /\ Answer(NoMatch)
          /\ UNCHANGED i
       \/ /\ i < Len(query)
          /\ LET row == query[i + 1] IN
             IF Bad(row.text) THEN Answer(Throw)
             ELSE IF RegexMatch(row.text, member) THEN Answer(row.comment)
             ELSE UNCHANGED <<last, pc>>
          /\ i' = i + 1
    /\ UNCHANGED <<matcher, return, rows, cached, cache, member, query, source, building,
                   live, lost, calls>>

\* The index of CachedExactMatch keeps the first of equal keys, the query of
\* ExactMatch returns the equal rows in order (the collation folds case).
\* Without a return column ExactMatch selects COUNT(*), which is one row
\* whatever the table holds, and numRows() is not 0.
ScanExact ==
    /\ pc = "scan" /\ ~Pattern /\ (return \/ ~Cached)
    /\ LET equal == {k \in DOMAIN query :
                        member = IF Cached THEN query[k].text
                                 ELSE LowerCase(query[k].text)}
       IN  IF ~return THEN Answer(Matched)
           ELSE IF equal = {} THEN Answer(NoMatch)
           ELSE Answer(query[CHOOSE k \in equal : \A j \in equal : k <= j].comment)
    /\ UNCHANGED <<matcher, return, rows, cached, cache, member, query, source, i,
                   building, live, lost, calls>>

clearKeeping ==
    /\ cached /\ pc = "idle"
    /\ cached' = FALSE
    /\ cache' = <<>>
    /\ UNCHANGED <<matcher, return, rows, pc, member, query, source, i, building, live,
                   lost, last, calls>>

\* CacheHandler::clear between two matches drops the last copy of each RegEx
\* (CacheHandler.tla has it during a match, which keeps its cache alive).
clear ==
    /\ cached /\ pc = "idle"
    /\ cached' = FALSE
    /\ cache' = <<>>
    /\ live' = IF Pattern THEN live - Len(cache) ELSE live
    /\ UNCHANGED <<matcher, return, rows, pc, member, query, source, i, building, lost,
                   last, calls>>

\* The table is edited by hand.
Edit ==
    /\ calls < MaxCalls
    /\ \E k \in DOMAIN rows, r \in Row : rows' = [rows EXCEPT ![k] = r]
    /\ UNCHANGED <<matcher, return, cached, cache, pc, member, query, source, i,
                   building, live, lost, last, calls>>

Next ==
    \/ \E m \in Member : Match(m)
    \/ Load \/ LookupThrows \/ ScanPattern \/ ScanExact \/ clear \/ Edit

Spec == Init /\ [][Next]_vars

----------------------------------------------------------------------------
First(ks) == CHOOSE k \in ks : \A j \in ks : k <= j

(***************************************************************************)
(* With and without a cache the same rows give the same answer: the        *)
(* comment of the first row that matches (in lower case when               *)
(* CachedExactMatch gives it).  A pattern that does not compile makes      *)
(* PatternMatch throw when it is reached before a match, and               *)
(* CachedPatternMatch throw for every triplet.  A section without a return *)
(* column makes ExactMatch match every triplet, whether or not a row is    *)
(* equal, and the other three throw.                                       *)
(***************************************************************************)
FirstRowAnswers ==
    LET of == last.of
        hits == {k \in DOMAIN of :
                    IF Pattern THEN RegexMatch(of[k].text, last.member)
                    ELSE LowerCase(of[k].text) = last.member}
        bad == {k \in DOMAIN of : Pattern /\ Bad(of[k].text)}
        comment == of[First(hits)].comment
    IN  last.answer # <<>> =>
            last.answer =
                IF ~return THEN (IF matcher = "exact" THEN Matched ELSE Throw)
                ELSE IF bad # {} /\ (Cached \/ First(hits \cup bad) \in bad) THEN Throw
                ELSE IF hits = {} THEN NoMatch
                ELSE IF matcher = "cached exact" THEN LowerCase(comment)
                ELSE comment

(***************************************************************************)
(* The compiled patterns are those of the cache in use and of the one      *)
(* being filled: copies of a RegEx share one storage and the last frees    *)
(* it.  Only caches whose construction threw keep theirs for ever.         *)
(***************************************************************************)
StoragesFreed ==
    live = lost + IF ~Pattern THEN 0
                  ELSE Len(cache) + IF pc = "load" THEN Len(building) ELSE 0
=============================================================================
