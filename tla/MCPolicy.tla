------------------------------ MODULE MCPolicy ------------------------------
(***************************************************************************)
(* What becomes of a request, part by part: the connection it comes over   *)
(* (Request), the names of its client (IPAddress), the matchers that are   *)
(* asked about it (Matchers), and the query a matcher or the greylist      *)
(* makes (Query, SetEnum); and the files of text around it: the            *)
(* configuration that is read line by line (ConfigFileReader) and the logs *)
(* that are written (ThreadSafeLog).  The table of the greylist has a      *)
(* specification of its own, TableSpec.                                    *)
(***************************************************************************)
EXTENDS Greylist, Request, Slots, Integers, Sequences, SequencesExt, TLC

\* One sender and recipient, a client that is known by name and one of its
\* network that is not.
Named == [pair |-> 1, name |-> "mail", net |-> 1, host |-> 1]
Nameless == [pair |-> 1, name |-> "", net |-> 1, host |-> 2]
Clients == {Named, Nameless}
\* The defaults, by network alone, and by address with a unique index.
Setups == {[mode |-> "reverse", indexed |-> FALSE], [mode |-> "weak", indexed |-> FALSE],
           [mode |-> "normal", indexed |-> TRUE]}
Symmetry == Permutations(Worker)

module(m, r, p) == [matcher |-> m, return |-> r, policy |-> p]
Chains == {
    <<>>,
    <<module("exact", TRUE, "whitelist"), module("pattern", FALSE, "whitelist"),
      module("all", FALSE, "greylist")>>,
    <<module("exact", FALSE, "greylist"), module("all", FALSE, "whitelist"),
      module("pattern", FALSE, "greylist")>>}
Settings == {
    [status |-> TRUE, dunno |-> "dunno", defer |-> "defer_if_permit", error |-> "dunno"],
    [status |-> FALSE, dunno |-> "dunno", defer |-> "defer_if_permit", error |-> "defer_if_permit"]}

tableRow(t, c) == [text |-> t, comment |-> c]
Rows == {tableRow(<<"a">>, <<"X">>), tableRow(<<"B">>, <<"y">>), tableRow(<<"a", "b">>, <<"z">>), tableRow(<<"(">>, <<"z">>)}
LowerCases == [a |-> "a", A |-> "a", b |-> "b", B |-> "b", x |-> "x", X |-> "x", y |-> "y", z |-> "z"]
              @@ ("(" :> "(")

Tables == [q1 |-> [types |-> <<"string", "integer">>, rows |-> <<<<"a", "1">>, <<"b", "2">>>>],
           q2 |-> [types |-> <<"integer", "string">>, rows |-> <<<<"3", "c">>>>],
           q3 |-> [types |-> <<"blob">>, rows |-> <<>>]]
Formats == {<<"x", "%", "s">>, <<"%", "%", "s", "%", "d", "%", "s">>,
            <<"%", "d", "%", "%", "x", "s", "%">>, <<"%", "%", "%", "s">>}

\* Many names and few calls, and the other way about.
Dotted == <<"x", ".", "x", ".", "x", ".", "x">>
Labelled == {n \in SeqOf({"x", "."}, 9) :
                \A i \in DOMAIN n : n[i] = "." => i > 1 /\ n[i - 1] # "."}
NamesAndCalls == {<<Labelled, 1>>, <<{<<>>, <<"x">>, <<"x", ".", "x">>}, 3>>}
Address(names, calls) == INSTANCE IPAddress WITH
    Names <- names, Resolvable <- {Dotted, <<"x">>},
    Garbage <- {<<>>, <<"x", ".", "x">>}, MaxCalls <- calls,
    reverse <- v1, clientname <- v2, short_reverse <- v3, short_clientname <- v4,
    Addresses <- {Dotted, <<"x", ".", "x">>, <<"x">>}, Index <- {0, 3},
    resolve_error <- v5, first <- v6, last <- v7, calls <- v8, str <- v9, numeric <- v10,
    network <- v11, tripletstring <- v12, thrown <- v13
Matching == INSTANCE Matchers WITH
    Row <- Rows, Member <- {<<"a", "b">>, <<"a">>, <<"b">>}, Lower <- LowerCases,
    MaxRows <- 2, MaxCalls <- 2,
    matcher <- v1, rows <- v2, cached <- v3, cache <- v4, pc <- v5, member <- v6,
    query <- v7, source <- v8, i <- v9, building <- v10, live <- v11, lost <- v12,
    last <- v13, calls <- v14, return <- v15
Result == INSTANCE Query WITH
    Table <- Tables, Format <- Formats, Arg <- {<<"A1", "A2">>, <<"A1">>, <<>>}, MaxCalls <- 7,
    res <- v1, row <- v2, fetched <- v3, rowcount <- v4, tmap <- v5, cols <- v6, sql <- v7,
    answer <- v8, threw <- v9, calls <- v10
Column == INSTANCE SetEnum WITH
    Names <- [a |-> 1, b |-> 2], Unknown <- {"x", "y"}, MaxCalls <- 5,
    mmap <- v1, bits <- v2, value <- v3, vmap <- v4, calls <- v5
Reader == INSTANCE ConfigFileReader WITH
    MaxLen <- 5, MaxReloads <- 1,
    text <- v1, strm <- v2, lines <- v3, ended <- v4, reloads <- v5
Logs == INSTANCE ThreadSafeLog WITH
    Log <- {1, 2}, Thread <- {"t1", "t2"}, Priority <- <<1, 3, 2>>,
    Many <- 2, Part <- 2, MaxPieces <- 2,
    kind <- v1, order <- v2, slots <- v3, idxWrite <- v4, queue <- v5, held <- v6,
    destructing <- v7, finished <- v8, stream <- v9, pieces <- v10, file <- v11,
    flushed <- v12, open <- v13, exiting <- v14, given <- v15, outlives <- v16

-----------------------------------------------------------------------------
NoDecision ==
    Init /\ req = [w \in Worker |-> Named] /\ setup = [mode |-> "reverse", indexed |-> FALSE]
NoConnection == RequestInit /\ chain = <<>> /\ setting = CHOOSE x \in Setting : x.status

\* The requests begin as they do on their own; in the other parts they stand
\* still, as the greylist does in all of them.
PolicyInit ==
    /\ NoDecision
    /\ \/ part = "request" /\ RequestInit /\ Off1
       \/ /\ NoConnection
          /\ \/ part = "names" /\ (\E n \in NamesAndCalls : Address(n[1], n[2])!Init /\ v14 = n[2]) /\ Off15
             \/ part = "matcher" /\ Matching!Init /\ Off16
             \/ part = "query" /\ Result!Init /\ Off11
             \/ part = "set" /\ Column!Init /\ Off6
             \/ part = "reader" /\ Reader!Init /\ Off6
             \/ part = "log" /\ Logs!Init /\ Off17

PolicyNext ==
    /\ UNCHANGED <<part, vars>>
    /\ \/ part = "request" /\ RequestNext /\ Keep1
       \/ /\ UNCHANGED requestVars
          /\ \/ part = "names" /\ (\E n \in NamesAndCalls : v14 = n[2] /\ Address(n[1], n[2])!Next) /\ Keep14
             \/ part = "matcher" /\ Matching!Next /\ Keep16
             \/ part = "query" /\ Result!Next /\ Keep11
             \/ part = "set" /\ Column!Next /\ Keep6
             \/ part = "reader" /\ Reader!Next /\ Keep6
             \/ part = "log" /\ Logs!Next /\ Keep17
             \/ UNCHANGED slots      \* a bound is reached

\* The greylist alone.
TableInit == Init /\ NoConnection /\ part = "greylist" /\ Off1
TableNext == Next /\ UNCHANGED <<requestVars, allSlots>>
TableSpec == TableInit /\ [][TableNext]_<<vars, requestVars, allSlots>>

PolicySpec ==
    /\ PolicyInit /\ [][PolicyNext]_<<vars, requestVars, allSlots>>
    /\ WF_requestVars(Process)

-----------------------------------------------------------------------------
(***************************************************************************)
(* The modules that look at one triplet agree on the names of its client,  *)
(* whatever was asked before, and a shortened name is the end of a name    *)
(* from one of its labels on (IPAddress).  A matcher, cached or not, gives *)
(* the comment of the first row that matches; a plain ExactMatch without a *)
(* return column matches whatever the table holds, since COUNT( * ) always *)
(* gives one row.  Every storage a cache has replaced is freed but for     *)
(* those of the rows compiled before one that does not compile             *)
(* (ExactMatch, PatternMatch and their cached forms).                      *)
(***************************************************************************)
TripletMatched ==
    /\ part = "names" => Address({}, 0)!SameName /\ Address({}, 0)!ShortenedName
    /\ part = "matcher" => Matching!FirstRowAnswers /\ Matching!StoragesFreed

(***************************************************************************)
(* A value read from a result is of the row fetched last and of the column *)
(* asked for, whatever was queried before with the object; the arguments   *)
(* of a format appear once, in their order; and a set or enum column       *)
(* writes back what it read (Query, set, enum_t).                          *)
(***************************************************************************)
QueryReads ==
    /\ part = "query" => Result!ColumnsCurrent /\ Result!ReadsInTurn /\ Result!ArgumentsInOrder
    /\ part = "set" => Column!SetTrip /\ Column!EnumTrip

(***************************************************************************)
(* getline returns every line that a newline ends, in order and once, also *)
(* after a reload, and at most one line more; not covered is what it reads *)
(* of a last line without a newline, whose last character comes twice      *)
(* (ConfigFileReader).  Messages of several threads reach the file of      *)
(* their log whole and in the order they were given, and a writer that     *)
(* serves several logs has slots for each; all messages are in the file    *)
(* when its writer has ended, but for the second and later logs of a       *)
(* shared writer, whose files are destroyed before it has ended            *)
(* (thread_safe_log, message_handler_log).                                 *)
(***************************************************************************)
FilesComplete ==
    /\ part = "reader" => Reader!LinesRead
    /\ part = "log" => Logs!SlotsShared /\ Logs!MessagesInOrder /\ Logs!FileComplete
=============================================================================
