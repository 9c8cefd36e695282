--------------------------------- MODULE Query ---------------------------------
(***************************************************************************)
(* One Query object of dbiwrapped over its life: statements put together   *)
(* from a format and arguments, the result that is read row by row and     *)
(* column by column, and the shorthands that do all of it.  The connection *)
(* it holds is the business of ConnectionPool.                             *)
(***************************************************************************)
EXTENDS Integers, Sequences, SequencesExt, FiniteSets

CONSTANTS Table,      \* what the database answers to a statement:
                      \* [types |-> column types, rows |-> rows of values]
          Format,     \* formats, sequences of "%", "s", "d" and other letters
          Arg,        \* lists of arguments
          MaxCalls    \* bound: calls on the object

VARIABLES res,        \* the name of the statement res stems from, or None
          row,        \* row, and the rows that have been fetched
          fetched, rowcount,
          tmap, cols, \* m_tmap, m_num_cols
          sql,        \* the text of the last executef
          answer,     \* what the last getter returned: [value, column, type]
          threw, calls
vars == <<res, row, fetched, rowcount, tmap, cols, sql, answer, threw, calls>>

None == "none"
Nothing == [value |-> None, column |-> 0, type |-> None]
Statement == DOMAIN Table

Init ==
    /\ res = None /\ row = 0 /\ fetched = 0 /\ rowcount = 0 /\ tmap = <<>> /\ cols = 0
    /\ sql = [text |-> <<>>, format |-> <<>>, args |-> <<>>]
    /\ answer = Nothing /\ threw = FALSE /\ calls = 0

Call == calls < MaxCalls /\ calls' = calls + 1

-----------------------------------------------------------------------------
\* executef: %s is an argument, quoted, %% a percent sign, % with any other
\* letter an argument as it is; <<>> where the arguments do not suffice.
Quoted(a) == <<"'", a, "'">>
SubstituteFirst(s, c, args) ==
    [s EXCEPT !.text = @ \o (IF c = "s" THEN Quoted(args[1]) ELSE <<args[1]>>),
              !.arg = @ + 1, !.inside = FALSE]
Substitute(s, c, args) ==
    [s EXCEPT !.text = @ \o (IF c = "s" THEN Quoted(args[s.arg]) ELSE <<args[s.arg]>>),
              !.arg = @ + 1, !.inside = FALSE]
Expand1(s, c, args) ==
    IF s.failed THEN s
    ELSE IF ~s.inside THEN IF c = "%" THEN [s EXCEPT !.inside = TRUE] ELSE [s EXCEPT !.text = Append(@, c)]
    ELSE IF c = "%" THEN [s EXCEPT !.text = Append(@, c), !.inside = FALSE]
    ELSE IF s.arg > Len(args) THEN [s EXCEPT !.failed = TRUE]
    ELSE Substitute(s, c, args)
Expand(format, args) ==
    FoldLeft(LAMBDA s, c : Expand1(s, c, args),
             [text |-> <<>>, inside |-> FALSE, arg |-> 1, failed |-> FALSE], format)

\* execute, once the text is there: the result or an exception.
Run(q, ok) == res' = (IF ok THEN q ELSE res) /\ threw' = ~ok

\* The columns that get_result and get_resultf note down.
Describe(q, ok) == IF ok THEN tmap' = Table[q].types /\ cols' = Len(Table[q].types)
                   ELSE UNCHANGED <<tmap, cols>>

\* A statement while there is a result: "query busy".
BusyThrow == res # None /\ threw' = TRUE /\ UNCHANGED <<res, tmap, cols, sql>>

execute(q, ok) ==
    /\ Call /\ answer' = Nothing
    /\ \/ BusyThrow
       \/ res = None /\ Run(q, ok) /\ UNCHANGED <<tmap, cols, sql>>
    /\ fetched' = IF res = None THEN 0 ELSE fetched
    /\ UNCHANGED <<row, rowcount>>
get_result(q, ok) ==
    /\ Call /\ answer' = Nothing
    /\ \/ BusyThrow
       \/ res = None /\ Run(q, ok) /\ Describe(q, ok) /\ UNCHANGED sql
    /\ fetched' = IF res = None THEN 0 ELSE fetched
    /\ UNCHANGED <<row, rowcount>>
get_resultf(q, format, args, ok) ==
    /\ Call /\ answer' = Nothing
    /\ \/ BusyThrow
       \/ /\ res = None
          /\ LET s == Expand(format, args) IN
             IF s.failed THEN threw' = TRUE /\ UNCHANGED <<res, tmap, cols, sql>>
             ELSE /\ Run(q, ok) /\ Describe(q, ok)
                  /\ sql' = [text |-> s.text, format |-> format, args |-> args]
    /\ fetched' = IF res = None THEN 0 ELSE fetched
    /\ UNCHANGED <<row, rowcount>>

-----------------------------------------------------------------------------
free_resultKeeping ==
    /\ Call /\ res' = None /\ row' = 0
    /\ answer' = Nothing /\ threw' = FALSE /\ UNCHANGED <<fetched, rowcount, sql, tmap, cols>>
free_result ==
    /\ Call /\ res' = None /\ row' = (IF res = None THEN row ELSE 0)
    /\ tmap' = <<>> /\ cols' = 0
    /\ answer' = Nothing /\ threw' = FALSE /\ UNCHANGED <<fetched, rowcount, sql>>

\* dbi_result_next_row
Rows == Len(Table[res].rows)
fetch_row ==
    /\ Call /\ rowcount' = 1
    /\ IF res = None THEN UNCHANGED <<row, fetched>>
       ELSE /\ fetched' = IF fetched < Rows THEN fetched + 1 ELSE fetched
            /\ row' = IF fetched < Rows THEN 1 ELSE 0
    /\ answer' = Nothing /\ threw' = FALSE /\ UNCHANGED <<res, tmap, cols, sql>>

\* getstr, getval, getlongval, getulonglongval: the next column, where there
\* is a row and the column has that type.
Get(x, type) ==
    IF res # None /\ row = 1 /\ x \in DOMAIN tmap /\ tmap[x] = type THEN Table[res].rows[fetched][x] ELSE None
getNext(type) ==
    /\ Call /\ rowcount' = rowcount + 1
    /\ answer' = [value |-> Get(rowcount, type), column |-> rowcount, type |-> type]
    /\ threw' = FALSE /\ UNCHANGED <<res, row, fetched, tmap, cols, sql>>

\* get_count, get_string: the first column of the first row, and no result is
\* left over.
get_one(q, type, ok) ==
    /\ Call
    /\ \/ BusyThrow /\ answer' = Nothing /\ UNCHANGED <<row, fetched, rowcount>>
       \/ /\ res = None /\ ~ok /\ threw' = TRUE /\ answer' = Nothing
          /\ UNCHANGED <<res, tmap, cols, sql, row, fetched, rowcount>>
       \/ /\ res = None /\ ok /\ threw' = FALSE /\ UNCHANGED <<res, sql>>
          /\ fetched' = IF Table[q].rows = <<>> THEN 0 ELSE 1
          /\ answer' = [value |-> IF Table[q].rows # <<>> /\ Table[q].types[1] = type
                                  THEN Table[q].rows[1][1] ELSE None,
                        column |-> 1, type |-> type]
          /\ rowcount' = IF Table[q].rows = <<>> THEN 1 ELSE 2
          /\ row' = 0 /\ tmap' = <<>> /\ cols' = 0

\* ~Query frees the result; another object starts as Init.
Renew ==
    /\ Call /\ res' = None /\ row' = 0 /\ fetched' = 0 /\ rowcount' = 0 /\ tmap' = <<>> /\ cols' = 0
    /\ sql' = [text |-> <<>>, format |-> <<>>, args |-> <<>>] /\ answer' = Nothing /\ threw' = FALSE

Next == \/ \E q \in Statement, ok \in BOOLEAN :
               \/ execute(q, ok) \/ get_result(q, ok)
               \/ \E f \in Format, args \in Arg : get_resultf(q, f, args, ok)
               \/ \E type \in {"string", "integer"} : get_one(q, type, ok)
        \/ free_result \/ fetch_row \/ Renew
        \/ \E type \in {"string", "integer"} : getNext(type)
Spec == Init /\ [][Next]_vars

-----------------------------------------------------------------------------
\* A described result is the one that is open, and a row belongs to it; with
\* no result open nothing is described, so that a later statement is not read
\* with the columns of an earlier one (Query::free_result, get_result).
ColumnsCurrent ==
    /\ res = None => row = 0 /\ tmap = <<>> /\ cols = 0
    /\ res # None => tmap \in {<<>>, Table[res].types} /\ cols = Len(tmap)
    /\ row = 1 => fetched \in 1 .. Rows

\* What a getter returns while a result is open and described is the value of
\* the current row in the next column, if the column has the type asked for
\* (Query::getstr, getval, getlongval, getulonglongval).
ReadsInTurn ==
    (answer # Nothing /\ res # None /\ row = 1 /\ tmap # <<>> /\ answer.column <= cols) =>
        /\ answer.column = rowcount - 1
        /\ answer.value = IF Table[res].types[answer.column] = answer.type
                          THEN Table[res].rows[fetched][answer.column] ELSE None

\* The statement of an executef holds the arguments in their order, one for
\* each directive, and those of a %s in quotes (Query::executef).
PercentsBefore(f, i) == Cardinality({j \in 1 .. i - 1 : \A k \in j .. i - 1 : f[k] = "%"})
ArgumentsInOrder ==
    LET f == sql.format
        dir == SetToSortSeq({i \in 2 .. Len(f) : f[i] # "%" /\ PercentsBefore(f, i) % 2 = 1},
                            LAMBDA a, b : a < b)
        args == Range(sql.args)
    IN /\ SelectSeq(sql.text, LAMBDA c : c \in args) = SubSeq(sql.args, 1, Len(dir))
       /\ \A i \in DOMAIN dir : f[dir[i]] = "s" =>
              \E k \in 2 .. Len(sql.text) - 1 : /\ sql.text[k] = sql.args[i]
                                               /\ sql.text[k - 1] = "'" /\ sql.text[k + 1] = "'"
=============================================================================
