---------------------------- MODULE ConfigFileReader ----------------------------
(***************************************************************************)
(* ConfigFileReader (src/src/configfilereader.h): the lines of the         *)
(* configuration file, without comments, blank lines and trailing blanks,  *)
(* the keys in lower case without blanks.  A file is a sequence over five  *)
(* characters; "A" stands for every letter, and "a" for its lower case.    *)
(***************************************************************************)
EXTENDS Integers, Sequences, SequencesExt, FiniteSets

CONSTANTS
    MaxLen,     \* bound: characters of a file
    MaxReloads  \* bound: reloads

Char == {"A", "=", "#", " ", "\n"}
Nul == "0"

VARIABLES
    text,       \* the file
    strm,       \* the stream: characters taken, eofbit, is it open
    lines,      \* what getline has returned since the file was opened
    ended,      \* getline has returned -1
    reloads

vars == <<text, strm, lines, ended, reloads>>

opened == [pos |-> 0, eof |-> FALSE, open |-> TRUE]

tolower(c) == IF c = "A" THEN "a" ELSE c
rtrim(str) ==
    LET kept == {i \in DOMAIN str : str[i] # " "}
    IN  SubSeq(str, 1, IF kept = {} THEN 0 ELSE CHOOSE i \in kept : \A j \in kept : j <= i)

-----------------------------------------------------------------------------
\* One turn of the loop in getline.  At the end of the file get() sets eofbit
\* and leaves c as it was.
Turn(st, ch) ==
    LET c == IF ch = "EOF" THEN st.c ELSE ch
        low == IF st.begin /\ c # "=" THEN tolower(c) ELSE c
        now == [st EXCEPT !.pos = IF ch = "EOF" THEN @ ELSE @ + 1, !.eof = ch = "EOF", !.c = c]
        in == [now EXCEPT !.begin = @ /\ c # "=", !.c = low]
    IN  CASE st.done \/ st.eof -> st
          [] ~st.done /\ ~st.eof /\ st.comment ->
                IF c # "\n" THEN now
                ELSE [now EXCEPT !.str = rtrim(@), !.done = rtrim(st.str) # <<>>, !.comment = FALSE]
          [] OTHER ->
                IF in.begin /\ low = " " THEN in
                ELSE IF low = "#" THEN [in EXCEPT !.comment = TRUE]
                ELSE IF low = "\n" THEN [in EXCEPT !.done = st.str # <<>>]
                ELSE [in EXCEPT !.str = Append(@, low)]

GetLine ==
    LET start == [pos |-> strm.pos, eof |-> FALSE, c |-> Nul, str |-> <<>>,
                  begin |-> TRUE, comment |-> FALSE, done |-> FALSE]
        st == FoldLeft(Turn, start, SubSeq(text, strm.pos + 1, Len(text)) \o <<"EOF">>)
        str == rtrim(st.str)
    IN  /\ ~ended
        /\ IF strm.eof
           THEN ended' = TRUE /\ UNCHANGED <<strm, lines>>
           ELSE /\ strm' = [pos |-> st.pos, eof |-> st.eof, open |-> ~st.eof]
                /\ ended' = (st.eof /\ str = <<>>)
                /\ lines' = IF ended' THEN lines ELSE Append(lines, str)
        /\ UNCHANGED <<text, reloads>>

\* Faulty variant: open() leaves the eofbit of the file before.
reloadAtEof ==
    /\ ended /\ reloads < MaxReloads /\ reloads' = reloads + 1
    /\ text' \in {Reverse(text), Tail(text \o <<"\n">>)}
    /\ strm' = [opened EXCEPT !.eof = strm.eof] /\ lines' = <<>> /\ ended' = FALSE

\* The file is closed and opened again; it may have changed.
reload ==
    /\ ended /\ reloads < MaxReloads /\ reloads' = reloads + 1
    /\ text' \in {Reverse(text), Tail(text \o <<"\n">>)}
    /\ strm' = opened /\ lines' = <<>> /\ ended' = FALSE

Init ==
    /\ text \in SeqOf(Char, MaxLen)
    /\ strm = opened /\ lines = <<>> /\ ended = FALSE /\ reloads = 0
Done == ended /\ reloads = MaxReloads /\ UNCHANGED vars
Next == GetLine \/ reload \/ Done
Spec == Init /\ [][Next]_vars

-----------------------------------------------------------------------------
\* What a line of the file means.
Meaning(raw) ==
    LET first(s, c) == IF \E i \in DOMAIN s : s[i] = c
                       THEN CHOOSE i \in DOMAIN s : s[i] = c /\ \A j \in 1 .. i - 1 : s[j] # c
                       ELSE Len(s) + 1
        line == SubSeq(raw, 1, first(raw, "#") - 1)
        key == SelectSeq(SubSeq(line, 1, first(line, "=") - 1), LAMBDA c : c # " ")
    IN  rtrim([i \in DOMAIN key |-> tolower(key[i])] \o SubSeq(line, first(line, "="), Len(line)))

\* The meanings of the lines that a newline ends, without the blank ones.
Meanings ==
    LET ends == SetToSortSeq({0} \cup {i \in DOMAIN text : text[i] = "\n"}, <)
        raw == [i \in 1 .. Len(ends) - 1 |-> SubSeq(text, ends[i] + 1, ends[i + 1] - 1)]
    IN  SelectSeq([i \in DOMAIN raw |-> Meaning(raw[i])], LAMBDA l : l # <<>>)

\* getline returns the meaning of every line that a newline ends, in order and
\* once, before and after a reload.  At most one line comes after them, and
\* one does when what stands after the last newline means something; that it
\* is read as it stands there is not said, since get() fails at the end of the
\* file and the character before it is taken again (configfilereader.h:57).
LinesRead ==
    LET rest == SelectInSeq(Reverse(text), LAMBDA c : c = "\n")
        after == IF rest = 0 THEN text ELSE SubSeq(text, Len(text) - rest + 2, Len(text))
    IN  ended => /\ Len(lines) - Len(Meanings) \in {0, 1}
                 /\ SubSeq(lines, 1, Len(Meanings)) = Meanings
                 /\ Meaning(after) # <<>> => Len(lines) > Len(Meanings)
================================================================================
