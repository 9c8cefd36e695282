------------------------------ MODULE FormUpload ------------------------------
(***************************************************************************)
(* Sockets-2.3.5: a form with fields and files, written by HttpPostSocket  *)
(* as multipart/form-data and read by HttpdForm.  A text is a sequence of  *)
(* characters; "r" and "n" are CR and LF.  The header lines of a part are  *)
(* one line with one character, the name of the field or of the file.      *)
(***************************************************************************)
EXTENDS Integers, Sequences, SequencesExt, FiniteSets

CONSTANTS Field, File,      \* names, in the order of the maps: sequences
          Value, Content,   \* lists of lines, and contents of a file
          m_boundary,       \* of HttpPostSocket
          Garbage           \* what the bytes of a new array may be

VARIABLES pc,
          m_fields, m_files,     \* name -> lines; name -> what stat() saw of it
          disk,                  \* name -> what the file holds
          length, sent,          \* Content-length, and the body
          form                   \* what HttpdForm made of it
vars == <<pc, m_fields, m_files, disk, length, sent, form>>

CRLF == <<"r", "n">>
Dashes == <<"-", "-">>
Added(map, name, v) == [x \in DOMAIN map \cup {name} |-> IF x = name THEN v ELSE map[x]]
Listed(names, map) == SelectSeq(names, LAMBDA x : x \in DOMAIN map)

-----------------------------------------------------------------------------
(* HttpPostSocket                                                          *)

Init ==
    /\ pc = "fill" /\ m_fields = <<>> /\ m_files = <<>> /\ disk \in [ToSet(File) -> Content]
    /\ length = 0 /\ sent = <<>> /\ form = <<>>

AddMultilineField(f, lines) ==
    /\ pc = "fill" /\ m_fields' = Added(m_fields, f, lines)
    /\ UNCHANGED <<pc, m_files, disk, length, sent, form>>

\* stat() fails, or tells the size the file has now.
AddFile(f) ==
    /\ pc = "fill"
    /\ \/ m_files' = Added(m_files, f, disk[f]) /\ UNCHANGED pc
       \/ pc' = "closed" /\ UNCHANGED m_files
    /\ UNCHANGED <<m_fields, disk, length, sent, form>>

Rewrite(f, c) ==
    /\ pc = "fill" /\ c # disk[f] /\ disk' = [disk EXCEPT ![f] = c]
    /\ UNCHANGED <<pc, m_fields, m_files, length, sent, form>>

FieldPart(f) ==
    Dashes \o m_boundary \o CRLF \o <<f>> \o CRLF \o CRLF
    \o FlattenSeq([i \in 1..Len(m_fields[f]) |-> m_fields[f][i] \o CRLF])
FileHead(f) == Dashes \o m_boundary \o CRLF \o <<f>> \o CRLF \o CRLF
EndMark == Dashes \o m_boundary \o Dashes \o CRLF

DoMultipartPost ==
    LET fields == Listed(Field, m_fields)
        files == Listed(File, m_files)
        Body(content) ==
            FlattenSeq([i \in 1..Len(fields) |-> FieldPart(fields[i])])
            \o FlattenSeq([i \in 1..Len(files) |-> FileHead(files[i]) \o content[files[i]] \o CRLF])
            \o EndMark
    IN /\ pc = "fill" /\ m_files # <<>> /\ pc' = "sent"
       /\ length' = Len(Body(m_files)) /\ sent' = Body(disk)
       /\ UNCHANGED <<m_fields, m_files, disk, form>>

-----------------------------------------------------------------------------
(* HttpdForm(infil, content_type, content_length).  p is what the locals   *)
(* are: in, eof and cl of the input, slask, bnd = m_strBoundary, the array *)
(* ring = tempcmp with its index tc, name and file of the part, m_cgi.     *)
(* guess: a byte the array was not given was taken for the boundary's.     *)

fgets(p) ==
    LET at == SelectInSeq(p.in, LAMBDA c : c = "n")
        line == IF at = 0 THEN p.in ELSE SubSeq(p.in, 1, at - 1)
    IN [p EXCEPT !.slask = line, !.cl = @ - Len(line), !.eof = (at = 0),
                 !.in = IF at = 0 THEN <<>> ELSE SubSeq(p.in, at + 1, Len(p.in))]
RECURSIVE Trim(_)
Trim(s) == IF s # <<>> /\ Last(s) \in {"r", "n"} THEN Trim(Front(s)) ELSE s
More(p) == p.cl >= 0 /\ ~p.eof
strstr(s, t) == \E i \in 0..(Len(s) - Len(t)) : SubSeq(s, i + 1, i + Len(t)) = t

RECURSIVE PartHeaders(_)
PartHeaders(p) ==
    LET s == Trim(p.slask) IN
    IF ~More(p) \/ s = <<>> THEN [p EXCEPT !.slask = s]
    ELSE PartHeaders(fgets([p EXCEPT !.name = s[1], !.file = s[1] \in ToSet(File)]))

RECURSIVE PartValue(_)
PartValue(p) ==
    IF ~More(p) \/ IsPrefix(p.bnd, p.slask) THEN [p EXCEPT !.cgi = Append(@, <<p.name, Trim(p.val)>>)]
    ELSE PartValue(fgets([p EXCEPT !.val = @ \o p.slask]))

\* The comparison behind the loop's break: which bytes of the array have to be
\* which of the boundary.  At tc = l + 1 the code compares memory that is
\* neither, and goes on.
Compared(p) ==
    LET l == Len(p.bnd) IN
    CASE p.tc = 0 -> {<<j + 2, j + 1>> : j \in 0..(l - 1)}
      [] p.tc \in 1..l -> {<<p.tc + 2 + j, j + 1>> : j \in 0..(l - p.tc - 1)}
                          \cup {<<j, l - p.tc + j + 1>> : j \in 0..(p.tc - 1)}
      [] OTHER -> {}
AtBoundary(p) == p.tc <= Len(p.bnd) /\ \A x \in Compared(p) : p.ring[x[1]] = p.bnd[x[2]]

\* Mutant: the array is one byte shorter.
ByteInShort(p, c) ==
    LET tc == (p.tc + 1) % (Len(p.bnd) + 1) IN
    [p EXCEPT !.saved = IF p.out THEN Append(@, p.ring[p.tc]) ELSE @,
              !.ring = [@ EXCEPT ![p.tc] = c], !.known = @ \cup {p.tc},
              !.tc = tc, !.out = (@ \/ tc = 0)]

ByteIn(p, c) ==
    LET tc == (p.tc + 1) % (Len(p.bnd) + 2) IN
    [p EXCEPT !.saved = IF p.out THEN Append(@, p.ring[p.tc]) ELSE @,
              !.ring = [@ EXCEPT ![p.tc] = c], !.known = @ \cup {p.tc},
              !.tc = tc, !.out = (@ \/ tc = 0)]

RECURSIVE PartFile(_)
PartFile(p) ==
    IF p.in = <<>> THEN [p EXCEPT !.eof = TRUE, !.cl = @ - 1]
    ELSE LET q == [p EXCEPT !.in = Tail(@), !.cl = @ - 1]
             r == ByteIn(q, Head(p.in))
         IN IF q.cl < 0 THEN q
            ELSE IF AtBoundary(r)
            THEN [r EXCEPT !.guess = @ \/ \E x \in Compared(r) : x[1] \notin r.known]
            ELSE PartFile(r)
AfterFile(p) ==
    LET q == fgets([p EXCEPT !.cgi = Append(@, <<p.name, p.saved>>)]) IN [q EXCEPT !.slask = p.bnd \o @]

NewArray(p, bnd, g) == [p EXCEPT !.bnd = bnd, !.ring = [i \in 0..(Len(bnd) + 1) |-> g], !.known = {}]

RECURSIVE Parts(_, _)
Parts(p, g) ==
    LET s == Trim(p.slask)
        b == IF (strstr(s, p.bnd) \/ strstr(p.bnd, s)) /\ s # p.bnd THEN NewArray(p, s, g) ELSE p
        part == PartHeaders(fgets([b EXCEPT !.name = "", !.file = FALSE, !.val = <<>>]))
    IN IF ~More(p) \/ s # b.bnd THEN p
       ELSE IF ~part.file
       THEN LET q == PartValue(fgets(part)) IN IF q.cl = 0 THEN q ELSE Parts(q, g)
       ELSE LET q == AfterFile(PartFile([part EXCEPT !.out = FALSE, !.saved = <<>>]))
            IN IF q.cl = 0 THEN q ELSE Parts(q, g)

HttpdForm(in, content_length, g) ==
    LET p == [in |-> in, eof |-> FALSE, cl |-> content_length, slask |-> <<>>, bnd |-> <<>>,
              ring |-> <<>>, known |-> {}, tc |-> 0, out |-> FALSE, name |-> "", file |-> FALSE,
              val |-> <<>>, saved |-> <<>>, guess |-> FALSE, cgi |-> <<>>]
    IN Parts(fgets(NewArray(p, m_boundary, g)), g)

\* HttpdSocket hands on a body once it has all of its Content-length.
Execute ==
    /\ pc = "sent" /\ length <= Len(sent) /\ pc' = "read"
    /\ \E g \in Garbage :
         LET p == HttpdForm(SubSeq(sent, 1, length), length, g)
         IN form' = [cgi |-> p.cgi, guess |-> p.guess]
    /\ UNCHANGED <<m_fields, m_files, disk, length, sent>>

Next ==
    \/ \E i \in DOMAIN Field, lines \in Value : AddMultilineField(Field[i], lines)
    \/ \E i \in DOMAIN File : AddFile(File[i]) \/ \E c \in Content : Rewrite(File[i], c)
    \/ DoMultipartPost
    \/ Execute
Spec == Init /\ [][Next]_vars

-----------------------------------------------------------------------------
\* A form that was posted is read as it was filled in: every field with its
\* lines (joined by CR, the line feeds are lost), every file with its bytes,
\* and one entry without a name for the end mark.  It holds for files that did
\* not change since AddFile, contents without the boundary, and sizes for which
\* the array works: it misses the boundary when the size is one less than a
\* multiple of its length, and a further file is only read right when the one
\* before it ended where the array begins.
FormAsSent ==
    LET R == Len(m_boundary) + 4
        fields == Listed(Field, m_fields)
        files == Listed(File, m_files)
        Size(i) == Len(m_files[files[i]]) % R
        Lines(f) == FlattenSeq([i \in 1..Len(m_fields[f]) |-> m_fields[f][i] \o <<"r">>])
    IN pc = "read" /\ ~form.guess
       /\ (\A i \in 1..Len(files) : /\ m_files[files[i]] = disk[files[i]] /\ Size(i) # R - 1
                                    /\ (i < Len(files) => Size(i) = 0))
       => form.cgi = [i \in 1..Len(fields) |-> <<fields[i], Trim(Lines(fields[i]))>>]
                     \o [i \in 1..Len(files) |-> <<files[i], m_files[files[i]]>>] \o << <<"", <<>>>> >>
===============================================================================
