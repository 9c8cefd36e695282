------------------------------ MODULE IPAddress ------------------------------
(***************************************************************************)
(* The client of a request: IPAddress (src/src/ipaddress.h), which Triplet *)
(* (src/src/triplet.h) hands its members to.  Names are resolved and       *)
(* shortened when a matcher or the greylist first asks for them.  A name   *)
(* or an address is a sequence of letters and dots.                        *)
(***************************************************************************)
EXTENDS Integers, Sequences, SequencesExt, FiniteSets

CONSTANTS
    Names,      \* names a client may give
    Resolvable, \* names its address may resolve to
    Garbage,    \* what an uninitialised buffer may hold
    Addresses,  \* addresses of clients
    Index,      \* parts of an address that are asked for, from 0
    MaxCalls    \* bound: calls of getters

VARIABLES
    reverse, clientname,                \* _reverse, _clientname
    short_reverse, short_clientname,    \* computed once
    resolve_error,                      \* is _resolve_error set
    str, numeric, network,              \* the address, how many parts were parsed
    tripletstring,                      \* the triplet as one text
    thrown,                             \* initNumeric threw: the request is given up
    first,                              \* what each getter returned at first
    last,                               \* the last getter called, and its result
    calls

names == <<reverse, clientname, short_reverse, short_clientname, resolve_error>>
address == <<str, numeric, network, tripletstring, thrown>>
vars == <<names, address, first, last, calls>>

default_length == 4
Column == <<"ip64", "ip32", "ip16", "ip8">>     \* what the greylist asks the parts for
Getters == {"client_address", "client_name", "short_client_name", "reverse_client_name",
            "short_reverse_client_name", "network", "triplet_string"} \cup {Column[i + 1] : i \in Index}

-----------------------------------------------------------------------------
\* Faulty variant: a dot at the end is counted.
PartsDotAtEnd(name, pos) ==
    LET dots == {p \in pos + 1 .. Len(name) + 1 : p > 1 /\ name[p - 1] = "."}
    IN  Cardinality(dots) + Cardinality({p \in dots : Len(name) - p + 1 >= 7})

\* What the loop has counted when it stands at pos: one for each dot before
\* a position it has passed, two if seven characters or more follow it.
Parts(name, pos) ==
    LET dots == {p \in pos + 1 .. Len(name) : p > 1 /\ name[p - 1] = "."}
    IN  Cardinality(dots) + Cardinality({p \in dots : Len(name) - p + 1 >= 7})

\* The loop goes from right to left and ends at the start of the name or with
\* three parts.
getShortenedName(name) ==
    LET stop == {p \in 0 .. Len(name) : Parts(name, p) >= 3}
        pos == IF stop = {} THEN 0 ELSE CHOOSE p \in stop : \A q \in stop : q <= p
    IN  IF Parts(name, pos) = 0 THEN <<>> ELSE SubSeq(name, pos + 1, Len(name))

\* resolve(): getnameinfo fills buf or fails and leaves it as it is.
Resolved(r, e) == (r \in Resolvable /\ ~e) \/ (r \in Garbage /\ e)

-----------------------------------------------------------------------------
Return(getter, value) ==
    /\ last' = <<getter, value>> /\ calls < MaxCalls /\ calls' = calls + 1
    /\ first' = IF first[getter] = <<>> THEN [first EXCEPT ![getter] = <<value>>] ELSE first

getShortClientName ==
    LET short == IF short_clientname # <<>> THEN short_clientname ELSE getShortenedName(clientname)
    IN  /\ short_clientname' = short
        /\ Return("short_client_name", short)
        /\ UNCHANGED <<reverse, clientname, short_reverse, resolve_error, address>>

getReverseName ==
    /\ IF resolve_error \/ reverse # <<>> THEN UNCHANGED <<reverse, resolve_error>>
       ELSE \E r \in Resolvable \cup Garbage, e \in BOOLEAN :
                Resolved(r, e) /\ reverse' = r /\ resolve_error' = e
    /\ Return("reverse_client_name", reverse')
    /\ UNCHANGED <<clientname, short_reverse, short_clientname, address>>

\* Faulty variant: the error is not looked at first.
getShortReverseNameAgain ==
    /\ IF reverse # <<>> THEN UNCHANGED <<reverse, resolve_error>>
       ELSE \E r \in Resolvable \cup Garbage, e \in BOOLEAN :
                Resolved(r, e) /\ reverse' = r /\ resolve_error' = e
    /\ short_reverse' = getShortenedName(reverse')
    /\ Return("short_reverse_client_name", short_reverse')
    /\ UNCHANGED <<clientname, short_clientname, address>>

getShortReverseName ==
    /\ IF short_reverse # <<>> \/ resolve_error THEN UNCHANGED <<reverse, short_reverse, resolve_error>>
       ELSE /\ IF reverse # <<>> THEN UNCHANGED <<reverse, resolve_error>>
               ELSE \E r \in Resolvable \cup Garbage, e \in BOOLEAN :
                        Resolved(r, e) /\ reverse' = r /\ resolve_error' = e
            /\ short_reverse' = getShortenedName(reverse')
    /\ Return("short_reverse_client_name", short_reverse')
    /\ UNCHANGED <<clientname, short_clientname, address>>

\* The members that are there from the start.
getClientName ==
    \/ Return("client_address", str) /\ UNCHANGED <<names, address>>
    \/ Return("client_name", clientname) /\ UNCHANGED <<names, address>>

\* The address up to its last dot, or all of it.
getNetwork ==
    LET dots == {p \in DOMAIN str : str[p] = "."}
    IN  /\ network' = IF network # <<>> THEN network
                      ELSE IF dots = {} THEN str
                      ELSE SubSeq(str, 1, CHOOSE p \in dots : \A q \in dots : q <= p)
        /\ Return("network", network')
        /\ UNCHANGED <<names, str, numeric, tripletstring, thrown>>

getTripletString ==
    /\ tripletstring' = IF tripletstring # <<>> THEN tripletstring ELSE <<str, clientname>>
    /\ Return("triplet_string", tripletstring')
    /\ UNCHANGED <<names, str, numeric, network, thrown>>

\* initNumeric pushes a number for every part before it counts them: what it
\* throws for stays in _numeric, and [idx] is not checked.
initNumeric == Cardinality({p \in DOMAIN str : str[p] = "."}) + 1
getNumericIdx(idx) ==
    /\ numeric' = IF numeric = 0 THEN initNumeric ELSE numeric
    /\ thrown' = (numeric = 0 /\ numeric' # default_length)
    /\ IF thrown' THEN UNCHANGED <<first, last, calls>>
       ELSE \E v \in IF idx < numeric' THEN {<<Column[idx + 1]>>} ELSE Garbage : Return(Column[idx + 1], v)
    /\ UNCHANGED <<names, str, network, tripletstring>>

\* getMember, and the parts of the address for the greylist.  An exception
\* leaves match or decide, and the triplet is destroyed.
getMember ==
    /\ ~thrown
    /\ \/ getClientName \/ getShortClientName \/ getReverseName \/ getShortReverseName
       \/ getNetwork \/ getTripletString \/ \E idx \in Index : getNumericIdx(idx)

Init ==
    /\ reverse \in Resolvable \cup {<<>>} /\ clientname \in Names
    /\ short_reverse = <<>> /\ short_clientname = <<>> /\ resolve_error = FALSE
    /\ str \in Addresses /\ numeric = 0 /\ network = <<>> /\ tripletstring = <<>> /\ thrown = FALSE
    /\ first = [g \in Getters |-> <<>>]
    /\ last = <<>> /\ calls = 0
Done == (calls = MaxCalls \/ thrown) /\ UNCHANGED vars
Next == getMember \/ Done
Spec == Init /\ [][Next]_vars

-----------------------------------------------------------------------------
(* The matchers of a request agree on its members: a getter returns what  *)
(* it returned before, whatever was called in between.  That holds of a    *)
(* name that could not be resolved too, which is what the buffer held, not *)
(* the "empty string if error" of triplet.h:55; and of the parts of an     *)
(* address, because an address that is not made of four ends the request   *)
(* when they are first asked for (ipaddress.h).                            *)
SameName == last # <<>> => first[last[1]] = <<last[2]>>

(* A shortened name is the name from the beginning of one of its labels    *)
(* on, it has at least two of them (a dot at the end aside), it is empty   *)
(* for a name without a dot only, and it cannot be shortened any more      *)
(* (getShortenedName).                                                     *)
ShortenedName ==
    LET s == getShortenedName(clientname)
        inner(n) == {i \in 1 .. Len(n) - 1 : n[i] = "."}
        cut == Len(clientname) - Len(s)
    IN  /\ (s = <<>>) = (inner(clientname) = {})
        /\ s # <<>> => /\ IsSuffix(s, clientname) /\ inner(s) # {}
                       /\ cut = 0 \/ clientname[cut] = "."
                       /\ getShortenedName(s) = s
==============================================================================
