-------------------------------- MODULE SetEnum --------------------------------
(***************************************************************************)
(* The column types set_t and enum_t of dbiwrapped.  Both keep a reference *)
(* to one map from names to numbers, and every lookup of a name that is    *)
(* not in it adds the name with the number 0; an enum_t also has a table   *)
(* from numbers to names, which it brings up to date when its size differs *)
(* from that of the map.  A set of bits is the set of their numbers here:  *)
(* bit n stands for 2^(n-1), and number 0 for no bit at all.               *)
(***************************************************************************)
EXTENDS Naturals, FiniteSets, Sequences, Functions, TLC

CONSTANTS Names,     \* the names of the column: [name -> 1..n]
          Unknown,   \* names that are not of the column
          MaxCalls   \* bound: operations

VARIABLES mmap,      \* m_mmap, shared
          bits,      \* m_value of the set_t
          value, vmap,  \* m_value and m_vmap of the enum_t
          calls
vars == <<mmap, bits, value, vmap, calls>>

Name == DOMAIN Names \union Unknown
Max == Cardinality(DOMAIN Names)

\* enum_t::enum_t fills the table; of two names with a number the later one
\* is kept (here the names that are not of the column come last).
NameOf(map, n) == LET of == {s \in DOMAIN map : map[s] = n}
                  IN CHOOSE s \in of : s \in Unknown \/ of \intersect Unknown = {}
Inverted(map) == [n \in Range(map) |-> NameOf(map, n)]

Init == /\ mmap = Names /\ bits = {} /\ value = 0 /\ vmap = Inverted(Names) /\ calls = 0

Call == calls < MaxCalls /\ calls' = calls + 1
\* map::operator[]
KnownNumbered(names) == [s \in (DOMAIN mmap \union names) |->
                            IF s \in DOMAIN mmap THEN mmap[s] ELSE Cardinality(DOMAIN mmap)]
Known(names) == [s \in (DOMAIN mmap \union names) |-> IF s \in DOMAIN mmap THEN mmap[s] ELSE 0]
Bits(names) == {Known(names)[s] : s \in names} \ {0}

-----------------------------------------------------------------------------
\* set_t: =, += and -= with the names between the commas, = |= and &= with a
\* number.
Assign(names) == /\ Call /\ bits' = Bits(names) /\ mmap' = Known(names) /\ UNCHANGED <<value, vmap>>
AddKeeping(names) == /\ Call /\ bits' = bits \union {Known(names)[s] : s \in names} /\ mmap' = Known(names)
                     /\ UNCHANGED <<value, vmap>>
Add(names) == /\ Call /\ bits' = bits \union Bits(names) /\ mmap' = Known(names) /\ UNCHANGED <<value, vmap>>
Subtract(names) == /\ Call /\ bits' = bits \ Bits(names) /\ mmap' = Known(names) /\ UNCHANGED <<value, vmap>>
Number(b) == /\ Call /\ bits' \in {b, bits \union b, bits \intersect b} /\ UNCHANGED <<mmap, value, vmap>>

\* set_t::String, in_set
Listed == {s \in DOMAIN mmap : mmap[s] \in bits}
in_set(s) == Known({s})[s] \in bits

\* enum_t: = with a name and with a number.
Choose(s) == /\ Call /\ value' = Known({s})[s] /\ mmap' = Known({s}) /\ UNCHANGED <<bits, vmap>>
ChooseNumber(n) == /\ Call /\ value' = n /\ UNCHANGED <<mmap, bits, vmap>>

\* enum_t::String, c_str and the comparisons: the table takes in the map when
\* their sizes differ, then a number it does not have as the name "".
Refreshed == IF Cardinality(DOMAIN vmap) # Cardinality(DOMAIN mmap) THEN Inverted(mmap) @@ vmap ELSE vmap
Text == IF value \in DOMAIN Refreshed THEN Refreshed[value] ELSE ""
String == /\ Call /\ vmap' = (value :> Text) @@ Refreshed /\ UNCHANGED <<mmap, bits, value>>

Next == \/ \E names \in SUBSET Name : Assign(names) \/ Add(names) \/ Subtract(names)
        \/ \E b \in SUBSET (1 .. Max) : Number(b)
        \/ \E s \in Name : Choose(s)
        \/ \E n \in 0 .. Max + 1 : ChooseNumber(n)
        \/ String
Spec == Init /\ [][Next]_vars

-----------------------------------------------------------------------------
\* What set_t::String lists is the set, name for bit: read back it gives the
\* same bits, whatever unknown names were looked up in between, and a name
\* without a number is never in a set.
SetTrip == /\ Bits(Listed) = bits
           /\ \A s \in Name : in_set(s) <=> s \in Listed
           /\ Listed \intersect Unknown = {}

\* An enum_t with the number of a name of the column is that name, however
\* the table and the map grew (enum_t::String).
EnumTrip == value \in 1 .. Max => Names[Text] = value
=============================================================================
