----------------------------- MODULE EventHandler -----------------------------
(***************************************************************************)
(* src/src/Sockets-2.3.5/EventHandler.cpp, Event.cpp, IEventOwner.cpp:     *)
(* timer events.  The loop waits in Select, then CheckEvents fires what is *)
(* due; a callback may add, remove and clear events and delete owners.     *)
(* An event is an object on the heap: its address is free again once it is *)
(* deleted, and CheckEvents looks for the fired event by its address.      *)
(***************************************************************************)
EXTENDS Integers, Sequences, SequencesExt, FiniteSets

CONSTANTS Owner, SocketOwner,      \* event owners, and those that are Sockets
          Addr,                    \* addresses of the heap
          Delay, MaxTime, MaxEvents

VARIABLES m_events,                \* [addr, id, from, time], earliest first
          clock, now,              \* now is CheckEvents' reading of the clock
          pc, e,                   \* where the loop is, and the event it fired
          owners, m_sockets,       \* owners that exist, sockets registered
          m_unique_id, fate,       \* events made, and what became of each
          orphan                   \* events made when the one being fired was already deleted
vars == <<m_events, clock, now, pc, e, owners, m_sockets, m_unique_id, fate, orphan>>

NoEvent == [addr |-> 0, id |-> 0, from |-> 0, time |-> 0]

Init ==
    /\ m_events = <<>> /\ clock = 0 /\ now = 0 /\ pc = "select" /\ e = NoEvent
    /\ owners = Owner /\ m_sockets = {} /\ m_unique_id = 0
    /\ fate = [i \in 1..MaxEvents |-> "none"] /\ orphan = {}

Kept(keep(_)) == SelectSeq(m_events, keep)
Ids(s) == {s[i].id : i \in DOMAIN s}

-----------------------------------------------------------------------------
(* What a callback, of a socket in Select or of an event, may do *)

Calling == pc \in {"select", "callback"}

\* Mutant: an event is put behind those that are due at the same time or later.
AddEventLast(from, delay) ==
    /\ Calling /\ from \in owners /\ m_unique_id < MaxEvents /\ clock + delay < MaxTime
    /\ \E a \in Addr \ {m_events[i].addr : i \in DOMAIN m_events} :
          m_events' = Append(m_events, [addr |-> a, id |-> m_unique_id + 1, from |-> from, time |-> clock + delay])
    /\ m_unique_id' = m_unique_id + 1 /\ fate' = [fate EXCEPT ![m_unique_id + 1] = "pending"]
    /\ orphan' = IF pc = "callback" /\ e.id \notin Ids(m_events) THEN orphan \cup {m_unique_id + 1} ELSE orphan
    /\ UNCHANGED <<clock, now, pc, e, owners, m_sockets>>

\* Before the first event that is not earlier.
AddEvent(from, delay) ==
    /\ Calling /\ from \in owners /\ m_unique_id < MaxEvents /\ clock + delay < MaxTime
    /\ LET n == Len(SelectSeq(m_events, LAMBDA x : x.time < clock + delay))
       IN \E a \in Addr \ {m_events[i].addr : i \in DOMAIN m_events} :
            m_events' = InsertAt(m_events, n + 1,
                                 [addr |-> a, id |-> m_unique_id + 1, from |-> from, time |-> clock + delay])
    /\ m_unique_id' = m_unique_id + 1 /\ fate' = [fate EXCEPT ![m_unique_id + 1] = "pending"]
    /\ orphan' = IF pc = "callback" /\ e.id \notin Ids(m_events) THEN orphan \cup {m_unique_id + 1} ELSE orphan
    /\ UNCHANGED <<clock, now, pc, e, owners, m_sockets>>

\* The events ids are deleted before they were fired.
Forget(ids) == fate' = [i \in DOMAIN fate |-> IF i \in ids /\ fate[i] = "pending" THEN "removed" ELSE fate[i]]

RemoveEvent(from, eid) ==
    /\ Calling /\ \E i \in DOMAIN m_events : m_events[i].id = eid /\ m_events[i].from = from
    /\ m_events' = Kept(LAMBDA x : x.id # eid) /\ Forget({eid})
    /\ UNCHANGED <<clock, now, pc, e, owners, m_sockets, m_unique_id, orphan>>

ClearEvents(from) ==
    /\ m_events' = Kept(LAMBDA x : x.from # from)
    /\ Forget({m_events[i].id : i \in {j \in DOMAIN m_events : m_events[j].from = from}})

Clear(from) ==
    /\ Calling /\ from \in owners /\ ClearEvents(from)
    /\ UNCHANGED <<clock, now, pc, e, owners, m_sockets, m_unique_id, orphan>>

\* ~IEventOwner
Delete(from) ==
    /\ Calling /\ from \in owners /\ owners' = owners \ {from} /\ m_sockets' = m_sockets \ {from}
    /\ ClearEvents(from)
    /\ UNCHANGED <<clock, now, pc, e, m_unique_id, orphan>>

\* A Select that registers the sockets that were added.
Register ==
    /\ pc = "select" /\ m_sockets # SocketOwner \cap owners
    /\ m_sockets' = SocketOwner \cap owners
    /\ UNCHANGED <<m_events, clock, now, pc, e, owners, m_unique_id, fate, orphan>>

-----------------------------------------------------------------------------
(* EventLoop and CheckEvents *)

Tick == clock < MaxTime /\ clock' = clock + 1
        /\ UNCHANGED <<m_events, now, pc, e, owners, m_sockets, m_unique_id, fate, orphan>>

Check ==
    /\ pc = "select" /\ m_events # <<>> /\ pc' = "check" /\ now' = clock
    /\ UNCHANGED <<m_events, clock, e, owners, m_sockets, m_unique_id, fate, orphan>>

Due == m_events # <<>> /\ m_events[1].time < now

\* Mutant: the first event is fired, due or not, and its owner valid or not.
FireUnchecked ==
    /\ pc = "check" /\ m_events # <<>> /\ e' = m_events[1]
    /\ pc' = "callback" /\ fate' = [fate EXCEPT ![e'.id] = "fired"]
    /\ UNCHANGED <<m_events, clock, now, owners, m_sockets, m_unique_id, orphan>>

Valid(from) == from \in m_sockets
Fire ==
    /\ pc = "check" /\ Due /\ e' = m_events[1]
    /\ IF e'.from \in SocketOwner /\ ~Valid(e'.from)
       THEN pc' = "erase" /\ fate' = [fate EXCEPT ![e'.id] = "dropped"]
       ELSE pc' = "callback" /\ fate' = [fate EXCEPT ![e'.id] = "fired"]
    /\ UNCHANGED <<m_events, clock, now, owners, m_sockets, m_unique_id, orphan>>

Return ==
    /\ pc = "callback" /\ pc' = "erase"
    /\ UNCHANGED <<m_events, clock, now, e, owners, m_sockets, m_unique_id, fate, orphan>>

\* The first event at the address of the fired one is deleted.
Erase ==
    /\ pc = "erase" /\ pc' = "check" /\ e' = NoEvent
    /\ LET i == SelectInSeq(m_events, LAMBDA x : x.addr = e.addr)
       IN IF i = 0 THEN UNCHANGED <<m_events, fate>>
          ELSE /\ m_events' = RemoveAt(m_events, i)
               /\ fate' = IF m_events[i].id = e.id THEN fate ELSE [fate EXCEPT ![m_events[i].id] = "lost"]
    /\ UNCHANGED <<clock, now, owners, m_sockets, m_unique_id, orphan>>

Checked ==
    /\ pc = "check" /\ ~Due /\ pc' = "select"
    /\ UNCHANGED <<m_events, clock, now, e, owners, m_sockets, m_unique_id, fate, orphan>>

Next ==
    \/ \E o \in Owner, d \in Delay : AddEvent(o, d)
    \/ \E o \in Owner, i \in 1..MaxEvents : RemoveEvent(o, i)
    \/ \E o \in Owner : Clear(o) \/ Delete(o)
    \/ Register \/ Tick \/ Check \/ Fire \/ Return \/ Erase \/ Checked

Spec == Init /\ [][Next]_vars

-----------------------------------------------------------------------------
\* No timer is forgotten, fired early or fired twice, whatever the callbacks
\* do to the list CheckEvents is walking: an event that was neither fired nor
\* removed is in the list, once, and the list is in the order of the times; a
\* fired one was due and its owner exists.  An event is lost only when it was
\* made by a callback whose own event was already deleted, at its address.
TimersKept ==
    /\ \A i \in 1..MaxEvents : fate[i] = "pending" =>
          Cardinality({k \in DOMAIN m_events : m_events[k].id = i}) = 1
    /\ \A k \in DOMAIN m_events : /\ m_events[k].from \in owners
                                  /\ fate[m_events[k].id] = "pending" \/ m_events[k].id = e.id
    /\ \A j, k \in DOMAIN m_events : j < k => m_events[j].time <= m_events[k].time
    /\ pc = "callback" => e.time < clock
    /\ \A i \in 1..MaxEvents : fate[i] = "lost" => i \in orphan
=============================================================================
