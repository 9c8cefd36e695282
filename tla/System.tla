------------------------------- MODULE System -------------------------------
(***************************************************************************)
(* The life of the daemon: System::run and compileConfig (src/src/         *)
(* system.h), the signal handler (system.cpp), the accept loop and end of  *)
(* Server::run and the monitor thread (server.h).  Two threads and the     *)
(* signal handlers share g_signal; sa_mask is empty and there are several  *)
(* threads, so handlers run at the same time.  That the handlers of a      *)
(* server end once it stops accepting is what module Server shows; here    *)
(* they take no step.  The SIGPIPE by which one of them may end the whole  *)
(* process instead is in Server too: what is said here of a signal that    *)
(* must be served is said of a daemon that SIGPIPE does not end.           *)
(***************************************************************************)
EXTENDS Naturals, FiniteSets

CONSTANTS
    Config,         \* contents of greylist.cfg: records [names, ok]: the names
                    \* its sections define and whether the rest of it compiles
    None,           \* no configuration
    MaxSignals      \* bound: signals sent

ASSUME ConfigAssumption ==
    /\ None \notin Config /\ MaxSignals \in Nat
    /\ \A c \in Config : c.ok \in BOOLEAN

VARIABLES
    signal,         \* g_signal: "0", "HUP", "QUIT" or "USR2"
    handling,       \* handlers that found g_signal 0 and are about to set it: the
                    \* signal, whether it runs in the main thread, its place in sent
    main,           \* where System::run is
    monitor,        \* where Server::monitor is
    interrupted,    \* thrMonitor.interrupt() has been called
    listener,       \* the listening socket: "closed", "open" or "shut"
    file,           \* greylist.cfg
    defined,        \* names in _databases, _datasources and _matchers
    running,        \* the configuration of settings and core
    code,           \* what run() returns, or -1 if it throws
    error,          \* why the last compileConfig failed
    failed,         \* accept failed for a reason of its own
    sent,           \* signals sent
    raced           \* history: since g_signal was last 0, a handler has stored
                    \* its signal over that of another one

thread == <<monitor, interrupted>>
config == <<file, defined, running, error>>
vars == <<signal, handling, main, thread, listener, config, code, failed, sent, raced>>

Signal == {"HUP", "QUIT", "USR2"}
MainPc == {"start", "run", "accept", "stop", "close", "join", "check", "reload", "retry", "exit"}
MonitorPc == {"none", "loop", "refresh", "recheck", "clear", "sleep", "after", "done"}

\* The main thread stands still while it runs a handler.
Go(from, to) == main = from /\ main' = to /\ \A h \in handling : ~h[2]
Step(from, to) == monitor = from /\ monitor' = to

Init ==
    /\ signal = "0" /\ handling = {} /\ main = "start" /\ monitor = "none" /\ interrupted = FALSE
    /\ listener = "closed" /\ file \in Config /\ defined = {} /\ running = None
    /\ code = 0 /\ error = "none" /\ failed = FALSE /\ sent = 0
    /\ raced = FALSE

\* Two files that compile, and one that fails after its names are defined.
Good == [names |-> {"db", "ds"}, ok |-> TRUE]
Other == [names |-> {"db2"}, ok |-> TRUE]
Broken == [names |-> {"db", "ds"}, ok |-> FALSE]
Files == {Good, Other, Broken}
TwoFiles == {Good, Broken}

-----------------------------------------------------------------------------
\* accept fails with EINTR when its thread has run the handler of a signal
\* caught without SA_RESTART, recorded or not.
Interrupts(s) == s \in {"HUP", "QUIT"} /\ main = "accept" /\ main' = "stop"

\* While a thread runs the handler of a signal only other signals reach it.
Blocked(s, onMain) == onMain /\ \E h \in handling : h[1] = s /\ h[2]
\* The last handler to interrupt a thread is the first to return.
Innermost(h) == h[2] => \A g \in handling : g[2] => g[3] <= h[3]

\* Faulty variant: the handler does not look at g_signal.
DeliverAlways(s, onMain) ==
    /\ main # "exit" /\ sent < MaxSignals /\ ~Blocked(s, onMain)
    /\ handling' = handling \cup {<<s, onMain, sent>>} /\ main' = main
    /\ sent' = sent + 1
    /\ UNCHANGED <<signal, thread, listener, config, code, failed, raced>>

\* signal_handler: the test.  The signal is dropped if another is recorded.
Deliver(s, onMain) ==
    /\ main # "exit" /\ sent < MaxSignals /\ ~Blocked(s, onMain)
    /\ IF signal = "0"
       THEN handling' = handling \cup {<<s, onMain, sent>>} /\ main' = main
       ELSE handling' = handling /\ (main' = main \/ (onMain /\ Interrupts(s)))
    /\ sent' = sent + 1
    /\ UNCHANGED <<signal, thread, listener, config, code, failed, raced>>

\* signal_handler: the assignment, whatever has been stored since the test.
Store(h) ==
    /\ main # "exit" /\ Innermost(h)
    /\ handling' = handling \ {h}
    /\ signal' = h[1]
    /\ raced' = (raced \/ signal # "0")
    /\ main' = main \/ (h[2] /\ Interrupts(h[1]))
    /\ UNCHANGED <<thread, listener, config, code, failed, sent>>

\* Somebody edits greylist.cfg.
Edit ==
    /\ main # "exit"
    /\ file' \in Config \ {file}
    /\ UNCHANGED <<signal, handling, main, thread, listener, defined, running, code, error, failed, sent, raced>>

-----------------------------------------------------------------------------
\* parseConfigurationSections: a section may not have a name that a container
\* has already; the containers are emptied at the end only.
Clash == file.names \cap defined # {}
ParseThrows ==
    /\ \/ Clash /\ error' = "duplicate"
       \/ ~file.ok /\ error' = "config"
    /\ \E S \in SUBSET file.names : defined' = defined \cup S
ParseDone == ~Clash /\ file.ok /\ defined' = {}

\* compileConfig with the file: it throws while parsing, or when the new
\* listener cannot be opened.
Compile == ParseDone /\ listener' = "open" /\ running' = file /\ error' = "none"
CompileThrows ==
    /\ ParseThrows \/ (ParseDone /\ error' = "listen")
    /\ UNCHANGED <<listener, running>>

Exit(from, c) == Go(from, "exit") /\ code' = c

Start ==
    /\ \/ Go("start", "run") /\ Compile /\ code' = code
       \/ Exit("start", 0 - 1) /\ CompileThrows
    /\ UNCHANGED <<signal, handling, thread, file, failed, sent, raced>>

\* Server::run starts the monitor and accepts.
Run ==
    /\ Go("run", "accept")
    /\ monitor' = "loop" /\ interrupted' = FALSE
    /\ UNCHANGED <<signal, handling, listener, config, code, failed, sent, raced>>

\* accept fails: the listener was shut down, or for another reason.
AcceptFails ==
    /\ Go("accept", "stop")
    /\ failed' = (failed \/ listener = "open")
    /\ UNCHANGED <<signal, handling, thread, listener, config, code, sent, raced>>

Interrupt ==
    /\ Go("stop", "close")
    /\ interrupted' = TRUE
    /\ UNCHANGED <<signal, handling, monitor, listener, config, code, failed, sent, raced>>

Close ==
    /\ Go("close", "join")
    /\ listener' = "closed"
    /\ UNCHANGED <<signal, handling, thread, config, code, failed, sent, raced>>

Join ==
    /\ monitor = "done"
    /\ Go("join", "check")
    /\ UNCHANGED <<signal, handling, thread, listener, config, code, failed, sent, raced>>

Check ==
    /\ \/ signal = "0" /\ Exit("check", 0 - 1)
       \/ signal = "QUIT" /\ Exit("check", 0)
       \/ signal \notin {"0", "QUIT"} /\ Go("check", "reload") /\ code' = code
    /\ UNCHANGED <<signal, handling, thread, listener, config, failed, sent, raced>>

Reload ==
    /\ \/ Go("reload", "run") /\ Compile /\ signal' = "0" /\ raced' = FALSE
       \/ Go("reload", "retry") /\ CompileThrows /\ UNCHANGED <<signal, raced>>
    /\ UNCHANGED <<handling, thread, file, code, failed, sent>>

\* The previous settings and core; only the listener can fail.
Retry ==
    /\ \/ /\ Go("retry", "run") /\ listener' = "open" /\ code' = code
          /\ signal' = "0" /\ raced' = FALSE
       \/ Exit("retry", 0 - 2) /\ UNCHANGED <<listener, signal, raced>>
    /\ UNCHANGED <<handling, thread, config, failed, sent>>

-----------------------------------------------------------------------------
\* Faulty variant: only the main thread can end the loop.
LoopDeaf ==
    /\ \/ interrupted /\ Step("loop", "after")
       \/ ~interrupted /\ (Step("loop", "refresh") \/ (signal # "USR2" /\ Step("loop", "sleep")))
    /\ UNCHANGED <<signal, handling, main, interrupted, listener, config, code, failed, sent, raced>>

\* The head of the monitor's loop; without USR2, a refresh is due by time.
Loop ==
    /\ \/ (interrupted \/ signal \in {"QUIT", "HUP"}) /\ Step("loop", "after")
       \/ /\ ~interrupted /\ signal \notin {"QUIT", "HUP"}
          /\ Step("loop", "refresh") \/ (signal # "USR2" /\ Step("loop", "sleep"))
    /\ UNCHANGED <<signal, handling, main, interrupted, listener, config, code, failed, sent, raced>>

RefreshCaches ==
    /\ Step("refresh", "recheck")
    /\ UNCHANGED <<signal, handling, main, interrupted, listener, config, code, failed, sent, raced>>

\* Faulty variant: the signal is cleared after every refresh.
RecheckNot ==
    /\ Step("recheck", "clear")
    /\ UNCHANGED <<signal, handling, main, interrupted, listener, config, code, failed, sent, raced>>

Recheck ==
    /\ IF signal = "USR2" THEN Step("recheck", "clear") ELSE Step("recheck", "sleep")
    /\ UNCHANGED <<signal, handling, main, interrupted, listener, config, code, failed, sent, raced>>

\* Faulty variant: the monitor returns once it has refreshed for a signal.
ClearAndReturn ==
    /\ Step("clear", "done")
    /\ signal' = "0" /\ raced' = FALSE
    /\ UNCHANGED <<handling, main, interrupted, listener, config, code, failed, sent>>

\* The assignment that follows the test, whatever has been stored since.
ClearSignal ==
    /\ Step("clear", "sleep")
    /\ signal' = "0" /\ raced' = FALSE
    /\ UNCHANGED <<handling, main, interrupted, listener, config, code, failed, sent>>

\* sleep() throws when the thread has been interrupted; monitor() ends there.
Sleep ==
    /\ IF interrupted THEN Step("sleep", "done") ELSE Step("sleep", "loop")
    /\ UNCHANGED <<signal, handling, main, interrupted, listener, config, code, failed, sent, raced>>

\* FileDescriptor keeps the number it closed: shutdown() of a closed listener
\* fails, or reaches whatever has the number by then.  That is no listener,
\* since the next one is opened after the join; a database connection that
\* had it would fail its query, which its users are ready for.
After ==
    /\ Step("after", "done")
    /\ listener' = IF signal # "0" /\ listener = "open" THEN "shut" ELSE listener
    /\ UNCHANGED <<signal, handling, main, interrupted, config, code, failed, sent, raced>>

Main ==
    \/ Start \/ Run \/ Interrupt \/ Close \/ Join \/ Check \/ Reload \/ Retry
    \/ AcceptFails /\ listener = "shut"
Monitor == Loop \/ RefreshCaches \/ Recheck \/ ClearSignal \/ Sleep \/ After
Handler == \E h \in handling : Store(h)
Done == main = "exit" /\ UNCHANGED vars

Next ==
    \/ Main \/ AcceptFails \/ Monitor \/ Handler \/ Edit \/ Done
    \/ \E s \in Signal, onMain \in BOOLEAN : Deliver(s, onMain)

Spec == Init /\ [][Next]_vars
\* Threads and handlers go on; accept of a socket that was shut down returns.
FairSpec == Spec /\ WF_vars(Main) /\ WF_vars(Monitor) /\ WF_vars(Handler)

-----------------------------------------------------------------------------
TypeOK ==
    /\ signal \in Signal \cup {"0"} /\ handling \subseteq Signal \X BOOLEAN \X Nat
    /\ main \in MainPc /\ monitor \in MonitorPc
    /\ interrupted \in BOOLEAN /\ listener \in {"closed", "open", "shut"}
    /\ file \in Config /\ running \in Config \cup {None}
    /\ error \in {"none", "duplicate", "config", "listen"}
    /\ failed \in BOOLEAN /\ sent \in Nat /\ raced \in BOOLEAN

(* A recorded signal is not erased: SIGQUIT stays until the daemon stops,  *)
(* SIGHUP until a configuration has been compiled for it, although monitor *)
(* and handlers test and set g_signal without a lock (server.h:203-205,    *)
(* system.cpp:21-26).  Only one thing can cost a recorded signal: two      *)
(* handlers that both found g_signal 0, the second storing its own over it *)
(* or over the USR2 that the monitor is about to clear.                    *)
SignalKept ==
    [][signal' # signal /\ signal \in {"HUP", "QUIT"} =>
          \/ signal = "HUP" /\ main \in {"reload", "retry"} /\ main' = "run"
          \/ raced \/ raced']_vars

(* A server that accepts can be reached and watched over: its listener is  *)
(* open and its monitor runs, or a signal is recorded that will end the    *)
(* accept loop; a signal that the monitor clears takes neither away, also  *)
(* when handlers overlap (server.h:196-218).                               *)
NotDeaf == main = "accept" /\ (listener # "open" \/ monitor = "done") => signal # "0"

\* No thread has tested g_signal and is still to set it.
NobodyWrites == handling = {} /\ monitor # "clear" /\ main \notin {"reload", "retry"}

(* A recorded SIGQUIT ends the daemon, whichever thread the kernel gave it *)
(* to, if nobody who tested g_signal before is still to set it             *)
(* (server.h:196, 217, system.h:147-151).                                  *)
QuitEnds == signal = "QUIT" /\ NobodyWrites ~> main = "exit"

(* A recorded SIGHUP leads to a reload or to the end of the daemon, under  *)
(* the same condition (system.h:152-178).                                  *)
HupServed == signal = "HUP" /\ NobodyWrites ~> main \in {"reload", "exit"}

(* "Got unexepected error" (system.h:144) ends the daemon only if accept   *)
(* failed for a reason of its own, not for a signal that the handler       *)
(* dropped to "let the current signal finish" (system.cpp:22).             *)
DiesOfErrorOnly == main = "exit" /\ code = 0 - 1 /\ running # None => failed

(* "already defined" (databasecreator.h:54) is said only of a name the     *)
(* file defines twice; no file here does.                                  *)
NoFalseDuplicate == error # "duplicate"

\* The inductive invariant: monitor and main agree on who runs, and USR2 is
\* there to be cleared when it is, unless handlers have raced.
SystemInv ==
    /\ TypeOK /\ NotDeaf
    /\ main = "start" => monitor = "none"
    /\ main \in {"run", "check", "reload", "retry"} => monitor \in {"none", "done"}
    /\ main = "run" => listener = "open"
    /\ main \in {"join", "check", "reload", "retry"} => listener = "closed"
    /\ main = "accept" => ~interrupted /\ monitor # "none"
    /\ main = "accept" /\ listener # "open" => monitor = "done"
    /\ monitor \in {"after", "done"} /\ main = "accept" => signal # "0"
    /\ ~raced /\ monitor = "clear" => signal = "USR2"
    /\ ~raced /\ main \in {"reload", "retry"} => signal \in {"HUP", "USR2"}

=============================================================================
