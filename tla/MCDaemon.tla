------------------------------ MODULE MCDaemon ------------------------------
(***************************************************************************)
(* The daemon around its server, part by part: its life (System), the      *)
(* configuration it compiles (Configuration), and the servers and thread   *)
(* pools that came before the present one (AcceptPools, EchoServer,        *)
(* PoolCore, Future); and what is proved of its life and of the parts side *)
(* by side.                                                                *)
(***************************************************************************)
EXTENDS System, Slots, Integers, Sequences, TLAPS

-----------------------------------------------------------------------------
(* Proofs about System, for handlers that overlap in any way: signals are  *)
(* kept unless handlers race, and a server that accepts always has its     *)
(* listener and its monitor.                                               *)

(* SystemInv is kept by every step of the main thread.                     *)
LEMMA MainStep ==
    ASSUME SystemInv, Main \/ AcceptFails
    PROVE SystemInv'
<1> USE ConfigAssumption DEF SystemInv, TypeOK, NotDeaf, Signal, MainPc, MonitorPc, Go,
        thread, config
<1>1. CASE Start
  BY <1>1 DEF Start, Compile, CompileThrows, ParseThrows, ParseDone, Exit
<1>2. CASE Run
  BY ZenonT(60), <1>2 DEF Run
<1>3. CASE AcceptFails
  BY <1>3 DEF AcceptFails
<1>4. CASE Interrupt
  BY <1>4 DEF Interrupt
<1>5. CASE Close
  BY <1>5 DEF Close
<1>6. CASE Join
  BY <1>6 DEF Join
<1>7. CASE Check
  BY <1>7 DEF Check, Exit
<1>8. CASE Reload
  BY <1>8 DEF Reload, Compile, CompileThrows, ParseThrows, ParseDone
<1>9. CASE Retry
  <2>1. TypeOK'
    BY Zenon, <1>9 DEF Retry, Exit
  <2> QED BY ZenonT(60), <1>9, <2>1 DEF Retry, Exit
<1> QED BY Zenon, <1>1, <1>2, <1>3, <1>4, <1>5, <1>6, <1>7, <1>8, <1>9 DEF Main

(* SystemInv is kept by every step of the monitor thread.                  *)
LEMMA MonitorStep ==
    ASSUME SystemInv, Monitor
    PROVE SystemInv'
<1> USE DEF SystemInv, TypeOK, NotDeaf, Signal, MainPc, MonitorPc, Step, config
<1>1. CASE Loop
  BY <1>1 DEF Loop
<1>2. CASE RefreshCaches
  BY <1>2 DEF RefreshCaches
<1>3. CASE Recheck
  BY <1>3 DEF Recheck
<1>4. CASE ClearSignal
  <2>1. TypeOK'
    BY Zenon, <1>4 DEF ClearSignal
  <2> HIDE DEF TypeOK, Signal, MainPc, MonitorPc
  <2> QED BY SMTT(60), <1>4, <2>1 DEF ClearSignal
<1>5. CASE Sleep
  BY <1>5 DEF Sleep
<1>6. CASE After
  BY <1>6 DEF After
<1> QED BY Zenon, <1>1, <1>2, <1>3, <1>4, <1>5, <1>6 DEF Monitor

(* SystemInv is kept by the signal handler and by an edit of the file.     *)
LEMMA OutsideStep ==
    ASSUME SystemInv,
           \/ Edit
           \/ Handler
           \/ \E s \in Signal, onMain \in BOOLEAN : Deliver(s, onMain)
    PROVE SystemInv'
<1> USE ConfigAssumption DEF SystemInv, TypeOK, NotDeaf, Signal, MainPc, MonitorPc, thread, config
<1>1. CASE Edit
  BY <1>1 DEF Edit
<1>2. ASSUME NEW s \in Signal, NEW onMain \in BOOLEAN, Deliver(s, onMain)
      PROVE SystemInv'
  BY <1>2 DEF Deliver, Interrupts
<1>3. ASSUME NEW h \in handling, Store(h)
      PROVE SystemInv'
  <2>1. TypeOK'
    BY SMTT(60), <1>3 DEF Store, Interrupts
  <2>2. signal' # "0"
    BY SMTT(60), <1>3 DEF Store
  <2>3. ~raced' => ~raced /\ signal = "0"
    BY Zenon, <1>3 DEF Store
  <2> HIDE DEF TypeOK, Signal, MainPc, MonitorPc
  <2>4. main' = main \/ (main = "accept" /\ main' = "stop")
    BY Zenon, <1>3 DEF Store, Interrupts
  <2>5. UNCHANGED <<monitor, interrupted, listener>>
    BY SMTT(60), <1>3 DEF Store
  <2> QED BY SMTT(60), <2>1, <2>2, <2>3, <2>4, <2>5
<1> QED BY Zenon, <1>1, <1>2, <1>3 DEF Handler

(* The inductive invariant holds of every reachable state of the daemon.   *)
THEOREM SystemInvariant == Spec => []SystemInv
<1>1. Init => SystemInv
  <2> SUFFICES ASSUME Init PROVE SystemInv
    BY Zenon
  <2>1. TypeOK
    BY ZenonT(60) DEF Init, TypeOK, Signal, MainPc, MonitorPc
  <2> QED BY Zenon, <2>1 DEF Init, SystemInv, NotDeaf
<1>2. SystemInv /\ [Next]_vars => SystemInv'
  <2> SUFFICES ASSUME SystemInv, [Next]_vars PROVE SystemInv'
    BY Zenon
  <2>1. CASE UNCHANGED vars
    BY <2>1 DEF vars, thread, config, SystemInv, TypeOK, NotDeaf
  <2>2. CASE Next
    BY Zenon, <2>1, <2>2, MainStep, MonitorStep, OutsideStep DEF Next, Handler, Done
  <2> QED BY Zenon, <2>1, <2>2
<1> QED BY <1>1, <1>2, PTL DEF Spec

(* A server that accepts has its listener open and its monitor running, or *)
(* a recorded signal that will end the accept loop (server.h:196-218).     *)
THEOREM SystemNotDeaf == Spec => []NotDeaf
<1>1. SystemInv => NotDeaf
  BY Zenon DEF SystemInv
<1> QED BY <1>1, SystemInvariant, PTL

(* A recorded SIGQUIT is never erased, a recorded SIGHUP only by a         *)
(* completed compileConfig, unless a handler that found g_signal 0 stored  *)
(* its own signal over that of another (system.cpp:21-26,                  *)
(* server.h:203-205).                                                      *)
THEOREM SystemSignalKept == Spec => SignalKept
<1> DEFINE Kept ==
      signal' # signal /\ signal \in {"HUP", "QUIT"} =>
          \/ signal = "HUP" /\ main \in {"reload", "retry"} /\ main' = "run"
          \/ raced \/ raced'
<1>1. SystemInv /\ [Next]_vars => [Kept]_vars
  <2> SUFFICES ASSUME SystemInv, Next PROVE Kept
    BY Zenon DEF vars
  <2>1. CASE Main \/ AcceptFails
    BY Zenon, <2>1 DEF SystemInv, Main, Start, Run, AcceptFails, Interrupt, Close, Join, Check, Reload,
                Retry, Go
  <2>2. CASE Monitor
    BY Zenon, <2>2 DEF SystemInv, Monitor, Loop, RefreshCaches, Recheck, ClearSignal, Sleep, After, Step
  <2>3. CASE Handler
    BY Zenon, <2>3 DEF SystemInv, Handler, Store
  <2>4. CASE Edit \/ Done \/ \E s \in Signal, onMain \in BOOLEAN : Deliver(s, onMain)
    BY ZenonT(60), <2>4 DEF Edit, Done, vars, Deliver
  <2> QED BY Zenon, <2>1, <2>2, <2>3, <2>4 DEF Next
<1> QED BY <1>1, SystemInvariant, PTL DEF Spec, SignalKept

-----------------------------------------------------------------------------
(* The parts.                                                              *)

CONSTANTS
    Section, Numeral, MaxSections, MaxLoads,                            \* Configuration
    Policies, Worker, MaxTasks, Sizes, MaxResizes, Deaths,              \* PoolCore
    Waiter,                                                             \* Future
    Conn, Fd, PoolSize, MinSize, MaxSize, MaxTicks,                     \* AcceptPools
    Client, Messages, MAXRECV, MAXCONNECTIONS                           \* EchoServer

section(s, b) == [section |-> s, body |-> b]
Sections == {
    section("database", <<<<"name", "d">>, <<"type", "mysql">>>>),
    section("database", <<<<"name", "d">>, <<"spareconnections", "-1">>>>),
    section("datasource", <<<<"name", "s">>, <<"type", "db">>, <<"table", "t">>, <<"database", "d">>>>),
    section("match", <<<<"name", "m">>, <<"type", "exact match">>, <<"datasource", "s">>,
                       <<"lookup", "c">>, <<"match", "sender">>>>),
    section("match", <<<<"name", "m">>, <<"type", "all">>>>),
    section("policy", <<<<"type", "whitelist">>, <<"match", "m">>>>),
    section("policy", <<<<"type", "greylist">>, <<"match", "m">>, <<"datasource", "s">>, <<"timeout", "5">>>>),
    section("policy", <<<<"type", "greylist">>, <<"match", "m">>, <<"datasource", "s">>, <<"weakbytes", "5">>>>),
    section("server", <<<<"port", "1">>, <<"port", "2">>>>),
    section("server", <<<<"port", "3">>, <<"dunno", "ok">>>>),
    section("other", <<>>)}
Numerals == [x \in {"10", "-1", "5", "4"} |->
    CASE x = "10" -> 10 [] x = "-1" -> -1 [] x = "5" -> 5 [] x = "4" -> 4]

Greetings == {<<1>>, <<1, 2, 3>>, <<1, 0, 2>>}

Tasks == INSTANCE PoolCore WITH
    policy <- v1, m_scheduler <- v2, m_worker_count <- v3, m_target_worker_count <- v4,
    m_active_worker_count <- v5, m_terminate_all_workers <- v6, m_terminated_workers <- v7,
    worker <- v8, owner <- v9, next <- v10, done <- v11, resizes <- v12, deaths <- v13
Accepting == INSTANCE AcceptPools WITH
    kind <- v1, pc <- v2, peer <- v3, fdOf <- v4, at <- v5, tqueue <- v6, tasks <- v7,
    sockets <- v8, shut <- v9, todo <- v10, busy <- v11, maxBusy <- v12, last <- v13,
    size <- v14, ticks <- v15, spinning <- v16
\* Of DaemonProofs: its Compiler (Configuration), Result (Future) and Echo
\* (EchoServer).
Parts == INSTANCE DaemonProofs WITH
    phase <- v1, databases <- v2, datasources <- v3, matchers <- v4, newCore <- v5,
    newSettings <- v6, core <- v7, settings <- v8, read <- v9, more <- v10, load <- v11,
    rejected <- v12,
    m_ready <- v1, m_result <- v2, m_is_cancelled <- v3, m_executing <- v4, task <- v5,
    canceller <- v6, waiter <- v7, ran <- v8,
    pc <- v1, m_sock <- v2, open <- v3, backlog <- v4, peer <- v5, buf <- v6, data <- v7,
    cpc <- v8, message <- v9, up <- v10, down <- v11, echoed <- v12, reply <- v13,
    taken <- v14

ASSUME DaemonAssumption ==
    /\ IsFiniteSet(Worker) /\ Sizes \subseteq Int
    /\ Accepting!AcceptConstants /\ Parts!EchoConstants

-----------------------------------------------------------------------------
DaemonInit ==
    /\ Init
    /\ \/ part = "system" /\ Off1
       \/ /\ file = Good
          /\ \/ part = "config" /\ Parts!Compiler!Init /\ Off13
             \/ part = "tasks" /\ Tasks!Init /\ Off14
             \/ part = "result" /\ Parts!Result!Init /\ Off9
             \/ part = "accept" /\ Accepting!Init /\ Off17
             \/ part = "echo" /\ Parts!Echo!Init /\ Off15

DaemonNext ==
    /\ UNCHANGED part
    /\ \/ part = "system" /\ Next /\ Keep1
       \/ /\ UNCHANGED vars
          /\ \/ part = "config" /\ Parts!Compiler!Next /\ Keep13
             \/ part = "tasks" /\ Tasks!Next /\ Keep14
             \/ part = "result" /\ Parts!Result!Next /\ Keep9
             \/ part = "accept" /\ Accepting!Next /\ Keep17
             \/ part = "echo" /\ Parts!Echo!Next /\ Keep15
             \/ part # "system" /\ UNCHANGED slots      \* a bound is reached

\* The fairness of System's FairSpec.
DaemonSpec ==
    /\ DaemonInit /\ [][DaemonNext]_<<vars, allSlots>>
    /\ WF_vars(part = "system" /\ Main)
    /\ WF_vars(part = "system" /\ Monitor)
    /\ WF_vars(part = "system" /\ Handler)

-----------------------------------------------------------------------------
(***************************************************************************)
(* The server never runs with parts of two configurations; a module uses   *)
(* what an earlier file defined only if every file since was rejected; and *)
(* with a [server] section every setting has a value (System::run and      *)
(* compileConfig, Parser::parse).                                          *)
(***************************************************************************)
ConfigurationWhole ==
    part = "config" => /\ Parts!Compiler!OneConfiguration /\ Parts!Compiler!OldOnlyAfterReject
                       /\ Parts!Compiler!SettingsWhole

(***************************************************************************)
(* A connection is handled by one handler at a time and closed once, and   *)
(* the pool stays within its sizes (SingleAcceptThreadPool,                *)
(* PreThreadedServer, BlockingAccept).  A shutdown reaches every handler   *)
(* that is running, except one whose descriptor has the entry of an        *)
(* earlier connection in _sockets (singleacceptthreadpool.h:102, 113).     *)
(* The echo of a message without a zero byte is what the client sent, and  *)
(* no descriptor is left open (Socket, ServerSocket, ClientSocket).        *)
(***************************************************************************)
ConnectionsServed ==
    /\ part = "accept" => Accepting!HandledOnce /\ Accepting!ShutdownReaches /\ Accepting!SizeBounded
    /\ part = "echo" => Parts!Echo!EchoInOrder /\ Parts!Echo!DescriptorsHeld

(***************************************************************************)
(* A pool's counts are what its workers do and no task is executed twice   *)
(* or slept over, also when tasks throw (pool_core, worker_thread).  A     *)
(* future whose task has returned has the value of its function or was     *)
(* cancelled, in whatever order its flags are read; one whose function     *)
(* threw is never ready and executes for ever (future_impl).               *)
(***************************************************************************)
TasksExecuted ==
    /\ part = "tasks" => Tasks!PoolCounts
    /\ part = "result" => Parts!Result!FutureValue

-----------------------------------------------------------------------------
(* The parts side by side.  A part takes its own steps only, so that its   *)
(* inductive invariant is one of DaemonSpec.                               *)

ConnectionsInv ==
    /\ part = "accept" => Accepting!AcceptInv
    /\ part = "echo" => Parts!EchoInv
TasksInv ==
    /\ part = "tasks" => Tasks!PoolInv
    /\ part = "result" => Parts!FutureInv
ConfigurationInv == part = "config" => Parts!CompileInv

(* A behaviour starts as one of its part does.                             *)
LEMMA PartInit ==
    ASSUME DaemonInit
    PROVE  /\ part = "accept" => Accepting!Init
           /\ part = "echo" => Parts!Echo!Init
           /\ part = "tasks" => Tasks!Init
           /\ part = "result" => Parts!Result!Init
           /\ part = "config" => Parts!Compiler!Init
  BY SMTT(60) DEF DaemonInit

(* A step is one of its part, or leaves the variables of the part alone.   *)
LEMMA PartStep ==
    ASSUME [DaemonNext]_<<vars, allSlots>>
    PROVE  /\ part' = part
           /\ part = "accept" => Accepting!Next \/ UNCHANGED slots
           /\ part = "echo" => Parts!Echo!Next \/ UNCHANGED slots
           /\ part = "tasks" => Tasks!Next \/ UNCHANGED slots
           /\ part = "result" => Parts!Result!Next \/ UNCHANGED slots
           /\ part = "config" => Parts!Compiler!Next \/ UNCHANGED slots
  BY SMTT(60) DEF DaemonNext, allSlots

(* The variables of a part are slots.                                      *)
LEMMA PartVariables ==
    ASSUME UNCHANGED slots
    PROVE  /\ UNCHANGED Accepting!vars /\ UNCHANGED Parts!Echo!vars /\ UNCHANGED Tasks!vars
           /\ UNCHANGED Parts!Result!vars /\ UNCHANGED Parts!Compiler!vars
<1>1. UNCHANGED Accepting!vars /\ UNCHANGED Parts!Echo!vars
  BY SMTT(60) DEF slots, Accepting!vars, Accepting!net, Accepting!mon, Parts!Echo!vars
<1>2. UNCHANGED Tasks!vars /\ UNCHANGED Parts!Result!vars
  BY SMTT(60) DEF slots, Tasks!vars, Tasks!counts, Parts!Result!vars
<1>3. UNCHANGED Parts!Compiler!vars
  BY SMTT(60) DEF slots, Parts!Compiler!vars, Parts!Compiler!containers, Parts!Compiler!new,
     Parts!Compiler!running, Parts!Compiler!file
<1> QED
  BY SMTT(60), <1>1, <1>2, <1>3

(* Every connection accepted by the earlier servers is handled by one      *)
(* handler at a time, and told of a shutdown unless an earlier connection  *)
(* has its entry in _sockets; what the echo server sends back is what it   *)
(* received, for messages without a zero byte; for any clients,            *)
(* descriptors, messages and sizes (SingleAcceptThreadPool,                *)
(* PreThreadedServer, BlockingAccept, Socket, ServerSocket).               *)
THEOREM DaemonConnections == DaemonSpec => []ConnectionsServed
<1>1. DaemonInit => ConnectionsInv
  BY SMTT(60), PartInit, DaemonAssumption, Accepting!AcceptInit, Parts!EchoInit DEF ConnectionsInv
<1>2. ConnectionsInv /\ [DaemonNext]_<<vars, allSlots>> => ConnectionsInv'
  <2> SUFFICES ASSUME ConnectionsInv, [DaemonNext]_<<vars, allSlots>>
               PROVE  ConnectionsInv'
    BY ZenonT(60)
  <2>1. ASSUME part = "accept" PROVE Accepting!AcceptInv'
    BY SMTT(60), <2>1, PartStep, PartVariables, DaemonAssumption, Accepting!AcceptStep DEF ConnectionsInv
  <2>2. ASSUME part = "echo" PROVE Parts!EchoInv'
    BY SMTT(60), <2>2, PartStep, PartVariables, DaemonAssumption, Parts!EchoStep DEF ConnectionsInv
  <2> QED
    BY SMTT(60), <2>1, <2>2, PartStep DEF ConnectionsInv
<1>3. ConnectionsInv => ConnectionsServed
  BY SMTT(60), Accepting!AcceptConsequence, Parts!EchoConsequence DEF ConnectionsInv, ConnectionsServed
<1> QED
  BY <1>1, <1>2, <1>3, PTL DEF DaemonSpec

(* The pool's counts are what its workers do, no task is run twice or      *)
(* slept over, and a future whose task returned has its function's value   *)
(* or is cancelled, one whose function threw never a value, for any        *)
(* workers, tasks, sizes and waiting threads (pool_core, future_impl).     *)
THEOREM DaemonTasks == DaemonSpec => []TasksExecuted
<1>0. Tasks!IsFiniteSet(Worker)
  BY SMTT(60), DaemonAssumption DEF IsFiniteSet, Tasks!IsFiniteSet
<1>1. DaemonInit => TasksInv
  BY SMTT(60), <1>0, PartInit, Tasks!PoolInit, Parts!FutureInit DEF TasksInv
<1>2. TasksInv /\ [DaemonNext]_<<vars, allSlots>> => TasksInv'
  <2> SUFFICES ASSUME TasksInv, [DaemonNext]_<<vars, allSlots>>
               PROVE  TasksInv'
    BY Zenon
  <2>1. ASSUME part = "tasks" PROVE Tasks!PoolInv'
    BY SMTT(60), <1>0, <2>1, PartStep, PartVariables, DaemonAssumption, Tasks!PoolStep DEF TasksInv
  <2>2. ASSUME part = "result" PROVE Parts!FutureInv'
    BY SMTT(60), <2>2, PartStep, PartVariables, Parts!FutureStep DEF TasksInv
  <2> QED
    BY SMTT(60), <2>1, <2>2, PartStep DEF TasksInv
<1>3. TasksInv => TasksExecuted
  BY SMTT(60), <1>0, Tasks!PoolConsequence, Parts!FutureConsequence DEF TasksInv, TasksExecuted
<1> QED
  BY <1>1, <1>2, <1>3, PTL DEF DaemonSpec

(* The server runs with one configuration at a time, a module has parts of *)
(* an earlier file only after rejected files, and its settings are whole,  *)
(* for any sections, files and reloads (System::run, compileConfig).       *)
THEOREM DaemonConfiguration == DaemonSpec => []ConfigurationWhole
<1>1. DaemonInit => ConfigurationInv
  BY SMTT(60), PartInit, Parts!CompileInit DEF ConfigurationInv
<1>2. ConfigurationInv /\ [DaemonNext]_<<vars, allSlots>> => ConfigurationInv'
  <2> SUFFICES ASSUME ConfigurationInv, [DaemonNext]_<<vars, allSlots>>, part = "config"
               PROVE  Parts!CompileInv'
    BY SMTT(60), PartStep DEF ConfigurationInv
  <2> QED
    BY SMTT(60), PartStep, PartVariables, Parts!CompileStep DEF ConfigurationInv
<1>3. ConfigurationInv => ConfigurationWhole
  BY SMTT(60), Parts!CompileConsequence DEF ConfigurationInv, ConfigurationWhole
<1> QED
  BY <1>1, <1>2, <1>3, PTL DEF DaemonSpec
=============================================================================
