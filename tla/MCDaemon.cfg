SPECIFICATION DaemonSpec
CONSTANTS
    Config <- Files
    None = None
    MaxSignals = 3
    Policies = {"fifo", "lifo", "prio"}
    Worker = {"w1", "w2", "w3"}
    MaxTasks = 2
    Sizes = {0, 1, 2}
    MaxResizes = 2
    Deaths = 1
    MaxSections = 5
    MaxLoads = 3
    Waiter = {"w1", "w2"}
    Conn = {"c1", "c2", "c3"}
    Fd = {1, 2, 3}
    PoolSize = 3
    MinSize = 1
    MaxSize = 4
    MaxTicks = 2
    Client = {"c1", "c2"}
    MAXRECV = 2
    MAXCONNECTIONS = 1
    Section <- Sections
    Numeral <- Numerals
    Messages <- Greetings
INVARIANTS NotDeaf ConfigurationWhole ConnectionsServed TasksExecuted
PROPERTIES SignalKept QuitEnds HupServed
