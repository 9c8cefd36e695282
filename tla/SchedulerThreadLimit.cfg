SPECIFICATION Spec
CONSTANTS
    Thread = {w1, w2, w3}
    MaxSpare = 1
    MaxWorkers = 2
    MaxTasks = 3
INVARIANT ThreadsBounded
