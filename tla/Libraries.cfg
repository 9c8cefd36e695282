SPECIFICATION LibSpec
CONSTANTS
    Con = {c1, c2, c3, c4, c5}
    Query = {q1, q2, q3}
    Source = {s1, s2}
    NoCon = NoCon
    None = None
    Spare = 1
CONSTRAINT NotReused
INVARIANTS Exclusive PoolDrained
INVARIANTS SocketsKept BytesInOrder
INVARIANTS RoundTrips  
CHECK_DEADLOCK FALSE
