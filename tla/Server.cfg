SPECIFICATION FairSpec
CONSTANTS
    Conn = {c1, c2}
    Fd = {f1, f2}
    None = None
    MaxRequests = 2
    MaxSent = 2
INVARIANTS OwnDescriptor NoStrayDescriptor TrackedExact
PROPERTIES UsesPool TrackedHandlersEnd RunReturns
