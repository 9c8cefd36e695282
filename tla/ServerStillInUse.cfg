SPECIFICATION Spec
CONSTANTS
    Conn = {c1, c2}
    Fd = {f1}
    None = None
    MaxRequests = 1
    MaxSent = 1
PROPERTIES StillInUse
