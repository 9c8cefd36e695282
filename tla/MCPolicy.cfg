SPECIFICATION PolicySpec
CONSTANTS
    Worker = {w1, w2}
    Triplet <- Clients
    Timeout = 1
    Setup <- Setups
    MaxTime = 3
    MaxDecisions = 4
    Key = {"client_address", "sender", "recipient", "client_name", "other"}
    Value = {"x", "y"}
    Chain <- Chains
    Setting <- Settings
    maxRequests = 2
    MaxLines = 5
    MaxHandled = 2
INVARIANTS RequestDecided TripletMatched QueryReads FilesComplete
PROPERTIES RequestAnswered
