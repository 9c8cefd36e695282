SPECIFICATION Spec
CONSTANTS
    Config <- TwoFiles
    None = None
    MaxSignals = 3
INVARIANTS DiesOfErrorOnly
