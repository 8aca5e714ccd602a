SPECIFICATION Spec
CONSTANTS
    Txs <- MCTxs
    MaxSent = 2
    MaxFaults = 2
INVARIANTS FramesApart ReceivedWasSent CanonicalFrames
PROPERTY QueueSpec
CHECK_DEADLOCK FALSE
