\* A command row, which has no TTL, of a terminal that may stop or fall silent
\* and whose acknowledgements may all be lost.
SPECIFICATION FairSpec
CONSTANTS
    Devices = {d1}
    Signals = {}
    Commands = {"KILL_SWITCH"}
    Conns = {c1}
    Peers = {p1}
    Standings = {"ACTIVE"}
    Plans = {{}}
    Faults = {"OFFLINE", "EA_STOPS", "ACK_LOST", "POLL_FAILS"}
    NoSignal = NoSignal
    NoConn = NoConn
    MaxBatch = 1
    AttemptCap = 2
    MaxAttempts = 2
    MaxFills = 1
    MaxRows = 1
    MaxEpoch = 0
PROPERTIES
    
    RowsClose
