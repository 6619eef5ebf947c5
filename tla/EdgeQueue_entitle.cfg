\* Two signals and plan and licence changes, one poll at a time.
SPECIFICATION Spec
CONSTANTS
    Devices = {d1}
    Signals = {s1, s2}
    Commands = {}
    Conns = {c1}
    Peers = {}
    Standings = {"ACTIVE", "PENDING", "REVOKED"}
    Plans = {{}, {s1}, {s1, s2}}
    Faults = {"ACK_LOST", "POLL_FAILS"}
    NoSignal = NoSignal
    NoConn = NoConn
    MaxBatch = 1
    AttemptCap = 2
    MaxAttempts = 2
    MaxFills = 1
    MaxRows = 2
    MaxEpoch = 0
INVARIANTS
    BatchEntitled
