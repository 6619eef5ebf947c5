\* A signal and an emergency stop, restarts of engine and terminal.
SPECIFICATION Spec
CONSTANTS
    Devices = {d1}
    Signals = {s1}
    Commands = {"EMERGENCY_STOP"}
    Conns = {c1}
    Peers = {}
    Standings = {"ACTIVE"}
    Plans = {{s1}}
    Faults = {"EA_STOPS", "ACK_LOST"}
    NoSignal = NoSignal
    NoConn = NoConn
    MaxBatch = 2
    AttemptCap = 1
    MaxAttempts = 1
    MaxFills = 1
    MaxRows = 2
    MaxEpoch = 1
INVARIANTS
    TypeOK
PROPERTIES
    
    HaltLatched
