\* Overlapping polls of one terminal, two sweepers, stops, failures, redelivery.
SPECIFICATION Spec
CONSTANTS
    Devices = {d1}
    Signals = {s1}
    Commands = {}
    Conns = {c1, c2}
    Peers = {p1, p2}
    Standings = {"ACTIVE"}
    Plans = {{s1}}
    Faults = {"TIMEOUT", "ACK_LOST", "EA_STOPS", "POLL_FAILS"}
    NoSignal = NoSignal
    NoConn = NoConn
    MaxBatch = 2
    AttemptCap = 2
    MaxAttempts = 3
    MaxFills = 2
    MaxRows = 1
    MaxEpoch = 1
INVARIANTS
    AckedWasDispatched
    OnlyClaimedInTransit
PROPERTIES
    ImplementsDelivery
