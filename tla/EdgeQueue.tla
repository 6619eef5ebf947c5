----------------------------- MODULE EdgeQueue -----------------------------
(***************************************************************************)
(* EA-direct signal delivery: the realtime engine inserts executable       *)
(* signals and emergency commands into licensing.edge_signal_queue, the    *)
(* control plane hands them to polling terminals and takes their           *)
(* acknowledgements, a sweeper expires abandoned rows, and the terminal's  *)
(* Expert Advisor (EA) executes or rejects each item.                      *)
(*                                                                         *)
(* Every SQL statement is one atomic step; the poll handler is the         *)
(* sequence of its statements, so that handlers, sweeps, acknowledgements, *)
(* plan changes and the passage of time interleave between them.  Time is  *)
(* abstracted to the three predicates the statements test: a signal is     *)
(* past ExpiresAt, a row has been IN_FLIGHT for over 30 seconds, a device  *)
(* has not been seen for an hour.                                          *)
(***************************************************************************)
EXTENDS Naturals, Sequences, FiniteSets

CONSTANTS
    Devices,      \* execution terminals (licensing.devices, role exec)
    Signals,      \* EXECUTABLE signals, each with its own StrategyID
    Commands,     \* the halting commands in use
    Conns,        \* concurrent poll requests a device may have at the server
    Peers,        \* control-plane processes, each with its sweep timer
    Standings,    \* licence and device standings that arise
    Plans,        \* sets of signals that licence and plan may allow
    Faults,       \* the failures a run lets happen
    NoSignal,     \* g_lastExecutedSignalID = ""
    NoConn,       \* the EA waits for no response
    MaxBatch,     \* LIMIT of the claim (max_signals)
    AttemptCap,   \* the dead-letter cap (50 in the code)
    MaxAttempts,  \* model bound on the attempts of a row
    MaxFills,     \* model bound on the executions of one signal on one device
    MaxRows,      \* model bound on the rows of a device a command may extend
    MaxEpoch      \* model bound on engine restarts

ASSUME ConstantsAssumption ==
    /\ Signals \cap Commands = {}
    /\ Commands \subseteq {"EMERGENCY_STOP", "KILL_SWITCH"}
    /\ Standings \subseteq {"ACTIVE", "PENDING", "INACTIVE", "REVOKED"}
    /\ Plans \subseteq SUBSET Signals
    /\ Faults \subseteq {"EA_STOPS", "OFFLINE", "POLL_FAILS", "TIMEOUT", "ACK_LOST"}
    /\ NoSignal \notin Signals
    /\ NoConn \notin Conns
    /\ MaxBatch \in Nat \ {0}
    /\ AttemptCap \in Nat \ {0}
    /\ MaxAttempts \in Nat /\ AttemptCap <= MaxAttempts
    /\ MaxFills \in Nat
    /\ MaxRows \in Nat
    /\ MaxEpoch \in Nat

VARIABLES
    halt,       \* EmergencyHalt.active, engine memory
    epoch,      \* incarnation of the engine process
    bcast,      \* progress of broadcastSignalToAll for each signal
    cmds,       \* commands whose halt is active and whose insert is pending
    expired,    \* signals whose ExpiresAt has passed
    standing,   \* standing[d]: the device's licence status, or REVOKED
    plan,       \* plan[d]: signals whose strategy licence and plan both allow
    offline,    \* devices with last_seen_at older than one hour
    queue,      \* queue[d]: rows of edge_signal_queue in created_at order
    handler,    \* handler[d][c]: a running poll request
    sweeper,    \* sweeper[p]: next statement of sweepStale
    ea,         \* ea[d]: memory of the Expert Advisor
    acks,       \* acks[d]: edge-ack requests in transit
    seen,       \* seen[d]: rows the EA of d has dispatched (history)
    fills       \* fills[d][s]: orders the EA of d has placed for s

vars == <<halt, epoch, bcast, cmds, expired, standing, plan, offline, queue,
          handler, sweeper, ea, acks, seen, fills>>

engineVars == <<halt, epoch, bcast, cmds>>
accountVars == <<standing, plan>>
terminalVars == <<ea, seen, fills>>

-----------------------------------------------------------------------------
Items == Signals \cup Commands

Statuses == {"PENDING", "IN_FLIGHT", "ACKED", "EXPIRED"}

\* A row of the queue: what it carries, its status, how often it was claimed,
\* and whether in_flight_at is more than 30 seconds ago.
Row == [item : Items, st : Statuses, att : Nat, stale : BOOLEAN]

NewRow(m) == [item |-> m, st |-> "PENDING", att |-> 0, stale |-> FALSE]

Steps == {"idle", "deadletter", "reclaim", "expire", "entitle", "claim", "respond"}

HandlerState == [pc : Steps, batch : SUBSET Nat, denied : SUBSET Signals]

EAState == [up : BOOLEAN, inbox : SUBSET Nat, wait : Conns \cup {NoConn},
            last : Signals \cup {NoSignal}, halted : BOOLEAN, reenable : BOOLEAN]

IdleHandler == [pc |-> "idle", batch |-> {}, denied |-> {}]

FreshEA == [up |-> TRUE, inbox |-> {}, wait |-> NoConn, last |-> NoSignal,
            halted |-> FALSE, reenable |-> FALSE]

EngineTypeOK ==
    /\ halt \in BOOLEAN
    /\ epoch \in 0..MaxEpoch
    /\ bcast \in [Signals -> {"new", "cleared", "done"}]
    /\ cmds \in SUBSET Commands

WorldTypeOK ==
    /\ expired \in SUBSET Signals
    /\ standing \in [Devices -> Standings]
    /\ plan \in [Devices -> Plans]
    /\ offline \in SUBSET Devices

ServerTypeOK ==
    /\ queue \in [Devices -> Seq(Row)]
    /\ handler \in [Devices -> [Conns -> HandlerState]]
    /\ sweeper \in [Peers -> {"ttl", "offline"}]

TerminalTypeOK ==
    /\ ea \in [Devices -> EAState]
    /\ acks \in [Devices -> SUBSET Nat]
    /\ seen \in [Devices -> SUBSET Nat]
    /\ fills \in [Devices -> [Signals -> Nat]]

TypeOK == EngineTypeOK /\ WorldTypeOK /\ ServerTypeOK /\ TerminalTypeOK

Init ==
    /\ halt = FALSE
    /\ epoch = 0
    /\ bcast = [s \in Signals |-> "new"]
    /\ cmds = {}
    /\ expired = {}
    /\ standing \in [Devices -> Standings]
    /\ plan \in [Devices -> Plans]
    /\ offline = {}
    /\ queue = [d \in Devices |-> <<>>]
    /\ handler = [d \in Devices |-> [c \in Conns |-> IdleHandler]]
    /\ sweeper = [p \in Peers |-> "ttl"]
    /\ ea = [d \in Devices |-> FreshEA]
    /\ acks = [d \in Devices |-> {}]
    /\ seen = [d \in Devices |-> {}]
    /\ fills = [d \in Devices |-> [s \in Signals |-> 0]]

-----------------------------------------------------------------------------
(* Queue statements: the rows their WHERE clauses select, what they SET.   *)

RowsOf(q, st) == {i \in DOMAIN q : q[i].st = st}

\* UPDATE ... SET status = st for the rows I.
SetStatus(q, I, st) ==
    [i \in DOMAIN q |-> IF i \in I THEN [q[i] EXCEPT !.st = st] ELSE q[i]]

\* The licence and plan whitelists let device d receive signal s.
Entitled(d, s) == standing[d] \in {"ACTIVE", "PENDING"} /\ s \in plan[d]

PastTtl(q) ==
    {i \in RowsOf(q, "PENDING") : q[i].item \in expired}

\* Mutant: reclaim forgets AND status = 'IN_FLIGHT'.
LongInFlightAnyStatus(q) == {i \in DOMAIN q : q[i].stale}

\* Mutant: rows at the attempt cap are left alone rather than closed.
LongInFlightBelowCap(q) ==
    {i \in RowsOf(q, "IN_FLIGHT") : q[i].stale /\ q[i].att < AttemptCap}

LongInFlight(q) == {i \in RowsOf(q, "IN_FLIGHT") : q[i].stale}

DeadLetters(q) == {i \in LongInFlight(q) : q[i].att >= AttemptCap}

\* Mutant: the re-check looks at the licence only, not at the plan.
UnentitledByLicence(d) ==
    {i \in RowsOf(queue[d], "PENDING") :
        queue[d][i].item \in Signals /\ standing[d] \notin {"ACTIVE", "PENDING"}}

Unentitled(d) ==
    {i \in RowsOf(queue[d], "PENDING") :
        queue[d][i].item \in Signals /\ ~Entitled(d, queue[d][i].item)}

\* ORDER BY created_at ASC LIMIT MaxBatch over the PENDING rows.
NextBatch(q) ==
    {i \in RowsOf(q, "PENDING") :
        Cardinality({j \in RowsOf(q, "PENDING") : j < i}) < MaxBatch}

\* Mutant: the claim closes the rows it returns.
ClaimRowsForgets(q, I) ==
    [i \in DOMAIN q |-> IF i \in I
                        THEN [q[i] EXCEPT !.st = "ACKED", !.att = @ + 1]
                        ELSE q[i]]

\* Mutant: the claim does not count the attempt.
ClaimRowsUncounted(q, I) ==
    [i \in DOMAIN q |-> IF i \in I
                        THEN [q[i] EXCEPT !.st = "IN_FLIGHT", !.stale = FALSE]
                        ELSE q[i]]

\* SET status = 'IN_FLIGHT', in_flight_at = now(), attempts = attempts + 1.
ClaimRows(q, I) ==
    [i \in DOMAIN q |-> IF i \in I
                        THEN [q[i] EXCEPT !.st = "IN_FLIGHT", !.att = @ + 1,
                                          !.stale = FALSE]
                        ELSE q[i]]

-----------------------------------------------------------------------------
(* The engine.                                                             *)

\* broadcastSignalToAll: the halt is tested once, then the insert is left to
\* a goroutine; a suppressed signal is dropped.
Broadcast(s) ==
    /\ bcast[s] = "new"
    /\ bcast' = [bcast EXCEPT ![s] = IF halt THEN "done" ELSE "cleared"]
    /\ UNCHANGED <<halt, epoch, cmds, expired, accountVars, offline, queue,
                   handler, sweeper, terminalVars, acks>>

\* enqueueSignalForDevices: one row per entitled device that has none for
\* this signal, among the devices T whose capital tier suits it.
Enqueue(s) ==
    /\ bcast[s] = "cleared"
    /\ bcast' = [bcast EXCEPT ![s] = "done"]
    /\ \E T \in SUBSET Devices :
          queue' = [d \in Devices |->
                      IF /\ d \in T
                         /\ Entitled(d, s)
                         /\ \A i \in DOMAIN queue[d] : queue[d][i].item # s
                      THEN Append(queue[d], NewRow(s))
                      ELSE queue[d]]
    /\ UNCHANGED <<halt, epoch, cmds, expired, accountVars, offline, handler,
                   sweeper, terminalVars, acks>>

\* The insert fails or exceeds its five seconds: logged, never retried.
EnqueueFails(s) ==
    /\ bcast[s] = "cleared"
    /\ bcast' = [bcast EXCEPT ![s] = "done"]
    /\ UNCHANGED <<halt, epoch, cmds, expired, accountVars, offline, queue,
                   handler, sweeper, terminalVars, acks>>

\* handleEmergencyStop and handleKillSwitch activate the halt first ...
ActivateHalt(m) ==
    /\ m \notin cmds
    /\ halt' = TRUE
    /\ cmds' = cmds \cup {m}
    /\ UNCHANGED <<epoch, bcast, expired, accountVars, offline, queue,
                   handler, sweeper, terminalVars, acks>>

\* ... and then insert the command for the ONLINE, unrevoked devices that
\* have no open copy of it.  The insert may fail for all of them (D = {}).
QueueCommand(m) ==
    /\ m \in cmds
    /\ cmds' = cmds \ {m}
    /\ \E D \in SUBSET {d \in Devices : Len(queue[d]) < MaxRows} :
          queue' = [d \in Devices |->
                      IF /\ d \in D
                         /\ standing[d] # "REVOKED"
                         /\ \A i \in DOMAIN queue[d] :
                               queue[d][i].item = m =>
                                  queue[d][i].st \notin {"PENDING", "IN_FLIGHT"}
                      THEN Append(queue[d], NewRow(m))
                      ELSE queue[d]]
    /\ UNCHANGED <<halt, epoch, bcast, expired, accountVars, offline,
                   handler, sweeper, terminalVars, acks>>

\* handleEmergencyResume.
Resume ==
    /\ halt
    /\ halt' = FALSE
    /\ UNCHANGED <<epoch, bcast, cmds, expired, accountVars, offline, queue,
                   handler, sweeper, terminalVars, acks>>

\* A new engine process: halt flag, pending inserts and goroutines are lost.
EngineRestart ==
    /\ epoch < MaxEpoch
    /\ epoch' = epoch + 1
    /\ halt' = FALSE
    /\ cmds' = {}
    /\ bcast' = [s \in Signals |-> IF bcast[s] = "cleared" THEN "done" ELSE bcast[s]]
    /\ UNCHANGED <<expired, accountVars, offline, queue, handler, sweeper,
                   terminalVars, acks>>

-----------------------------------------------------------------------------
(* Accounts and time.                                                      *)

\* Licence activation, expiry, revocation, or revocation of the device.
SetStanding(d) ==
    /\ \E x \in Standings \ {standing[d]} : standing' = [standing EXCEPT ![d] = x]
    /\ UNCHANGED <<engineVars, expired, plan, offline, queue, handler,
                   sweeper, terminalVars, acks>>

\* Upgrade or downgrade.  A running handler's "denied" keeps the signals that
\* have been excluded ever since its request was verified (history).
SetPlan(d) ==
    /\ \E P \in Plans :
          /\ plan[d] # P
          /\ plan' = [plan EXCEPT ![d] = P]
          /\ handler' = [handler EXCEPT ![d] =
                           [c \in Conns |-> [handler[d][c] EXCEPT !.denied = @ \ P]]]
    /\ UNCHANGED <<engineVars, expired, standing, offline, queue, sweeper,
                   terminalVars, acks>>

\* ExpiresAt of s passes.
TtlPasses(s) ==
    /\ s \notin expired
    /\ expired' = expired \cup {s}
    /\ UNCHANGED <<engineVars, accountVars, offline, queue, handler, sweeper,
                   terminalVars, acks>>

\* Row i of d has now been in flight for over 30 seconds.  The bound: a row
\* at MaxAttempts does not do so between dead-letter and reclaim of a poll.
FlightStale(d, i) ==
    /\ i \in RowsOf(queue[d], "IN_FLIGHT")
    /\ ~queue[d][i].stale
    /\ queue[d][i].att = MaxAttempts => \A c \in Conns : handler[d][c].pc # "reclaim"
    /\ queue' = [queue EXCEPT ![d] =
                   [j \in DOMAIN @ |-> IF j = i THEN [@[j] EXCEPT !.stale = TRUE]
                                       ELSE @[j]]]
    /\ UNCHANGED <<engineVars, expired, accountVars, offline, handler,
                   sweeper, terminalVars, acks>>

\* An hour without a heartbeat.
GoOffline(d) ==
    /\ "OFFLINE" \in Faults
    /\ d \notin offline
    /\ offline' = offline \cup {d}
    /\ UNCHANGED <<engineVars, expired, accountVars, queue, handler, sweeper,
                   terminalVars, acks>>

-----------------------------------------------------------------------------
(* The poll handler, EdgePollController.pollSignals and EdgePollService.   *)

\* verifyRequestSignature rejects a revoked device or an inactive licence.
Verified(d) == standing[d] = "ACTIVE"

\* The EA sends a poll and its request is verified.
StartPoll(d, c) ==
    /\ ea[d].up
    /\ ea[d].inbox = {}
    /\ ea[d].wait = NoConn
    /\ Verified(d)
    /\ handler[d][c].pc = "idle"
    /\ ea' = [ea EXCEPT ![d].wait = c]
    /\ handler' = [handler EXCEPT ![d][c] =
                     [pc |-> "deadletter", batch |-> {}, denied |-> Signals \ plan[d]]]
    /\ UNCHANGED <<engineVars, expired, accountVars, offline, queue, sweeper,
                   seen, fills, acks>>

\* One statement of poll: the rows I of d get status st.
Statement(d, c, from, to, I, st) ==
    /\ handler[d][c].pc = from
    /\ queue' = [queue EXCEPT ![d] = SetStatus(@, I, st)]
    /\ handler' = [handler EXCEPT ![d][c].pc = to]
    /\ UNCHANGED <<engineVars, expired, accountVars, offline, sweeper,
                   terminalVars, acks>>

\* Mutant: dead letters get the schema's unused status FAILED.
DeadLetterAsFailed(d, c) ==
    Statement(d, c, "deadletter", "reclaim", DeadLetters(queue[d]), "FAILED")

DeadLetter(d, c) ==
    Statement(d, c, "deadletter", "reclaim", DeadLetters(queue[d]), "EXPIRED")

Reclaim(d, c) ==
    Statement(d, c, "reclaim", "expire", LongInFlight(queue[d]), "PENDING")

ExpireTtl(d, c) ==
    Statement(d, c, "expire", "entitle", PastTtl(queue[d]), "EXPIRED")

Entitle(d, c) ==
    Statement(d, c, "entitle", "claim", Unentitled(d), "EXPIRED")

Claim(d, c) ==
    /\ handler[d][c].pc = "claim"
    /\ queue' = [queue EXCEPT ![d] = ClaimRows(@, NextBatch(@))]
    /\ handler' = [handler EXCEPT ![d][c] =
                     [@ EXCEPT !.pc = "respond", !.batch = NextBatch(queue[d])]]
    /\ UNCHANGED <<engineVars, expired, accountVars, offline, sweeper,
                   terminalVars, acks>>

\* The response reaches the EA if it still waits for this request.
Respond(d, c) ==
    /\ handler[d][c].pc = "respond"
    /\ ea' = IF ea[d].wait = c
             THEN [ea EXCEPT ![d].wait = NoConn, ![d].inbox = handler[d][c].batch]
             ELSE ea
    /\ handler' = [handler EXCEPT ![d][c] = IdleHandler]
    /\ UNCHANGED <<engineVars, expired, accountVars, offline, queue, sweeper,
                   seen, fills, acks>>

\* A statement fails or the process dies: the request ends without a batch.
PollFails(d, c) ==
    /\ "POLL_FAILS" \in Faults
    /\ handler[d][c].pc # "idle"
    /\ handler' = [handler EXCEPT ![d][c] = IdleHandler]
    /\ ea' = IF ea[d].wait = c THEN [ea EXCEPT ![d].wait = NoConn] ELSE ea
    /\ UNCHANGED <<engineVars, expired, accountVars, offline, queue, sweeper,
                   seen, fills, acks>>

\* EdgePollService.ack: any status becomes ACKED.
Ack(d, i) ==
    /\ i \in acks[d]
    /\ Verified(d)
    /\ queue' = [queue EXCEPT ![d] = SetStatus(@, {i}, "ACKED")]
    /\ acks' = [acks EXCEPT ![d] = @ \ {i}]
    /\ UNCHANGED <<engineVars, expired, accountVars, offline, handler,
                   sweeper, terminalVars>>

\* The request is lost or rejected; PAT_EdgeAck gives up on it.
AckLost(d, i) ==
    /\ "ACK_LOST" \in Faults
    /\ i \in acks[d]
    /\ acks' = [acks EXCEPT ![d] = @ \ {i}]
    /\ UNCHANGED <<engineVars, expired, accountVars, offline, queue, handler,
                   sweeper, terminalVars>>

\* EdgePollService.heartbeat refreshes last_seen_at.
Heartbeat(d) ==
    /\ d \in offline
    /\ ea[d].up
    /\ Verified(d)
    /\ offline' = offline \ {d}
    /\ UNCHANGED <<engineVars, expired, accountVars, queue, handler, sweeper,
                   terminalVars, acks>>

-----------------------------------------------------------------------------
(* sweepStale, on every control-plane process.                             *)

SweepTtl(p) ==
    /\ sweeper[p] = "ttl"
    /\ queue' = [d \in Devices |-> SetStatus(queue[d], PastTtl(queue[d]), "EXPIRED")]
    /\ sweeper' = [sweeper EXCEPT ![p] = "offline"]
    /\ UNCHANGED <<engineVars, expired, accountVars, offline, handler,
                   terminalVars, acks>>

\* Mutant: the offline sweep covers signal rows only.
SweepOfflineSignals(p) ==
    /\ sweeper[p] = "offline"
    /\ queue' = [d \in Devices |->
                   IF d \in offline
                   THEN SetStatus(queue[d], {i \in RowsOf(queue[d], "PENDING") :
                                               queue[d][i].item \in Signals}, "EXPIRED")
                   ELSE queue[d]]
    /\ sweeper' = [sweeper EXCEPT ![p] = "ttl"]
    /\ UNCHANGED <<engineVars, expired, accountVars, offline, handler,
                   terminalVars, acks>>

SweepOffline(p) ==
    /\ sweeper[p] = "offline"
    /\ queue' = [d \in Devices |->
                   IF d \in offline
                   THEN SetStatus(queue[d], RowsOf(queue[d], "PENDING"), "EXPIRED")
                   ELSE queue[d]]
    /\ sweeper' = [sweeper EXCEPT ![p] = "ttl"]
    /\ UNCHANGED <<engineVars, expired, accountVars, offline, handler,
                   terminalVars, acks>>

\* The second statement fails or the process restarts between the two.
SweepFails(p) ==
    /\ "POLL_FAILS" \in Faults
    /\ sweeper[p] = "offline"
    /\ sweeper' = [sweeper EXCEPT ![p] = "ttl"]
    /\ UNCHANGED <<engineVars, expired, accountVars, offline, queue, handler,
                   terminalVars, acks>>

-----------------------------------------------------------------------------
(* The Expert Advisor.                                                     *)

\* WebRequest gives up after eight seconds.
PollTimeout(d) ==
    /\ "TIMEOUT" \in Faults
    /\ ea[d].wait # NoConn
    /\ ea' = [ea EXCEPT ![d].wait = NoConn]
    /\ UNCHANGED <<engineVars, expired, accountVars, offline, queue, handler,
                   sweeper, seen, fills, acks>>

\* PollFromCloud takes item i of the response: whatever the handler did with
\* it, it is acknowledged.
Dispatch(d, i) ==
    /\ i \in ea[d].inbox
    /\ acks' = [acks EXCEPT ![d] = @ \cup {i}]
    /\ seen' = [seen EXCEPT ![d] = @ \cup {i}]
    /\ UNCHANGED <<engineVars, expired, accountVars, offline, queue, handler,
                   sweeper>>

\* Mutant: no PAT_SignalFresh.
MayExecuteAnyAge(d, s) == s # ea[d].last /\ ~ea[d].halted

\* The gates of HandleSignal and PAT_PreTradeGate that depend on this state.
MayExecute(d, s) ==
    /\ s # ea[d].last
    /\ s \notin expired
    /\ ~ea[d].halted

\* HandleSignal opens a position.
ExecuteSignal(d, i) ==
    LET s == queue[d][i].item IN
    /\ Dispatch(d, i)
    /\ s \in Signals
    /\ MayExecute(d, s)
    /\ fills[d][s] < MaxFills
    /\ fills' = [fills EXCEPT ![d][s] = @ + 1]
    /\ ea' = [ea EXCEPT ![d].inbox = @ \ {i}, ![d].last = s]

\* A gate, a local filter or the broker rejects the signal.
SkipSignal(d, i) ==
    /\ Dispatch(d, i)
    /\ queue[d][i].item \in Signals
    /\ ea' = [ea EXCEPT ![d].inbox = @ \ {i}]
    /\ UNCHANGED fills

\* HandleEmergencyStop and HandleKillSwitch latch the halt; the latter also
\* removes the EA from the chart once the batch is done.
HandleCommand(d, i) ==
    /\ Dispatch(d, i)
    /\ queue[d][i].item \in Commands
    /\ ea' = [ea EXCEPT ![d].inbox = @ \ {i}, ![d].halted = TRUE,
                        ![d].up = @ /\ queue[d][i].item # "KILL_SWITCH"]
    /\ UNCHANGED fills

\* The terminal closes or crashes: everything but the halt latch is lost.
EADeinit(d) ==
    /\ "EA_STOPS" \in Faults
    /\ ea[d].up
    /\ ea' = [ea EXCEPT ![d].up = FALSE, ![d].inbox = {}, ![d].wait = NoConn,
                        ![d].last = NoSignal]
    /\ UNCHANGED <<engineVars, expired, accountVars, offline, queue, handler,
                   sweeper, seen, fills, acks>>

\* Mutant: OnInit does not read PAT_EQUITY_HALT.
EAInitForgetsLatch(d) ==
    /\ ~ea[d].up
    /\ \E r \in BOOLEAN : ea' = [ea EXCEPT ![d] = [FreshEA EXCEPT !.reenable = r]]
    /\ UNCHANGED <<engineVars, expired, accountVars, offline, queue, handler,
                   sweeper, seen, fills, acks>>

\* OnInit: the latch is restored unless the user set ReEnableAfterHalt.
EAInit(d) ==
    /\ ~ea[d].up
    /\ \E r \in BOOLEAN :
          ea' = [ea EXCEPT ![d] = [FreshEA EXCEPT !.halted = ea[d].halted /\ ~r,
                                                  !.reenable = r]]
    /\ UNCHANGED <<engineVars, expired, accountVars, offline, queue, handler,
                   sweeper, seen, fills, acks>>

-----------------------------------------------------------------------------
EngineNext ==
    \/ \E s \in Signals : Broadcast(s) \/ Enqueue(s) \/ EnqueueFails(s)
    \/ \E m \in Commands : ActivateHalt(m) \/ QueueCommand(m)
    \/ Resume
    \/ EngineRestart

WorldNext ==
    \/ \E d \in Devices : SetStanding(d) \/ SetPlan(d) \/ GoOffline(d)
    \/ \E s \in Signals : TtlPasses(s)
    \/ \E d \in Devices : \E i \in DOMAIN queue[d] : FlightStale(d, i)

ServerNext ==
    \/ \E d \in Devices, c \in Conns :
          \/ StartPoll(d, c)
          \/ DeadLetter(d, c)
          \/ Reclaim(d, c)
          \/ ExpireTtl(d, c)
          \/ Entitle(d, c)
          \/ Claim(d, c)
          \/ Respond(d, c)
          \/ PollFails(d, c)
    \/ \E d \in Devices : Heartbeat(d) \/ \E i \in acks[d] : Ack(d, i) \/ AckLost(d, i)
    \/ \E p \in Peers : SweepTtl(p) \/ SweepOffline(p) \/ SweepFails(p)

TerminalNext ==
    \E d \in Devices :
       \/ PollTimeout(d)
       \/ \E i \in ea[d].inbox :
             ExecuteSignal(d, i) \/ SkipSignal(d, i) \/ HandleCommand(d, i)
       \/ EADeinit(d)
       \/ EAInit(d)

Next == EngineNext \/ WorldNext \/ ServerNext \/ TerminalNext

Spec == Init /\ [][Next]_vars

\* Rows a device may come to have.
RowIds == 1..(MaxRows + Cardinality(Signals))

\* What the scheduling of the code guarantees: an attached EA keeps polling
\* and works through its batch; a statement that is tried again and again
\* does not fail every time; the sweep timers keep firing; time passes.
\* (Strong fairness of FlightStale only undoes its bound.)
Fairness ==
    /\ \A d \in Devices :
          /\ WF_vars(\E c \in Conns : StartPoll(d, c))
          /\ WF_vars(\E i \in ea[d].inbox :
                        ExecuteSignal(d, i) \/ SkipSignal(d, i) \/ HandleCommand(d, i))
          /\ \A c \in Conns :
                /\ SF_vars(DeadLetter(d, c))
                /\ SF_vars(Reclaim(d, c))
                /\ SF_vars(ExpireTtl(d, c))
                /\ SF_vars(Entitle(d, c))
                /\ SF_vars(Claim(d, c))
                /\ WF_vars(Respond(d, c))
          /\ \A i \in RowIds : SF_vars(FlightStale(d, i))
    /\ \A s \in Signals : WF_vars(TtlPasses(s))
    /\ \A p \in Peers : SF_vars(SweepTtl(p)) /\ SF_vars(SweepOffline(p))

FairSpec == Spec /\ Fairness

-----------------------------------------------------------------------------
(* Safety.                                                                 *)

\* Rows of d that some poll has claimed.
Claimed(d) == {i \in DOMAIN queue[d] : queue[d][i].att > 0}

\* Everything a terminal holds, is being sent, has dispatched or is
\* acknowledging was claimed for it by a poll: no timeout, crash or late
\* response makes the EA act on a row the queue does not count as delivered
\* (poll counts the attempt in the statement that returns the row).
OnlyClaimedInTransit ==
    \A d \in Devices :
       /\ ea[d].inbox \subseteq Claimed(d)
       /\ acks[d] \subseteq seen[d]
       /\ seen[d] \subseteq Claimed(d)
       /\ \A c \in Conns : handler[d][c].batch \subseteq Claimed(d)

\* At-least-once delivery: a row is closed as ACKED only after the EA has
\* dispatched it (PollFromCloud acknowledges after the handler returns), so a
\* lost response never loses the item; and every position the EA opened
\* answers a signal it was handed.
AckedWasDispatched ==
    \A d \in Devices :
       /\ RowsOf(queue[d], "ACKED") \subseteq seen[d]
       /\ \A s \in Signals :
             fills[d][s] > 0 => \E i \in seen[d] : queue[d][i].item = s

\* "A license revoked or plan downgraded BETWEEN enqueue and poll must not
\* receive the signal": a poll never hands out a signal that the plan has
\* excluded ever since the request was verified.
BatchEntitled ==
    \A d \in Devices, c \in Conns :
       \A i \in handler[d][c].batch : queue[d][i].item \notin handler[d][c].denied

\* No order is placed for a signal whose ExpiresAt has passed, although the
\* server's TTL statement runs well before the EA acts on the response.
NoStaleExecution ==
    [][\A d \in Devices, s \in Signals :
          fills'[d][s] # fills[d][s] => s \notin expired]_vars

\* Once a terminal has handled EMERGENCY_STOP or KILL_SWITCH it places no
\* order, across restarts of the EA, until its user starts it with
\* ReEnableAfterHalt.
HaltLatched ==
    [][\A d \in Devices : ea[d].halted =>
          /\ fills'[d] = fills[d]
          /\ ea'[d].halted \/ (~ea[d].up /\ ea'[d].reenable)]_vars

-----------------------------------------------------------------------------
(* Refinement: the queue implements the delivery contract.                 *)

ItemState(st) ==
    IF st = "ACKED" THEN "acked" ELSE IF st = "EXPIRED" THEN "expired" ELSE "open"

ItemsOf(q) == [i \in DOMAIN q |-> ItemState(q[i].st)]

Delivery == INSTANCE EdgeDelivery WITH
    item <- [d \in Devices |-> ItemsOf(queue[d])],
    handed <- [d \in Devices |-> Claimed(d)]

\* Polls, reclaims, dead letters, sweeps and late acknowledgements never
\* reopen a closed row, hand out a closed row, or acknowledge a row the
\* device was not given.
ImplementsDelivery == Delivery!AbsSpec

-----------------------------------------------------------------------------
(* Liveness.                                                               *)

Pending(d, i) == i \in RowsOf(queue[d], "PENDING")

Open(d, i) == i \in RowsOf(queue[d], "PENDING") \cup RowsOf(queue[d], "IN_FLIGHT")

\* The sweep keeps its promise for devices that never poll again: no signal
\* row stays PENDING, and no command row does unless its device is seen.
PendingDrains ==
    \A d \in Devices, i \in RowIds :
       Pending(d, i) ~> \/ ~Pending(d, i)
                        \/ queue[d][i].item \in Commands /\ d \notin offline

\* No poison row: as long as a licensed EA keeps polling, every row is closed
\* in the end, even if no acknowledgement ever arrives.
RowsClose ==
    \A d \in Devices :
       <>[](ea[d].up /\ standing[d] = "ACTIVE") =>
          \A i \in RowIds : Open(d, i) ~> ~Open(d, i)

=============================================================================
