-------------------------- MODULE EdgeQueue_proofs --------------------------
(***************************************************************************)
(* Proofs about EdgeQueue, for any numbers of devices, signals, concurrent *)
(* requests and control-plane processes.                                   *)
(***************************************************************************)
EXTENDS EdgeQueue, TLAPS

-----------------------------------------------------------------------------
(* What the queue statements do to a table of rows.                        *)

\* The fields of a row of a table.
LEMMA RowFields ==
    ASSUME NEW q \in Seq(Row), NEW i \in DOMAIN q
    PROVE  /\ q[i] \in Row
           /\ q[i].item \in Items
           /\ q[i].st \in Statuses
           /\ q[i].att \in Nat
           /\ i \in Nat
<1>1. q[i] \in Row /\ i \in Nat
  OBVIOUS
<1> QED
  BY <1>1 DEF Row

\* An UPDATE ... SET status changes the status of the rows it selects and
\* nothing else; it neither inserts nor deletes rows.
LEMMA SetStatusRows ==
    ASSUME NEW q \in Seq(Row), NEW I, NEW st \in Statuses
    PROVE  /\ SetStatus(q, I, st) \in Seq(Row)
           /\ DOMAIN SetStatus(q, I, st) = DOMAIN q
           /\ \A i \in DOMAIN q :
                 /\ SetStatus(q, I, st)[i].item = q[i].item
                 /\ SetStatus(q, I, st)[i].att = q[i].att
                 /\ SetStatus(q, I, st)[i].st = IF i \in I THEN st ELSE q[i].st
<1> DEFINE r == SetStatus(q, I, st)
<1>1. \A i \in DOMAIN q : q[i] \in Row
  OBVIOUS
<1>2. \A i \in DOMAIN q :
         /\ r[i] \in Row
         /\ r[i].item = q[i].item
         /\ r[i].att = q[i].att
         /\ r[i].st = IF i \in I THEN st ELSE q[i].st
  BY <1>1 DEF SetStatus, Row
<1>3. DOMAIN r = DOMAIN q
  BY DEF SetStatus
<1>4. r \in Seq(Row)
  BY <1>2 DEF SetStatus
<1> QED
  BY <1>2, <1>3, <1>4

\* The claim counts one attempt for every row it returns.
LEMMA ClaimRowsRows ==
    ASSUME NEW q \in Seq(Row), NEW I
    PROVE  /\ ClaimRows(q, I) \in Seq(Row)
           /\ DOMAIN ClaimRows(q, I) = DOMAIN q
           /\ \A i \in DOMAIN q :
                 /\ ClaimRows(q, I)[i].item = q[i].item
                 /\ ClaimRows(q, I)[i].att = IF i \in I THEN q[i].att + 1 ELSE q[i].att
                 /\ ClaimRows(q, I)[i].st = IF i \in I THEN "IN_FLIGHT" ELSE q[i].st
<1> DEFINE r == ClaimRows(q, I)
<1>1. \A i \in DOMAIN q : q[i] \in Row
  OBVIOUS
<1>2. \A i \in DOMAIN q :
         /\ r[i] \in Row
         /\ r[i].item = q[i].item
         /\ r[i].att = IF i \in I THEN q[i].att + 1 ELSE q[i].att
         /\ r[i].st = IF i \in I THEN "IN_FLIGHT" ELSE q[i].st
  <2> TAKE i \in DOMAIN q
  <2>1. CASE i \in I
    <3>1. r[i] = [item |-> q[i].item, st |-> "IN_FLIGHT", att |-> q[i].att + 1,
                  stale |-> FALSE]
      BY <1>1, <2>1 DEF ClaimRows, Row
    <3>2. q[i].item \in Items /\ q[i].att + 1 \in Nat
      BY <1>1 DEF Row
    <3> QED
      BY <2>1, <3>1, <3>2 DEF Row, Statuses
  <2>2. CASE i \notin I
    BY <1>1, <2>2 DEF ClaimRows
  <2> QED
    BY <2>1, <2>2
<1>3. DOMAIN r = DOMAIN q
  BY DEF ClaimRows
<1>4. r \in Seq(Row)
  <2>1. r = [i \in DOMAIN q |-> r[i]]
    BY DEF ClaimRows
  <2> HIDE DEF r
  <2> QED
    BY <1>2, <1>3, <2>1
<1> QED
  BY <1>2, <1>3, <1>4

\* An INSERT adds one PENDING row that no poll has claimed.
LEMMA AppendRows ==
    ASSUME NEW q \in Seq(Row), NEW m \in Items
    PROVE  /\ Append(q, NewRow(m)) \in Seq(Row)
           /\ DOMAIN q \subseteq DOMAIN Append(q, NewRow(m))
           /\ \A i \in DOMAIN q : Append(q, NewRow(m))[i] = q[i]
           /\ \A i \in DOMAIN Append(q, NewRow(m)) \ DOMAIN q :
                 i = Len(q) + 1 /\ Append(q, NewRow(m))[i] = NewRow(m)
<1>1. NewRow(m) \in Row
  BY DEF NewRow, Row, Statuses
<1> QED
  BY <1>1

-----------------------------------------------------------------------------
(* The inductive invariant: the type of the state, what is in transit, and *)
(* what an acknowledgement means.                                          *)

IInv == TypeOK /\ OnlyClaimedInTransit /\ AckedWasDispatched

\* An idle handler and a started EA are well typed.
LEMMA FreshTypes == IdleHandler \in HandlerState /\ FreshEA \in EAState
<1>1. IdleHandler \in HandlerState
  BY DEF IdleHandler, HandlerState, Steps
<1>2. FreshEA \in EAState
  BY DEF FreshEA, EAState
<1> QED
  BY <1>1, <1>2

\* The empty queue satisfies the inductive invariant.
LEMMA InitIInv == Init => IInv
<1> SUFFICES ASSUME Init PROVE IInv
  OBVIOUS
<1>1. TypeOK
  <2>1. EngineTypeOK
    <3>1. 0 \in 0..MaxEpoch
      BY ConstantsAssumption
    <3>2. halt = FALSE /\ epoch = 0 /\ cmds = {} /\ bcast = [s \in Signals |-> "new"]
      BY DEF Init
    <3> QED
      BY <3>1, <3>2 DEF EngineTypeOK
  <2>2. WorldTypeOK
    BY DEF Init, WorldTypeOK
  <2>3. ServerTypeOK
    BY FreshTypes DEF Init, ServerTypeOK
  <2>4. TerminalTypeOK
    BY FreshTypes DEF Init, TerminalTypeOK
  <2> QED
    BY <2>1, <2>2, <2>3, <2>4 DEF TypeOK
<1>2. OnlyClaimedInTransit
  BY DEF Init, OnlyClaimedInTransit, Claimed, IdleHandler, FreshEA
<1>3. AckedWasDispatched
  BY DEF Init, AckedWasDispatched, RowsOf
<1> QED
  BY <1>1, <1>2, <1>3 DEF IInv

\* What every step leaves of the queue and of what is in transit.
Tame ==
    \A d \in Devices :
       /\ DOMAIN queue[d] \subseteq DOMAIN queue'[d]
       /\ \A i \in DOMAIN queue[d] :
             /\ queue'[d][i].item = queue[d][i].item
             /\ queue'[d][i].att >= queue[d][i].att
       /\ \A i \in RowsOf(queue'[d], "ACKED") :
             i \in RowsOf(queue[d], "ACKED") \cup acks[d]
       /\ seen[d] \subseteq seen'[d]
       /\ seen'[d] \subseteq seen[d] \cup ea[d].inbox
       /\ acks'[d] \subseteq acks[d] \cup seen'[d]
       /\ \A i \in ea'[d].inbox :
             i \in ea[d].inbox \/ \E c \in Conns : i \in handler[d][c].batch
       /\ \A c \in Conns : \A i \in handler'[d][c].batch :
             \/ i \in handler[d][c].batch
             \/ i \in DOMAIN queue'[d] /\ queue'[d][i].att > 0
       /\ \A s \in Signals : fills'[d][s] > 0 =>
             \/ fills[d][s] > 0
             \/ \E i \in seen'[d] : queue[d][i].item = s

\* A step that keeps rows, and lets only claimed rows travel, keeps the invariant.
LEMMA TameKeeps == IInv /\ TypeOK' /\ Tame => IInv'
<1> SUFFICES ASSUME IInv, TypeOK', Tame PROVE IInv'
  OBVIOUS
<1>1. ASSUME NEW d \in Devices PROVE Claimed(d) \subseteq Claimed(d)'
  <2>1. queue[d] \in Seq(Row) /\ queue'[d] \in Seq(Row)
    BY DEF IInv, TypeOK, ServerTypeOK
  <2>2. \A i \in DOMAIN queue[d] : queue[d][i].att \in Nat
    BY <2>1, RowFields
  <2>3. \A i \in DOMAIN queue'[d] : queue'[d][i].att \in Nat
    BY <2>1, RowFields
  <2> QED
    BY <2>2, <2>3 DEF Claimed, Tame
<1>2. OnlyClaimedInTransit'
  <2> SUFFICES ASSUME NEW d \in Devices
               PROVE  /\ ea'[d].inbox \subseteq Claimed(d)'
                      /\ acks'[d] \subseteq seen'[d]
                      /\ seen'[d] \subseteq Claimed(d)'
                      /\ \A c \in Conns : handler'[d][c].batch \subseteq Claimed(d)'
    BY DEF OnlyClaimedInTransit
  <2>1. /\ ea[d].inbox \subseteq Claimed(d)
        /\ acks[d] \subseteq seen[d]
        /\ seen[d] \subseteq Claimed(d)
        /\ \A c \in Conns : handler[d][c].batch \subseteq Claimed(d)
    BY DEF IInv, OnlyClaimedInTransit
  <2>2. Claimed(d) \subseteq Claimed(d)'
    BY <1>1
  <2>3. \A i \in DOMAIN queue'[d] : queue'[d][i].att > 0 => i \in Claimed(d)'
    BY DEF Claimed
  <2> HIDE DEF Claimed
  <2> QED
    BY <2>1, <2>2, <2>3 DEF Tame
<1>3. AckedWasDispatched'
  <2> SUFFICES ASSUME NEW d \in Devices
               PROVE  /\ RowsOf(queue'[d], "ACKED") \subseteq seen'[d]
                      /\ \A s \in Signals : fills'[d][s] > 0 =>
                            \E i \in seen'[d] : queue'[d][i].item = s
    BY DEF AckedWasDispatched
  <2>1. /\ RowsOf(queue[d], "ACKED") \subseteq seen[d]
        /\ acks[d] \subseteq seen[d]
        /\ \A s \in Signals : fills[d][s] > 0 =>
              \E i \in seen[d] : queue[d][i].item = s
        /\ \A i \in seen[d] \cup ea[d].inbox : i \in DOMAIN queue[d]
    BY DEF IInv, AckedWasDispatched, OnlyClaimedInTransit, Claimed
  <2> QED
    BY <2>1 DEF Tame
<1> QED
  BY <1>2, <1>3 DEF IInv

\* Steps that leave the table alone and take nothing new into transit.
LEMMA TableUnchangedTame ==
    ASSUME TypeOK, UNCHANGED <<queue, seen, fills>>,
           \A d \in Devices :
              /\ acks'[d] \subseteq acks[d]
              /\ \A i \in ea'[d].inbox :
                    i \in ea[d].inbox \/ \E c \in Conns : i \in handler[d][c].batch
              /\ \A c \in Conns : handler'[d][c].batch \subseteq handler[d][c].batch
    PROVE  Tame
<1>1. \A d \in Devices : queue[d] \in Seq(Row)
  BY DEF TypeOK, ServerTypeOK
<1>2. \A d \in Devices : \A i \in DOMAIN queue[d] : queue[d][i].att >= queue[d][i].att
  BY <1>1, RowFields
<1> QED
  BY <1>2 DEF Tame

\* Steps of the queue statements: only the table and the handlers change.
LEMMA TableOnlyTame ==
    ASSUME TypeOK, UNCHANGED <<ea, seen, fills>>,
           \A d \in Devices :
              /\ DOMAIN queue[d] \subseteq DOMAIN queue'[d]
              /\ \A i \in DOMAIN queue[d] :
                    /\ queue'[d][i].item = queue[d][i].item
                    /\ queue'[d][i].att >= queue[d][i].att
              /\ \A i \in RowsOf(queue'[d], "ACKED") :
                    i \in RowsOf(queue[d], "ACKED") \cup acks[d]
              /\ acks'[d] \subseteq acks[d]
              /\ \A c \in Conns : \A i \in handler'[d][c].batch :
                    \/ i \in handler[d][c].batch
                    \/ i \in DOMAIN queue'[d] /\ queue'[d][i].att > 0
    PROVE  Tame
BY DEF Tame

\* What one statement does to the row set of a device.
RowsKept(q, r) ==
    /\ r \in Seq(Row)
    /\ DOMAIN q \subseteq DOMAIN r
    /\ \A i \in DOMAIN q : r[i].item = q[i].item /\ r[i].att >= q[i].att
    /\ RowsOf(r, "ACKED") \subseteq RowsOf(q, "ACKED")

\* An unchanged table keeps its rows.
LEMMA SameRowsKept ==
    ASSUME NEW q \in Seq(Row) PROVE RowsKept(q, q)
BY RowFields DEF RowsKept

\* A statement other than the acknowledgement keeps the rows.
LEMMA SetStatusKept ==
    ASSUME NEW q \in Seq(Row), NEW I, NEW st \in Statuses \ {"ACKED"}
    PROVE  RowsKept(q, SetStatus(q, I, st))
<1> DEFINE r == SetStatus(q, I, st)
<1>1. /\ r \in Seq(Row)
      /\ DOMAIN r = DOMAIN q
      /\ \A i \in DOMAIN q :
            /\ r[i].item = q[i].item
            /\ r[i].att = q[i].att
            /\ r[i].st = IF i \in I THEN st ELSE q[i].st
  BY SetStatusRows
<1>2. \A i \in DOMAIN q : q[i].att \in Nat
  BY RowFields
<1> HIDE DEF r
<1>3. RowsKept(q, r)
  BY <1>1, <1>2 DEF RowsKept, RowsOf
<1> QED
  BY <1>3 DEF r

\* An insert keeps the rows.
LEMMA AppendKept ==
    ASSUME NEW q \in Seq(Row), NEW m \in Items
    PROVE  RowsKept(q, Append(q, NewRow(m)))
<1> DEFINE r == Append(q, NewRow(m))
<1>1. /\ r \in Seq(Row)
      /\ DOMAIN q \subseteq DOMAIN r
      /\ \A i \in DOMAIN q : r[i] = q[i]
      /\ \A i \in DOMAIN r \ DOMAIN q : r[i] = NewRow(m)
  BY AppendRows
<1>2. \A i \in DOMAIN q : q[i].att \in Nat
  BY RowFields
<1>3. NewRow(m).st # "ACKED"
  BY DEF NewRow
<1> HIDE DEF r
<1>4. RowsKept(q, r)
  BY <1>1, <1>2, <1>3 DEF RowsKept, RowsOf
<1> QED
  BY <1>4 DEF r

\* Steps of which the table is the only part that matters here.
LEMMA RowsKeptTame ==
    ASSUME TypeOK, UNCHANGED <<ea, seen, fills, acks>>,
           \A d \in Devices : RowsKept(queue[d], queue'[d]),
           \A d \in Devices, c \in Conns : handler'[d][c].batch = handler[d][c].batch
    PROVE  Tame
BY TableOnlyTame DEF RowsKept

-----------------------------------------------------------------------------
(* Each action keeps the types and is tame.                                *)

\* Broadcasts, inserts, halts and engine restarts.
LEMMA EngineStep == TypeOK /\ EngineNext => TypeOK' /\ Tame
<1> SUFFICES ASSUME TypeOK, EngineNext PROVE TypeOK' /\ Tame
  OBVIOUS
<1> USE DEF engineVars, accountVars, terminalVars
<1>q. \A d \in Devices : queue[d] \in Seq(Row)
  BY DEF TypeOK, ServerTypeOK
<1>1. ASSUME NEW s \in Signals, Broadcast(s) PROVE TypeOK' /\ Tame
  <2>1. EngineTypeOK'
    BY <1>1 DEF Broadcast, TypeOK, EngineTypeOK
  <2>2. (WorldTypeOK /\ ServerTypeOK /\ TerminalTypeOK)'
    BY <1>1 DEF Broadcast, TypeOK, WorldTypeOK, ServerTypeOK, TerminalTypeOK
  <2> QED
    BY <1>1, <2>1, <2>2, TableUnchangedTame DEF Broadcast, TypeOK
<1>2. ASSUME NEW s \in Signals, Enqueue(s) PROVE TypeOK' /\ Tame
  <2>1. EngineTypeOK'
    BY <1>2 DEF Enqueue, TypeOK, EngineTypeOK
  <2>2. \A d \in Devices :
           queue'[d] = queue[d] \/ queue'[d] = Append(queue[d], NewRow(s))
    BY <1>2 DEF Enqueue
  <2>3. s \in Items
    BY DEF Items
  <2>4. \A d \in Devices : RowsKept(queue[d], queue'[d])
    BY <1>q, <2>2, <2>3, SameRowsKept, AppendKept
  <2>5. queue' \in [Devices -> Seq(Row)]
    BY <1>2, <2>4 DEF Enqueue, RowsKept
  <2>6. (WorldTypeOK /\ ServerTypeOK /\ TerminalTypeOK)'
    BY <1>2, <2>5 DEF Enqueue, TypeOK, WorldTypeOK, ServerTypeOK, TerminalTypeOK
  <2> QED
    BY <1>2, <2>1, <2>4, <2>6, RowsKeptTame DEF Enqueue, TypeOK
<1>3. ASSUME NEW s \in Signals, EnqueueFails(s) PROVE TypeOK' /\ Tame
  <2>1. EngineTypeOK'
    BY <1>3 DEF EnqueueFails, TypeOK, EngineTypeOK
  <2>2. (WorldTypeOK /\ ServerTypeOK /\ TerminalTypeOK)'
    BY <1>3 DEF EnqueueFails, TypeOK, WorldTypeOK, ServerTypeOK, TerminalTypeOK
  <2> QED
    BY <1>3, <2>1, <2>2, TableUnchangedTame DEF EnqueueFails, TypeOK
<1>4. ASSUME NEW m \in Commands, ActivateHalt(m) PROVE TypeOK' /\ Tame
  <2>1. EngineTypeOK'
    BY <1>4 DEF ActivateHalt, TypeOK, EngineTypeOK
  <2>2. (WorldTypeOK /\ ServerTypeOK /\ TerminalTypeOK)'
    BY <1>4 DEF ActivateHalt, TypeOK, WorldTypeOK, ServerTypeOK, TerminalTypeOK
  <2> QED
    BY <1>4, <2>1, <2>2, TableUnchangedTame DEF ActivateHalt, TypeOK
<1>5. ASSUME NEW m \in Commands, QueueCommand(m) PROVE TypeOK' /\ Tame
  <2>1. EngineTypeOK'
    BY <1>5 DEF QueueCommand, TypeOK, EngineTypeOK
  <2>2. \A d \in Devices :
           queue'[d] = queue[d] \/ queue'[d] = Append(queue[d], NewRow(m))
    BY <1>5 DEF QueueCommand
  <2>3. m \in Items
    BY DEF Items
  <2>4. \A d \in Devices : RowsKept(queue[d], queue'[d])
    BY <1>q, <2>2, <2>3, SameRowsKept, AppendKept
  <2>5. queue' \in [Devices -> Seq(Row)]
    BY <1>5, <2>4 DEF QueueCommand, RowsKept
  <2>6. (WorldTypeOK /\ ServerTypeOK /\ TerminalTypeOK)'
    BY <1>5, <2>5 DEF QueueCommand, TypeOK, WorldTypeOK, ServerTypeOK, TerminalTypeOK
  <2> QED
    BY <1>5, <2>1, <2>4, <2>6, RowsKeptTame DEF QueueCommand, TypeOK
<1>6. ASSUME Resume PROVE TypeOK' /\ Tame
  <2>1. EngineTypeOK'
    BY <1>6 DEF Resume, TypeOK, EngineTypeOK
  <2>2. (WorldTypeOK /\ ServerTypeOK /\ TerminalTypeOK)'
    BY <1>6 DEF Resume, TypeOK, WorldTypeOK, ServerTypeOK, TerminalTypeOK
  <2> QED
    BY <1>6, <2>1, <2>2, TableUnchangedTame DEF Resume, TypeOK
<1>7. ASSUME EngineRestart PROVE TypeOK' /\ Tame
  <2>1. EngineTypeOK'
    <3>1. epoch' \in 0..MaxEpoch
      BY <1>7, ConstantsAssumption DEF EngineRestart, TypeOK, EngineTypeOK
    <3>2. bcast' \in [Signals -> {"new", "cleared", "done"}]
      BY <1>7 DEF EngineRestart, TypeOK, EngineTypeOK
    <3>3. halt' \in BOOLEAN /\ cmds' \in SUBSET Commands
      BY <1>7 DEF EngineRestart
    <3> QED
      BY <3>1, <3>2, <3>3 DEF EngineTypeOK
  <2>2. (WorldTypeOK /\ ServerTypeOK /\ TerminalTypeOK)'
    BY <1>7 DEF EngineRestart, TypeOK, WorldTypeOK, ServerTypeOK, TerminalTypeOK
  <2> QED
    BY <1>7, <2>1, <2>2, TableUnchangedTame DEF EngineRestart, TypeOK
<1> QED
  BY <1>1, <1>2, <1>3, <1>4, <1>5, <1>6, <1>7 DEF EngineNext

\* The clock passing 30 seconds on a row touches nothing the proofs look at.
LEMMA StaleKept ==
    ASSUME NEW q \in Seq(Row), NEW i
    PROVE  RowsKept(q, [j \in DOMAIN q |-> IF j = i THEN [q[j] EXCEPT !.stale = TRUE]
                                           ELSE q[j]])
<1> DEFINE r == [j \in DOMAIN q |-> IF j = i THEN [q[j] EXCEPT !.stale = TRUE]
                                    ELSE q[j]]
<1>1. \A j \in DOMAIN q : q[j] \in Row /\ q[j].att \in Nat
  BY RowFields
<1>2. \A j \in DOMAIN q :
         /\ r[j] \in Row
         /\ r[j].item = q[j].item
         /\ r[j].att = q[j].att
         /\ r[j].st = q[j].st
  BY <1>1 DEF Row
<1>3. DOMAIN r = DOMAIN q /\ r = [j \in DOMAIN q |-> r[j]]
  OBVIOUS
<1> HIDE DEF r
<1>4. r \in Seq(Row)
  BY <1>2, <1>3
<1>5. RowsKept(q, r)
  BY <1>1, <1>2, <1>3, <1>4 DEF RowsKept, RowsOf
<1> QED
  BY <1>5 DEF r

\* What SetPlan does to the handler of a running request.
LEMMA DeniedLess ==
    ASSUME NEW h \in HandlerState, NEW P
    PROVE  /\ [h EXCEPT !.denied = @ \ P] \in HandlerState
           /\ [h EXCEPT !.denied = @ \ P].batch = h.batch
           /\ [h EXCEPT !.denied = @ \ P].pc = h.pc
           /\ [h EXCEPT !.denied = @ \ P].denied = h.denied \ P
BY DEF HandlerState

\* Changes of account, the passing of time, and offline devices.
LEMMA WorldStep == TypeOK /\ WorldNext => TypeOK' /\ Tame
<1> SUFFICES ASSUME TypeOK, WorldNext PROVE TypeOK' /\ Tame
  OBVIOUS
<1> USE DEF engineVars, accountVars, terminalVars
<1>1. ASSUME NEW d \in Devices, SetStanding(d) PROVE TypeOK' /\ Tame
  <2>1. WorldTypeOK'
    BY <1>1 DEF SetStanding, TypeOK, WorldTypeOK
  <2>2. (EngineTypeOK /\ ServerTypeOK /\ TerminalTypeOK)'
    BY <1>1 DEF SetStanding, TypeOK, EngineTypeOK, ServerTypeOK, TerminalTypeOK
  <2> QED
    BY <1>1, <2>1, <2>2, TableUnchangedTame DEF SetStanding, TypeOK
<1>2. ASSUME NEW d \in Devices, SetPlan(d) PROVE TypeOK' /\ Tame
  <2> PICK P \in Plans :
         /\ plan' = [plan EXCEPT ![d] = P]
         /\ handler' = [handler EXCEPT ![d] =
                          [c \in Conns |-> [handler[d][c] EXCEPT !.denied = @ \ P]]]
    BY <1>2 DEF SetPlan
  <2>1. WorldTypeOK'
    BY <1>2 DEF SetPlan, TypeOK, WorldTypeOK
  <2>2. \A c \in Conns : handler[d][c] \in HandlerState
    BY DEF TypeOK, ServerTypeOK
  <2> DEFINE h == [c \in Conns |-> [handler[d][c] EXCEPT !.denied = @ \ P]]
  <2>5. \A c \in Conns : h[c] \in HandlerState /\ h[c].batch = handler[d][c].batch
    BY <2>2, DeniedLess
  <2>6. h \in [Conns -> HandlerState]
    BY <2>5
  <2>7. handler' = [handler EXCEPT ![d] = h]
    OBVIOUS
  <2> HIDE DEF h
  <2>3. /\ handler' \in [Devices -> [Conns -> HandlerState]]
        /\ \A e \in Devices, c \in Conns : handler'[e][c].batch = handler[e][c].batch
    BY <2>5, <2>6, <2>7 DEF TypeOK, ServerTypeOK
  <2>4. (EngineTypeOK /\ ServerTypeOK /\ TerminalTypeOK)'
    BY <1>2, <2>3 DEF SetPlan, TypeOK, EngineTypeOK, ServerTypeOK, TerminalTypeOK
  <2> QED
    BY <1>2, <2>1, <2>3, <2>4, TableUnchangedTame DEF SetPlan, TypeOK
<1>3. ASSUME NEW d \in Devices, GoOffline(d) PROVE TypeOK' /\ Tame
  <2>1. WorldTypeOK'
    BY <1>3 DEF GoOffline, TypeOK, WorldTypeOK
  <2>2. (EngineTypeOK /\ ServerTypeOK /\ TerminalTypeOK)'
    BY <1>3 DEF GoOffline, TypeOK, EngineTypeOK, ServerTypeOK, TerminalTypeOK
  <2> QED
    BY <1>3, <2>1, <2>2, TableUnchangedTame DEF GoOffline, TypeOK
<1>4. ASSUME NEW s \in Signals, TtlPasses(s) PROVE TypeOK' /\ Tame
  <2>1. WorldTypeOK'
    BY <1>4 DEF TtlPasses, TypeOK, WorldTypeOK
  <2>2. (EngineTypeOK /\ ServerTypeOK /\ TerminalTypeOK)'
    BY <1>4 DEF TtlPasses, TypeOK, EngineTypeOK, ServerTypeOK, TerminalTypeOK
  <2> QED
    BY <1>4, <2>1, <2>2, TableUnchangedTame DEF TtlPasses, TypeOK
<1>5. ASSUME NEW d \in Devices, NEW i \in DOMAIN queue[d], FlightStale(d, i)
      PROVE  TypeOK' /\ Tame
  <2> DEFINE r == [j \in DOMAIN queue[d] |->
                     IF j = i THEN [queue[d][j] EXCEPT !.stale = TRUE] ELSE queue[d][j]]
  <2>1. queue \in [Devices -> Seq(Row)]
    BY DEF TypeOK, ServerTypeOK
  <2>2. RowsKept(queue[d], r)
    BY <2>1, StaleKept
  <2>3. queue' = [queue EXCEPT ![d] = r]
    BY <1>5 DEF FlightStale
  <2> HIDE DEF r
  <2>4. \A e \in Devices : RowsKept(queue[e], queue'[e])
    BY <2>1, <2>2, <2>3, SameRowsKept
  <2>5. queue' \in [Devices -> Seq(Row)]
    BY <2>1, <2>2, <2>3 DEF RowsKept
  <2>6. (EngineTypeOK /\ WorldTypeOK /\ ServerTypeOK /\ TerminalTypeOK)'
    BY <1>5, <2>5 DEF FlightStale, TypeOK, EngineTypeOK, WorldTypeOK, ServerTypeOK,
                      TerminalTypeOK
  <2> QED
    BY <1>5, <2>4, <2>6, RowsKeptTame DEF FlightStale, TypeOK
<1> QED
  BY <1>1, <1>2, <1>3, <1>4, <1>5 DEF WorldNext

\* One UPDATE of the poll handler.
LEMMA StatementStep ==
    ASSUME TypeOK, NEW d \in Devices, NEW c \in Conns, NEW from, NEW to \in Steps,
           NEW I, NEW st \in Statuses \ {"ACKED"}, Statement(d, c, from, to, I, st)
    PROVE  TypeOK' /\ Tame
<1> USE DEF engineVars, accountVars, terminalVars
<1>1. queue \in [Devices -> Seq(Row)] /\ handler \in [Devices -> [Conns -> HandlerState]]
  BY DEF TypeOK, ServerTypeOK
<1> DEFINE r == SetStatus(queue[d], I, st)
<1>2. RowsKept(queue[d], r)
  BY <1>1, SetStatusKept
<1>3. queue' = [queue EXCEPT ![d] = r]
  BY DEF Statement
<1> HIDE DEF r
<1>4. \A e \in Devices : RowsKept(queue[e], queue'[e])
  BY <1>1, <1>2, <1>3, SameRowsKept
<1>5. queue' \in [Devices -> Seq(Row)]
  BY <1>1, <1>2, <1>3 DEF RowsKept
<1>6. /\ handler' \in [Devices -> [Conns -> HandlerState]]
      /\ \A e \in Devices, b \in Conns : handler'[e][b].batch = handler[e][b].batch
  <2> DEFINE h == [handler[d][c] EXCEPT !.pc = to]
  <2>1. handler[d][c] \in HandlerState
    BY <1>1
  <2>2. h \in HandlerState /\ h.batch = handler[d][c].batch
    BY <2>1 DEF HandlerState
  <2>3. handler' = [handler EXCEPT ![d][c] = h]
    BY DEF Statement
  <2> HIDE DEF h
  <2> QED
    BY <1>1, <2>2, <2>3
<1>7. (EngineTypeOK /\ WorldTypeOK /\ ServerTypeOK /\ TerminalTypeOK)'
  BY <1>5, <1>6 DEF Statement, TypeOK, EngineTypeOK, WorldTypeOK, ServerTypeOK,
                    TerminalTypeOK
<1> QED
  BY <1>4, <1>6, <1>7, RowsKeptTame DEF Statement, TypeOK

\* The claim raises the attempts of the rows it hands to the handler.
LEMMA ClaimStep ==
    ASSUME TypeOK, NEW d \in Devices, NEW c \in Conns, Claim(d, c)
    PROVE  TypeOK' /\ Tame
<1> USE DEF engineVars, accountVars, terminalVars
<1> DEFINE B == NextBatch(queue[d])
           r == ClaimRows(queue[d], B)
<1>1. queue \in [Devices -> Seq(Row)] /\ handler \in [Devices -> [Conns -> HandlerState]]
  BY DEF TypeOK, ServerTypeOK
<1>2. B \subseteq DOMAIN queue[d] /\ B \in SUBSET Nat
  BY <1>1, RowFields DEF NextBatch, RowsOf
<1>3. /\ r \in Seq(Row)
      /\ DOMAIN r = DOMAIN queue[d]
      /\ \A i \in DOMAIN queue[d] :
            /\ r[i].item = queue[d][i].item
            /\ r[i].att = IF i \in B THEN queue[d][i].att + 1 ELSE queue[d][i].att
            /\ r[i].st = IF i \in B THEN "IN_FLIGHT" ELSE queue[d][i].st
  BY <1>1, ClaimRowsRows
<1>4. /\ queue' = [queue EXCEPT ![d] = r]
      /\ handler' = [handler EXCEPT ![d][c] = [@ EXCEPT !.pc = "respond", !.batch = B]]
      /\ UNCHANGED <<halt, epoch, bcast, cmds, expired, standing, plan, offline,
                     sweeper, ea, seen, fills, acks>>
  BY DEF Claim
<1> HIDE DEF B, r
<1>5. \A e \in Devices : \A i \in DOMAIN queue[e] : queue[e][i].att \in Nat
  BY <1>1, RowFields
<1>6. /\ handler' \in [Devices -> [Conns -> HandlerState]]
      /\ \A e \in Devices, b \in Conns :
            handler'[e][b].batch = IF e = d /\ b = c THEN B ELSE handler[e][b].batch
  <2>1. handler[d][c] \in HandlerState
    BY <1>1
  <2> DEFINE h == [handler[d][c] EXCEPT !.pc = "respond", !.batch = B]
  <2>2. h \in HandlerState /\ h.batch = B
    BY <1>2, <2>1 DEF HandlerState, Steps
  <2>3. handler' = [handler EXCEPT ![d][c] = h]
    BY <1>4
  <2> HIDE DEF h
  <2> QED
    BY <1>1, <2>2, <2>3
<1>7. queue' \in [Devices -> Seq(Row)]
  BY <1>1, <1>3, <1>4
<1>8. TypeOK'
  BY <1>4, <1>6, <1>7 DEF TypeOK, EngineTypeOK, WorldTypeOK, ServerTypeOK,
                          TerminalTypeOK
<1>9. ASSUME NEW e \in Devices
      PROVE  /\ DOMAIN queue[e] \subseteq DOMAIN queue'[e]
             /\ \A i \in DOMAIN queue[e] :
                   /\ queue'[e][i].item = queue[e][i].item
                   /\ queue'[e][i].att >= queue[e][i].att
             /\ \A i \in RowsOf(queue'[e], "ACKED") :
                   i \in RowsOf(queue[e], "ACKED") \cup acks[e]
             /\ \A b \in Conns : \A i \in handler'[e][b].batch :
                   \/ i \in handler[e][b].batch
                   \/ i \in DOMAIN queue'[e] /\ queue'[e][i].att > 0
  <2>1. CASE e = d
    <3>1. queue'[d] = r
      BY <1>1, <1>4
    <3>2. \A i \in DOMAIN queue[d] : r[i].att >= queue[d][i].att
      BY <1>3, <1>5
    <3>3. \A i \in B : i \in DOMAIN r /\ r[i].att > 0
      BY <1>2, <1>3, <1>5
    <3>4. \A i \in RowsOf(r, "ACKED") : i \in RowsOf(queue[d], "ACKED")
      BY <1>3 DEF RowsOf
    <3> QED
      BY <1>3, <1>6, <2>1, <3>1, <3>2, <3>3, <3>4
  <2>2. CASE e # d
    BY <1>1, <1>4, <1>5, <1>6, <2>2
  <2> QED
    BY <2>1, <2>2
<1> QED
  BY <1>4, <1>8, <1>9, TableOnlyTame

\* Polls, acknowledgements, heartbeats and sweeps.
LEMMA ServerStep == TypeOK /\ ServerNext => TypeOK' /\ Tame
<1> SUFFICES ASSUME TypeOK, ServerNext PROVE TypeOK' /\ Tame
  OBVIOUS
<1> USE DEF engineVars, accountVars, terminalVars
<1>t. /\ queue \in [Devices -> Seq(Row)]
      /\ handler \in [Devices -> [Conns -> HandlerState]]
      /\ ea \in [Devices -> EAState]
      /\ acks \in [Devices -> SUBSET Nat]
  BY DEF TypeOK, ServerTypeOK, TerminalTypeOK
<1>1. ASSUME NEW d \in Devices, NEW c \in Conns, StartPoll(d, c) PROVE TypeOK' /\ Tame
  <2> DEFINE h == [pc |-> "deadletter", batch |-> {}, denied |-> Signals \ plan[d]]
             f == [ea[d] EXCEPT !.wait = c]
  <2>1. h \in HandlerState /\ h.batch = {}
    BY DEF HandlerState, Steps
  <2>2. f \in EAState /\ f.inbox = ea[d].inbox
    BY <1>t DEF EAState
  <2>3. /\ handler' = [handler EXCEPT ![d][c] = h]
        /\ ea' = [ea EXCEPT ![d] = f]
        /\ UNCHANGED <<halt, epoch, bcast, cmds, expired, standing, plan, offline,
                       queue, sweeper, seen, fills, acks>>
    BY <1>1 DEF StartPoll
  <2> HIDE DEF h, f
  <2>4. /\ handler' \in [Devices -> [Conns -> HandlerState]]
        /\ \A e \in Devices, b \in Conns : handler'[e][b].batch \subseteq handler[e][b].batch
    BY <1>t, <2>1, <2>3
  <2>5. ea' \in [Devices -> EAState] /\ \A e \in Devices : ea'[e].inbox = ea[e].inbox
    BY <1>t, <2>2, <2>3
  <2>6. (EngineTypeOK /\ WorldTypeOK /\ ServerTypeOK /\ TerminalTypeOK)'
    BY <2>3, <2>4, <2>5 DEF TypeOK, EngineTypeOK, WorldTypeOK, ServerTypeOK,
                            TerminalTypeOK
  <2> QED
    BY <2>3, <2>4, <2>5, <2>6, TableUnchangedTame DEF TypeOK
<1>2. ASSUME NEW d \in Devices, NEW c \in Conns,
             DeadLetter(d, c) \/ Reclaim(d, c) \/ ExpireTtl(d, c) \/ Entitle(d, c)
      PROVE  TypeOK' /\ Tame
  <2>1. {"reclaim", "expire", "entitle", "claim"} \subseteq Steps
    BY DEF Steps
  <2>2. {"EXPIRED", "PENDING"} \subseteq Statuses \ {"ACKED"}
    BY DEF Statuses
  <2>3. CASE DeadLetter(d, c)
    BY <2>1, <2>2, <2>3, StatementStep DEF DeadLetter
  <2>4. CASE Reclaim(d, c)
    BY <2>1, <2>2, <2>4, StatementStep DEF Reclaim
  <2>5. CASE ExpireTtl(d, c)
    BY <2>1, <2>2, <2>5, StatementStep DEF ExpireTtl
  <2>6. CASE Entitle(d, c)
    BY <2>1, <2>2, <2>6, StatementStep DEF Entitle
  <2> QED
    BY <1>2, <2>3, <2>4, <2>5, <2>6
<1>3. ASSUME NEW d \in Devices, NEW c \in Conns, Claim(d, c) PROVE TypeOK' /\ Tame
  BY <1>3, ClaimStep
<1>4. ASSUME NEW d \in Devices, NEW c \in Conns, Respond(d, c) \/ PollFails(d, c)
      PROVE  TypeOK' /\ Tame
  <2> DEFINE f == [ea[d] EXCEPT !.wait = NoConn, !.inbox = handler[d][c].batch]
             g == [ea[d] EXCEPT !.wait = NoConn]
  <2>1. f \in EAState /\ f.inbox = handler[d][c].batch
    <3>1. ea[d] \in EAState /\ handler[d][c].batch \in SUBSET Nat
      BY <1>t DEF HandlerState
    <3> QED
      BY <3>1 DEF EAState
  <2>2. g \in EAState /\ g.inbox = ea[d].inbox
    BY <1>t DEF EAState
  <2>3. /\ handler' = [handler EXCEPT ![d][c] = IdleHandler]
        /\ ea' = ea \/ ea' = [ea EXCEPT ![d] = f] \/ ea' = [ea EXCEPT ![d] = g]
        /\ UNCHANGED <<halt, epoch, bcast, cmds, expired, standing, plan, offline,
                       queue, sweeper, seen, fills, acks>>
    BY <1>4 DEF Respond, PollFails
  <2>4. IdleHandler \in HandlerState /\ IdleHandler.batch = {}
    BY FreshTypes DEF IdleHandler
  <2> HIDE DEF f, g
  <2>5. /\ handler' \in [Devices -> [Conns -> HandlerState]]
        /\ \A e \in Devices, b \in Conns : handler'[e][b].batch \subseteq handler[e][b].batch
    BY <1>t, <2>3, <2>4
  <2>6. /\ ea' \in [Devices -> EAState]
        /\ \A e \in Devices : \A i \in ea'[e].inbox :
              i \in ea[e].inbox \/ \E b \in Conns : i \in handler[e][b].batch
    BY <1>t, <2>1, <2>2, <2>3
  <2>7. (EngineTypeOK /\ WorldTypeOK /\ ServerTypeOK /\ TerminalTypeOK)'
    BY <2>3, <2>5, <2>6 DEF TypeOK, EngineTypeOK, WorldTypeOK, ServerTypeOK,
                            TerminalTypeOK
  <2> QED
    BY <2>3, <2>5, <2>6, <2>7, TableUnchangedTame DEF TypeOK
<1>5. ASSUME NEW d \in Devices, NEW i \in acks[d], Ack(d, i) PROVE TypeOK' /\ Tame
  <2> DEFINE r == SetStatus(queue[d], {i}, "ACKED")
  <2>1. /\ r \in Seq(Row)
        /\ DOMAIN r = DOMAIN queue[d]
        /\ \A j \in DOMAIN queue[d] :
              /\ r[j].item = queue[d][j].item
              /\ r[j].att = queue[d][j].att
              /\ r[j].st = IF j \in {i} THEN "ACKED" ELSE queue[d][j].st
    BY <1>t, SetStatusRows DEF Statuses
  <2>2. /\ queue' = [queue EXCEPT ![d] = r]
        /\ acks' = [acks EXCEPT ![d] = @ \ {i}]
        /\ UNCHANGED <<halt, epoch, bcast, cmds, expired, standing, plan, offline,
                       handler, sweeper, ea, seen, fills>>
    BY <1>5 DEF Ack
  <2> HIDE DEF r
  <2>3. \A e \in Devices : \A j \in DOMAIN queue[e] : queue[e][j].att \in Nat
    BY <1>t, RowFields
  <2>4. queue' \in [Devices -> Seq(Row)] /\ acks' \in [Devices -> SUBSET Nat]
    BY <1>t, <2>1, <2>2
  <2>5. (EngineTypeOK /\ WorldTypeOK /\ ServerTypeOK /\ TerminalTypeOK)'
    BY <2>2, <2>4 DEF TypeOK, EngineTypeOK, WorldTypeOK, ServerTypeOK, TerminalTypeOK
  <2>6. \A e \in Devices :
           /\ DOMAIN queue[e] \subseteq DOMAIN queue'[e]
           /\ \A j \in DOMAIN queue[e] :
                 /\ queue'[e][j].item = queue[e][j].item
                 /\ queue'[e][j].att >= queue[e][j].att
           /\ \A j \in RowsOf(queue'[e], "ACKED") :
                 j \in RowsOf(queue[e], "ACKED") \cup acks[e]
           /\ acks'[e] \subseteq acks[e]
    <3> TAKE e \in Devices
    <3>1. CASE e = d
      <4>1. queue'[d] = r /\ acks'[d] = acks[d] \ {i}
        BY <1>t, <2>2
      <4>2. \A j \in DOMAIN queue[d] : r[j].att >= queue[d][j].att
        BY <2>1, <2>3
      <4>3. \A j \in RowsOf(r, "ACKED") : j \in RowsOf(queue[d], "ACKED") \cup {i}
        BY <2>1 DEF RowsOf
      <4> QED
        BY <2>1, <3>1, <4>1, <4>2, <4>3
    <3>2. CASE e # d
      BY <1>t, <2>2, <2>3, <3>2
    <3> QED
      BY <3>1, <3>2
  <2> QED
    BY <2>2, <2>5, <2>6, TableOnlyTame DEF TypeOK
<1>6. ASSUME NEW d \in Devices, NEW i \in acks[d], AckLost(d, i) PROVE TypeOK' /\ Tame
  <2>1. /\ acks' = [acks EXCEPT ![d] = @ \ {i}]
        /\ UNCHANGED <<halt, epoch, bcast, cmds, expired, standing, plan, offline,
                       queue, handler, sweeper, ea, seen, fills>>
    BY <1>6 DEF AckLost
  <2>2. acks' \in [Devices -> SUBSET Nat] /\ \A e \in Devices : acks'[e] \subseteq acks[e]
    BY <1>t, <2>1
  <2>3. (EngineTypeOK /\ WorldTypeOK /\ ServerTypeOK /\ TerminalTypeOK)'
    BY <2>1, <2>2 DEF TypeOK, EngineTypeOK, WorldTypeOK, ServerTypeOK, TerminalTypeOK
  <2> QED
    BY <2>1, <2>2, <2>3, TableUnchangedTame DEF TypeOK
<1>7. ASSUME NEW d \in Devices, Heartbeat(d) PROVE TypeOK' /\ Tame
  <2>1. WorldTypeOK'
    BY <1>7 DEF Heartbeat, TypeOK, WorldTypeOK
  <2>2. (EngineTypeOK /\ ServerTypeOK /\ TerminalTypeOK)'
    BY <1>7 DEF Heartbeat, TypeOK, EngineTypeOK, ServerTypeOK, TerminalTypeOK
  <2> QED
    BY <1>7, <2>1, <2>2, TableUnchangedTame DEF Heartbeat, TypeOK
<1>8. ASSUME NEW p \in Peers, SweepTtl(p) \/ SweepOffline(p) PROVE TypeOK' /\ Tame
  <2>1. /\ queue' = [d \in Devices |-> queue'[d]]
        /\ \A d \in Devices : \/ queue'[d] = queue[d]
                              \/ \E I : queue'[d] = SetStatus(queue[d], I, "EXPIRED")
        /\ sweeper' \in [Peers -> {"ttl", "offline"}]
        /\ UNCHANGED <<halt, epoch, bcast, cmds, expired, standing, plan, offline,
                       handler, ea, seen, fills, acks>>
    BY <1>8 DEF SweepTtl, SweepOffline, TypeOK, ServerTypeOK
  <2>2. \A d \in Devices : RowsKept(queue[d], queue'[d])
    BY <1>t, <2>1, SameRowsKept, SetStatusKept DEF Statuses
  <2>3. queue' \in [Devices -> Seq(Row)]
    BY <2>1, <2>2 DEF RowsKept
  <2>4. (EngineTypeOK /\ WorldTypeOK /\ ServerTypeOK /\ TerminalTypeOK)'
    BY <2>1, <2>3 DEF TypeOK, EngineTypeOK, WorldTypeOK, ServerTypeOK, TerminalTypeOK
  <2> QED
    BY <2>1, <2>2, <2>4, RowsKeptTame DEF TypeOK
<1>9. ASSUME NEW p \in Peers, SweepFails(p) PROVE TypeOK' /\ Tame
  <2>1. ServerTypeOK'
    BY <1>9 DEF SweepFails, TypeOK, ServerTypeOK
  <2>2. (EngineTypeOK /\ WorldTypeOK /\ TerminalTypeOK)'
    BY <1>9 DEF SweepFails, TypeOK, EngineTypeOK, WorldTypeOK, TerminalTypeOK
  <2> QED
    BY <1>9, <2>1, <2>2, TableUnchangedTame DEF SweepFails, TypeOK
<1> QED
  BY <1>1, <1>2, <1>3, <1>4, <1>5, <1>6, <1>7, <1>8, <1>9 DEF ServerNext

\* The EA dispatches its batch, gives up waiting, stops and starts.
LEMMA TerminalStep == TypeOK /\ OnlyClaimedInTransit /\ TerminalNext => TypeOK' /\ Tame
<1> SUFFICES ASSUME TypeOK, OnlyClaimedInTransit, TerminalNext PROVE TypeOK' /\ Tame
  OBVIOUS
<1> USE DEF engineVars, accountVars, terminalVars
<1>t. /\ queue \in [Devices -> Seq(Row)]
      /\ ea \in [Devices -> EAState]
      /\ acks \in [Devices -> SUBSET Nat]
      /\ seen \in [Devices -> SUBSET Nat]
      /\ fills \in [Devices -> [Signals -> Nat]]
  BY DEF TypeOK, ServerTypeOK, TerminalTypeOK
<1>1. ASSUME NEW d \in Devices, PollTimeout(d) \/ EADeinit(d) \/ EAInit(d)
      PROVE  TypeOK' /\ Tame
  <2>1. UNCHANGED <<halt, epoch, bcast, cmds, expired, standing, plan, offline,
                    queue, handler, sweeper, seen, fills, acks>>
    BY <1>1 DEF PollTimeout, EADeinit, EAInit
  <2>2. \E f \in EAState : f.inbox \subseteq ea[d].inbox /\ ea' = [ea EXCEPT ![d] = f]
    <3>1. CASE PollTimeout(d)
      <4> DEFINE f == [ea[d] EXCEPT !.wait = NoConn]
      <4>1. f \in EAState /\ f.inbox = ea[d].inbox
        BY <1>t DEF EAState
      <4>2. ea' = [ea EXCEPT ![d] = f]
        BY <3>1 DEF PollTimeout
      <4> QED
        BY <4>1, <4>2
    <3>2. CASE EADeinit(d)
      <4> DEFINE f == [ea[d] EXCEPT !.up = FALSE, !.inbox = {}, !.wait = NoConn,
                                    !.last = NoSignal]
      <4>1. f \in EAState /\ f.inbox = {}
        BY <1>t DEF EAState
      <4>2. ea' = [ea EXCEPT ![d] = f]
        BY <3>2 DEF EADeinit
      <4> QED
        BY <4>1, <4>2
    <3>3. CASE EAInit(d)
      <4>1. PICK r \in BOOLEAN :
               ea' = [ea EXCEPT ![d] = [FreshEA EXCEPT !.halted = ea[d].halted /\ ~r,
                                                       !.reenable = r]]
        BY <3>3 DEF EAInit
      <4> DEFINE f == [FreshEA EXCEPT !.halted = ea[d].halted /\ ~r, !.reenable = r]
      <4>2. f \in EAState /\ f.inbox = {}
        BY <1>t DEF EAState, FreshEA
      <4> QED
        BY <4>1, <4>2
    <3> QED
      BY <1>1, <3>1, <3>2, <3>3
  <2>3. ea' \in [Devices -> EAState] /\ \A e \in Devices : ea'[e].inbox \subseteq ea[e].inbox
    BY <1>t, <2>2
  <2>4. (EngineTypeOK /\ WorldTypeOK /\ ServerTypeOK /\ TerminalTypeOK)'
    BY <2>1, <2>3 DEF TypeOK, EngineTypeOK, WorldTypeOK, ServerTypeOK, TerminalTypeOK
  <2> QED
    BY <2>1, <2>3, <2>4, TableUnchangedTame DEF TypeOK
<1>2. ASSUME NEW d \in Devices, NEW i \in ea[d].inbox,
             ExecuteSignal(d, i) \/ SkipSignal(d, i) \/ HandleCommand(d, i)
      PROVE  TypeOK' /\ Tame
  <2>i. i \in DOMAIN queue[d] /\ i \in Nat
    BY <1>t, RowFields DEF OnlyClaimedInTransit, Claimed
  <2>1. /\ acks' = [acks EXCEPT ![d] = @ \cup {i}]
        /\ seen' = [seen EXCEPT ![d] = @ \cup {i}]
        /\ UNCHANGED <<halt, epoch, bcast, cmds, expired, standing, plan, offline,
                       queue, handler, sweeper>>
    BY <1>2 DEF ExecuteSignal, SkipSignal, HandleCommand, Dispatch
  <2>2. \E f \in EAState : f.inbox \subseteq ea[d].inbox /\ ea' = [ea EXCEPT ![d] = f]
    <3>1. CASE ExecuteSignal(d, i)
      <4> DEFINE f == [ea[d] EXCEPT !.inbox = @ \ {i}, !.last = queue[d][i].item]
      <4>1. f \in EAState /\ f.inbox \subseteq ea[d].inbox
        BY <1>t, <3>1 DEF EAState, ExecuteSignal
      <4>2. ea' = [ea EXCEPT ![d] = f]
        BY <3>1 DEF ExecuteSignal
      <4> QED
        BY <4>1, <4>2
    <3>2. CASE SkipSignal(d, i)
      <4> DEFINE f == [ea[d] EXCEPT !.inbox = @ \ {i}]
      <4>1. f \in EAState /\ f.inbox \subseteq ea[d].inbox
        BY <1>t DEF EAState
      <4>2. ea' = [ea EXCEPT ![d] = f]
        BY <3>2 DEF SkipSignal
      <4> QED
        BY <4>1, <4>2
    <3>3. CASE HandleCommand(d, i)
      <4> DEFINE u == ea[d].up /\ queue[d][i].item # "KILL_SWITCH"
                 f == [ea[d] EXCEPT !.inbox = @ \ {i}, !.halted = TRUE, !.up = u]
      <4>0. u \in BOOLEAN
        BY <1>t DEF EAState
      <4>2. ea' = [ea EXCEPT ![d] = f]
        BY <3>3 DEF HandleCommand
      <4> HIDE DEF u
      <4>1. f \in EAState /\ f.inbox \subseteq ea[d].inbox
        BY <1>t, <4>0 DEF EAState
      <4> QED
        BY <4>1, <4>2
    <3> QED
      BY <1>2, <3>1, <3>2, <3>3
  <2>3. ea' \in [Devices -> EAState] /\ \A e \in Devices : ea'[e].inbox \subseteq ea[e].inbox
    BY <1>t, <2>2
  <2>4. /\ acks' \in [Devices -> SUBSET Nat]
        /\ seen' \in [Devices -> SUBSET Nat]
        /\ \A e \in Devices :
              /\ seen[e] \subseteq seen'[e]
              /\ seen'[e] \subseteq seen[e] \cup ea[e].inbox
              /\ acks'[e] \subseteq acks[e] \cup seen'[e]
        /\ i \in seen'[d]
    BY <1>t, <2>1, <2>i
  <2>5. /\ fills' \in [Devices -> [Signals -> Nat]]
        /\ \A e \in Devices : \A s \in Signals : fills'[e][s] > 0 =>
              fills[e][s] > 0 \/ \E j \in seen'[e] : queue[e][j].item = s
    <3>1. CASE fills' = fills
      BY <1>t, <3>1
    <3>2. CASE ExecuteSignal(d, i)
      <4> DEFINE s == queue[d][i].item
      <4>1. s \in Signals /\ fills' = [fills EXCEPT ![d][s] = @ + 1]
        BY <3>2 DEF ExecuteSignal
      <4> HIDE DEF s
      <4>2. fills' \in [Devices -> [Signals -> Nat]]
        BY <1>t, <4>1
      <4>3. \A e \in Devices : \A t \in Signals :
               fills'[e][t] = fills[e][t] \/ (e = d /\ t = s)
        BY <1>t, <4>1
      <4> QED
        BY <2>4, <4>2, <4>3 DEF s
    <3> QED
      BY <1>2, <3>1, <3>2 DEF SkipSignal, HandleCommand
  <2>6. (EngineTypeOK /\ WorldTypeOK /\ ServerTypeOK /\ TerminalTypeOK)'
    BY <2>1, <2>3, <2>4, <2>5 DEF TypeOK, EngineTypeOK, WorldTypeOK, ServerTypeOK,
                                  TerminalTypeOK
  <2>7. \A e \in Devices : \A j \in DOMAIN queue[e] : queue[e][j].att >= queue[e][j].att
    BY <1>t, RowFields
  <2>8. Tame
    BY <2>1, <2>3, <2>4, <2>5, <2>7 DEF Tame
  <2> QED
    BY <2>6, <2>8 DEF TypeOK
<1> QED
  BY <1>1, <1>2 DEF TerminalNext

\* Every step keeps the inductive invariant.
LEMMA NextIInv == IInv /\ [Next]_vars => IInv'
<1> SUFFICES ASSUME IInv, [Next]_vars PROVE IInv'
  OBVIOUS
<1>1. CASE Next
  <2>1. TypeOK' /\ Tame
    BY <1>1, EngineStep, WorldStep, ServerStep, TerminalStep DEF Next, IInv
  <2> QED
    BY <2>1, TameKeeps
<1>2. CASE UNCHANGED vars
  BY <1>2 DEF vars, IInv, TypeOK, EngineTypeOK, WorldTypeOK, ServerTypeOK, TerminalTypeOK,
              OnlyClaimedInTransit, AckedWasDispatched, Claimed, RowsOf
<1> QED
  BY <1>1, <1>2

-----------------------------------------------------------------------------
(* The theorems.                                                           *)

\* The inductive invariant holds in every reachable state.
LEMMA Invariance == Spec => []IInv
BY InitIInv, NextIInv, PTL DEF Spec

\* The state of engine, queue, handlers and terminals stays well-typed.
THEOREM TypeCorrect == Spec => []TypeOK
<1>1. IInv => TypeOK
  BY DEF IInv
<1> QED
  BY <1>1, Invariance, PTL

\* Whatever is lost, delayed or overlaps, a terminal only ever holds,
\* dispatches and acknowledges rows a poll claimed for it.
THEOREM TransitCorrect == Spec => []OnlyClaimedInTransit
<1>1. IInv => OnlyClaimedInTransit
  BY DEF IInv
<1> QED
  BY <1>1, Invariance, PTL

\* At-least-once delivery: ACKED means dispatched, and every order placed
\* answers a signal that was dispatched.
THEOREM AtLeastOnce == Spec => []AckedWasDispatched
<1>1. IInv => AckedWasDispatched
  BY DEF IInv
<1> QED
  BY <1>1, Invariance, PTL

-----------------------------------------------------------------------------
(* Action properties.                                                      *)

\* Orders are placed by ExecuteSignal only.
LEMMA FillsStep ==
    ASSUME Next, fills' # fills
    PROVE  \E d \in Devices : \E i \in ea[d].inbox : ExecuteSignal(d, i)
<1> USE DEF engineVars, accountVars, terminalVars
<1>1. ~EngineNext
  BY DEF EngineNext, Broadcast, Enqueue, EnqueueFails, ActivateHalt, QueueCommand,
         Resume, EngineRestart
<1>2. ~WorldNext
  BY DEF WorldNext, SetStanding, SetPlan, GoOffline, TtlPasses, FlightStale
<1>3. ~ServerNext
  <2>1. \A d \in Devices, c \in Conns :
           ~(DeadLetter(d, c) \/ Reclaim(d, c) \/ ExpireTtl(d, c) \/ Entitle(d, c))
    BY DEF DeadLetter, Reclaim, ExpireTtl, Entitle, Statement
  <2>2. \A d \in Devices, c \in Conns :
           ~(StartPoll(d, c) \/ Claim(d, c) \/ Respond(d, c) \/ PollFails(d, c))
    BY DEF StartPoll, Claim, Respond, PollFails
  <2>3. \A d \in Devices : ~Heartbeat(d) /\ \A i \in acks[d] : ~Ack(d, i) /\ ~AckLost(d, i)
    BY DEF Heartbeat, Ack, AckLost
  <2>4. \A p \in Peers : ~(SweepTtl(p) \/ SweepOffline(p) \/ SweepFails(p))
    BY DEF SweepTtl, SweepOffline, SweepFails
  <2> QED
    BY <2>1, <2>2, <2>3, <2>4 DEF ServerNext
<1> QED
  BY <1>1, <1>2, <1>3 DEF Next, TerminalNext, PollTimeout, SkipSignal, HandleCommand,
                          EADeinit, EAInit

\* No order is ever placed for a signal past its ExpiresAt.
THEOREM NoStale == Spec => NoStaleExecution
<1> DEFINE A == \A d \in Devices, s \in Signals : fills'[d][s] # fills[d][s] => s \notin expired
<1>1. IInv /\ [Next]_vars => [A]_vars
  <2> SUFFICES ASSUME IInv, Next PROVE A
    OBVIOUS
  <2> SUFFICES ASSUME fills' # fills PROVE A
    OBVIOUS
  <2>1. PICK d \in Devices : \E i \in ea[d].inbox : ExecuteSignal(d, i)
    BY FillsStep
  <2>2. PICK i \in ea[d].inbox : ExecuteSignal(d, i)
    BY <2>1
  <2>3. fills \in [Devices -> [Signals -> Nat]]
    BY DEF IInv, TypeOK, TerminalTypeOK
  <2> QED
    BY <2>2, <2>3 DEF ExecuteSignal, MayExecute
<1> QED
  BY <1>1, Invariance, PTL DEF Spec, NoStaleExecution

\* The steps that touch the memory of an EA.
LEMMA EAStep ==
    ASSUME TypeOK, Next, ea' # ea
    PROVE  \E d \in Devices :
              \/ \E c \in Conns : StartPoll(d, c) \/ Respond(d, c) \/ PollFails(d, c)
              \/ PollTimeout(d)
              \/ \E i \in ea[d].inbox :
                    ExecuteSignal(d, i) \/ SkipSignal(d, i) \/ HandleCommand(d, i)
              \/ EADeinit(d)
              \/ EAInit(d)
<1> USE DEF engineVars, accountVars, terminalVars
<1>1. ~EngineNext
  BY DEF EngineNext, Broadcast, Enqueue, EnqueueFails, ActivateHalt, QueueCommand,
         Resume, EngineRestart
<1>2. ~WorldNext
  BY DEF WorldNext, SetStanding, SetPlan, GoOffline, TtlPasses, FlightStale
<1>3. \A d \in Devices, c \in Conns :
         ~(DeadLetter(d, c) \/ Reclaim(d, c) \/ ExpireTtl(d, c) \/ Entitle(d, c)
             \/ Claim(d, c))
  BY DEF DeadLetter, Reclaim, ExpireTtl, Entitle, Statement, Claim
<1>4. \A d \in Devices : ~Heartbeat(d) /\ \A i \in acks[d] : ~Ack(d, i) /\ ~AckLost(d, i)
  BY DEF Heartbeat, Ack, AckLost
<1>5. \A p \in Peers : ~(SweepTtl(p) \/ SweepOffline(p) \/ SweepFails(p))
  BY DEF SweepTtl, SweepOffline, SweepFails
<1>6. CASE ServerNext
  BY <1>3, <1>4, <1>5, <1>6 DEF ServerNext
<1>7. CASE TerminalNext
  BY <1>7 DEF TerminalNext
<1> QED
  BY <1>1, <1>2, <1>6, <1>7 DEF Next

\* A halted terminal places no order, and stays halted through restarts
\* until OnInit runs with ReEnableAfterHalt.
THEOREM HaltHolds == Spec => HaltLatched
<1> DEFINE A(d) == ea[d].halted =>
                      /\ fills'[d] = fills[d]
                      /\ ea'[d].halted \/ (~ea[d].up /\ ea'[d].reenable)
           B == \A d \in Devices : A(d)
<1>1. IInv /\ [Next]_vars => [B]_vars
  <2> SUFFICES ASSUME IInv, Next, NEW d \in Devices, ea[d].halted PROVE A(d)
    OBVIOUS
  <2>t. /\ ea \in [Devices -> EAState]
        /\ fills \in [Devices -> [Signals -> Nat]]
    BY DEF IInv, TypeOK, TerminalTypeOK
  <2>1. fills'[d] = fills[d]
    <3>1. CASE fills' = fills
      BY <3>1
    <3>2. CASE fills' # fills
      <4>1. PICK e \in Devices : \E i \in ea[e].inbox : ExecuteSignal(e, i)
        BY <3>2, FillsStep
      <4>2. ~ea[e].halted /\ \E s : fills' = [fills EXCEPT ![e][s] = @ + 1]
        BY <4>1 DEF ExecuteSignal, MayExecute
      <4> QED
        BY <2>t, <4>2
    <3> QED
      BY <3>1, <3>2
  <2>2. ea'[d].halted \/ (~ea[d].up /\ ea'[d].reenable)
    <3>1. CASE ea' = ea
      BY <3>1
    <3>2. CASE ea' # ea
      <4>1. PICK e \in Devices :
              \/ \E c \in Conns : StartPoll(e, c) \/ Respond(e, c) \/ PollFails(e, c)
              \/ PollTimeout(e)
              \/ \E i \in ea[e].inbox :
                    ExecuteSignal(e, i) \/ SkipSignal(e, i) \/ HandleCommand(e, i)
              \/ EADeinit(e)
              \/ EAInit(e)
        BY <3>2, EAStep DEF IInv
      <4>2. ea[d] \in EAState
        BY <2>t
      <4>3. CASE \E c \in Conns : StartPoll(e, c) \/ Respond(e, c) \/ PollFails(e, c)
        <5> PICK c \in Conns : StartPoll(e, c) \/ Respond(e, c) \/ PollFails(e, c)
          BY <4>3
        <5>1. CASE StartPoll(e, c)
          BY <2>t, <4>2, <5>1 DEF StartPoll, EAState
        <5>2. CASE PollFails(e, c)
          BY <2>t, <3>2, <4>2, <5>2 DEF PollFails, EAState
        <5>3. CASE Respond(e, c)
          <6> DEFINE f == [ea[e] EXCEPT !.wait = NoConn, !.inbox = handler[e][c].batch]
          <6>1. f.halted = ea[e].halted
            BY <2>t DEF EAState
          <6>2. ea' = [ea EXCEPT ![e] = f]
            BY <3>2, <5>3 DEF Respond
          <6> HIDE DEF f
          <6> QED
            BY <2>t, <6>1, <6>2
        <5> QED
          BY <5>1, <5>2, <5>3
      <4>4. CASE PollTimeout(e) \/ EADeinit(e)
        <5>1. CASE PollTimeout(e)
          BY <2>t, <4>2, <5>1 DEF PollTimeout, EAState
        <5>2. CASE EADeinit(e)
          <6> DEFINE f == [ea[e] EXCEPT !.up = FALSE, !.inbox = {}, !.wait = NoConn,
                                        !.last = NoSignal]
          <6>1. f.halted = ea[e].halted
            BY <2>t DEF EAState
          <6>2. ea' = [ea EXCEPT ![e] = f]
            BY <5>2 DEF EADeinit
          <6> HIDE DEF f
          <6> QED
            BY <2>t, <6>1, <6>2
        <5> QED
          BY <4>4, <5>1, <5>2
      <4>5. CASE \E i \in ea[e].inbox :
                    ExecuteSignal(e, i) \/ SkipSignal(e, i) \/ HandleCommand(e, i)
        <5> PICK i \in ea[e].inbox :
               ExecuteSignal(e, i) \/ SkipSignal(e, i) \/ HandleCommand(e, i)
          BY <4>5
        <5>1. CASE ExecuteSignal(e, i) \/ SkipSignal(e, i)
          BY <2>t, <4>2, <5>1 DEF ExecuteSignal, SkipSignal, EAState
        <5>2. CASE HandleCommand(e, i)
          <6> DEFINE u == ea[e].up /\ queue[e][i].item # "KILL_SWITCH"
                     f == [ea[e] EXCEPT !.inbox = @ \ {i}, !.halted = TRUE, !.up = u]
          <6>1. ea' = [ea EXCEPT ![e] = f]
            BY <5>2 DEF HandleCommand
          <6> HIDE DEF u
          <6>2. f.halted = TRUE
            BY <2>t DEF EAState
          <6> HIDE DEF f
          <6> QED
            BY <2>t, <6>1, <6>2
        <5> QED
          BY <5>1, <5>2
      <4>6. CASE EAInit(e)
        <5>1. PICK r \in BOOLEAN :
                 ea' = [ea EXCEPT ![e] = [FreshEA EXCEPT !.halted = ea[e].halted /\ ~r,
                                                         !.reenable = r]]
          BY <4>6 DEF EAInit
        <5> DEFINE f == [FreshEA EXCEPT !.halted = ea[e].halted /\ ~r, !.reenable = r]
        <5>2. f.halted = (ea[e].halted /\ ~r) /\ f.reenable = r
          BY DEF FreshEA
        <5>3. ea' = [ea EXCEPT ![e] = f]
          BY <5>1
        <5>4. ~ea[e].up
          BY <4>6 DEF EAInit
        <5> HIDE DEF f
        <5>5. CASE e = d
          BY <2>t, <5>2, <5>3, <5>4, <5>5
        <5>6. CASE e # d
          BY <2>t, <5>3, <5>6
        <5> QED
          BY <5>5, <5>6
      <4> QED
        BY <4>1, <4>3, <4>4, <4>5, <4>6
    <3> QED
      BY <3>1, <3>2
  <2> QED
    BY <2>1, <2>2
<1> QED
  BY <1>1, Invariance, PTL DEF Spec, HaltLatched

-----------------------------------------------------------------------------
(***************************************************************************)
(* When the polls of a device do not overlap, no poll hands out a signal   *)
(* that the plan has excluded ever since its request was verified.  The    *)
(* claim statement of poll does not repeat the entitlement condition: the  *)
(* argument is that between the two statements of one poll a row becomes   *)
(* PENDING only by an insert, which tests the plan itself.                 *)
(***************************************************************************)

\* One request at a time: the table q, the request h and the plan P.
Clean(q, h, P) ==
    /\ h.denied \cap P = {}
    /\ h.pc = "claim" => \A i \in RowsOf(q, "PENDING") : q[i].item \notin h.denied
    /\ \A i \in h.batch : q[i].item \notin h.denied

CleanInv == \A d \in Devices, c \in Conns : Clean(queue[d], handler[d][c], plan[d])

\* The table r follows q without opening a row of a signal outside the plan P.
NoneOpened(q, r, P) ==
    /\ DOMAIN q \subseteq DOMAIN r
    /\ \A i \in DOMAIN q : r[i].item = q[i].item
    /\ \A i \in DOMAIN r : r[i].st = "PENDING" =>
          \/ i \in DOMAIN q /\ q[i].st = "PENDING"
          \/ r[i].item \in P
          \/ r[i].item \notin Signals

\* A request stays clean over a table that opens no row outside the plan.
LEMMA CleanFrame ==
    ASSUME NEW q, NEW r, NEW P, NEW h \in HandlerState, h.batch \subseteq DOMAIN q,
           Clean(q, h, P), NoneOpened(q, r, P)
    PROVE  Clean(r, h, P)
<1>1. h.denied \subseteq Signals
  BY DEF HandlerState
<1>2. h.denied \cap P = {}
  BY DEF Clean
<1>3. ASSUME h.pc = "claim", NEW i \in RowsOf(r, "PENDING") PROVE r[i].item \notin h.denied
  <2>1. i \in DOMAIN r /\ r[i].st = "PENDING"
    BY <1>3 DEF RowsOf
  <2>2. CASE i \in DOMAIN q /\ q[i].st = "PENDING"
    BY <1>3, <2>2 DEF Clean, NoneOpened, RowsOf
  <2>3. CASE r[i].item \in P \/ r[i].item \notin Signals
    BY <1>1, <1>2, <2>3
  <2>4. QED
    BY <2>1, <2>2, <2>3 DEF NoneOpened
<1>4. ASSUME NEW i \in h.batch PROVE r[i].item \notin h.denied
  BY <1>4 DEF Clean, NoneOpened
<1>5. QED
  BY <1>2, <1>3, <1>4 DEF Clean

\* An unchanged table opens nothing.
LEMMA SameOpened == ASSUME NEW q, NEW P PROVE NoneOpened(q, q, P)
  BY DEF NoneOpened

\* A statement that closes rows opens nothing.
LEMMA SetStatusOpened ==
    ASSUME NEW q \in Seq(Row), NEW I, NEW st \in Statuses, st # "PENDING", NEW P
    PROVE  NoneOpened(q, SetStatus(q, I, st), P)
  BY SetStatusRows DEF NoneOpened

\* The claim opens nothing.
LEMMA ClaimOpened ==
    ASSUME NEW q \in Seq(Row), NEW I, NEW P
    PROVE  NoneOpened(q, ClaimRows(q, I), P)
  BY ClaimRowsRows DEF NoneOpened

\* An insert opens a row of an entitled signal or of a command.
LEMMA AppendOpened ==
    ASSUME NEW q \in Seq(Row), NEW m \in Items, NEW P, m \in P \/ m \notin Signals
    PROVE  NoneOpened(q, Append(q, NewRow(m)), P)
<1>1. NewRow(m).item = m
  BY DEF NewRow
<1>2. QED
  BY <1>1, AppendRows DEF NoneOpened

\* A step that leaves requests and plans alone.
LEMMA TableStep ==
    ASSUME IInv, CleanInv, handler' = handler, plan' = plan,
           \A d \in Devices : NoneOpened(queue[d], queue'[d], plan[d])
    PROVE  CleanInv'
<1> SUFFICES ASSUME NEW d \in Devices, NEW c \in Conns
             PROVE  Clean(queue'[d], handler[d][c], plan[d])
  BY DEF CleanInv
<1>1. handler[d][c] \in HandlerState
  BY DEF IInv, TypeOK, ServerTypeOK
<1>2. handler[d][c].batch \subseteq DOMAIN queue[d]
  BY DEF IInv, OnlyClaimedInTransit, Claimed
<1>3. Clean(queue[d], handler[d][c], plan[d]) /\ NoneOpened(queue[d], queue'[d], plan[d])
  BY DEF CleanInv
<1>4. QED
  BY <1>1, <1>2, <1>3, CleanFrame

\* A step that leaves requests, plans and tables alone.
LEMMA QuietStep ==
    ASSUME IInv, CleanInv, handler' = handler, plan' = plan, queue' = queue
    PROVE  CleanInv'
  BY DEF CleanInv

-----------------------------------------------------------------------------
\* Inserts test the plan, so the engine's steps keep requests clean.
LEMMA EngineClean == IInv /\ CleanInv /\ EngineNext => CleanInv'
<1> SUFFICES ASSUME IInv, CleanInv, EngineNext PROVE CleanInv'
  OBVIOUS
<1>0. queue \in [Devices -> Seq(Row)]
  BY DEF IInv, TypeOK, ServerTypeOK
<1>1. ASSUME NEW s \in Signals, Enqueue(s) PROVE CleanInv'
  <2>1. handler' = handler /\ plan' = plan
    BY <1>1 DEF Enqueue, accountVars
  <2>2. ASSUME NEW d \in Devices PROVE NoneOpened(queue[d], queue'[d], plan[d])
    <3>1. \/ queue'[d] = queue[d]
          \/ queue'[d] = Append(queue[d], NewRow(s)) /\ s \in plan[d]
      BY <1>1, <2>2 DEF Enqueue, Entitled
    <3>2. queue[d] \in Seq(Row) /\ s \in Items
      BY <1>0, <2>2 DEF Items
    <3>3. QED
      BY <3>1, <3>2, SameOpened, AppendOpened
  <2>3. QED
    BY <2>1, <2>2, TableStep
<1>2. ASSUME NEW m \in Commands, QueueCommand(m) PROVE CleanInv'
  <2>1. handler' = handler /\ plan' = plan
    BY <1>2 DEF QueueCommand, accountVars
  <2>2. ASSUME NEW d \in Devices PROVE NoneOpened(queue[d], queue'[d], plan[d])
    <3>1. queue'[d] = queue[d] \/ queue'[d] = Append(queue[d], NewRow(m))
      BY <1>2, <2>2 DEF QueueCommand
    <3>2. queue[d] \in Seq(Row) /\ m \in Items /\ m \notin Signals
      BY <1>0, <1>2, <2>2, ConstantsAssumption DEF Items
    <3>3. QED
      BY <3>1, <3>2, SameOpened, AppendOpened
  <2>3. QED
    BY <2>1, <2>2, TableStep
<1>3. CASE \/ \E s \in Signals : Broadcast(s) \/ EnqueueFails(s)
           \/ \E m \in Commands : ActivateHalt(m)
           \/ Resume
           \/ EngineRestart
  <2>1. handler' = handler /\ plan' = plan /\ queue' = queue
    BY <1>3 DEF Broadcast, EnqueueFails, ActivateHalt, Resume, EngineRestart, accountVars
  <2>2. QED
    BY <2>1, QuietStep
<1>4. QED
  BY <1>1, <1>2, <1>3 DEF EngineNext

\* A plan change takes what it grants out of every request's denied signals.
LEMMA WorldClean == IInv /\ CleanInv /\ WorldNext => CleanInv'
<1> SUFFICES ASSUME IInv, CleanInv, WorldNext PROVE CleanInv'
  OBVIOUS
<1>0. /\ queue \in [Devices -> Seq(Row)]
      /\ handler \in [Devices -> [Conns -> HandlerState]]
      /\ plan \in [Devices -> Plans]
  BY DEF IInv, TypeOK, ServerTypeOK, WorldTypeOK
<1>1. ASSUME NEW d \in Devices, SetPlan(d) PROVE CleanInv'
  <2>1. PICK P \in Plans :
           /\ plan' = [plan EXCEPT ![d] = P]
           /\ handler' = [handler EXCEPT ![d] =
                            [c \in Conns |-> [handler[d][c] EXCEPT !.denied = @ \ P]]]
           /\ queue' = queue
    BY <1>1 DEF SetPlan
  <2>2. ASSUME NEW e \in Devices, NEW c \in Conns
        PROVE  Clean(queue'[e], handler'[e][c], plan'[e])
    <3> DEFINE h == handler[e][c]
    <3>1. h \in HandlerState /\ Clean(queue[e], h, plan[e])
      BY <1>0, <2>2 DEF CleanInv
    <3>2. CASE e = d
      <4> DEFINE g == [h EXCEPT !.denied = @ \ P]
      <4>1. handler'[e][c] = g /\ plan'[e] = P
        BY <1>0, <2>1, <2>2, <3>2
      <4>2. g.pc = h.pc /\ g.batch = h.batch /\ g.denied = h.denied \ P
        BY <3>1 DEF HandlerState
      <4> HIDE DEF h, g
      <4>3. QED
        BY <2>1, <3>1, <4>1, <4>2 DEF Clean
    <3>3. CASE e # d
      BY <1>0, <2>1, <2>2, <3>1, <3>3
    <3>4. QED
      BY <3>2, <3>3
  <2>3. QED
    BY <2>2 DEF CleanInv
<1>2. ASSUME NEW d \in Devices, NEW i \in DOMAIN queue[d], FlightStale(d, i) PROVE CleanInv'
  <2>1. handler' = handler /\ plan' = plan
    BY <1>2 DEF FlightStale, accountVars
  <2>2. ASSUME NEW e \in Devices PROVE NoneOpened(queue[e], queue'[e], plan[e])
    <3>1. CASE e = d
      <4>1. queue'[d] = [j \in DOMAIN queue[d] |->
                           IF j = i THEN [queue[d][j] EXCEPT !.stale = TRUE]
                           ELSE queue[d][j]]
        BY <1>0, <1>2 DEF FlightStale
      <4>2. \A j \in DOMAIN queue[d] : queue[d][j] \in Row
        BY <1>0, <1>2
      <4>3. \A j \in DOMAIN queue[d] :
               queue'[d][j].item = queue[d][j].item /\ queue'[d][j].st = queue[d][j].st
        BY <4>1, <4>2 DEF Row
      <4>4. DOMAIN queue'[d] = DOMAIN queue[d]
        BY <4>1
      <4>5. QED
        BY <3>1, <4>3, <4>4 DEF NoneOpened
    <3>2. CASE e # d
      <4>1. queue'[e] = queue[e]
        BY <1>0, <1>2, <2>2, <3>2 DEF FlightStale
      <4>2. QED
        BY <4>1, SameOpened
    <3>3. QED
      BY <3>1, <3>2
  <2>3. QED
    BY <2>1, <2>2, TableStep
<1>3. CASE \/ \E d \in Devices : SetStanding(d) \/ GoOffline(d)
           \/ \E s \in Signals : TtlPasses(s)
  <2>1. handler' = handler /\ plan' = plan /\ queue' = queue
    BY <1>3 DEF SetStanding, GoOffline, TtlPasses, accountVars
  <2>2. QED
    BY <2>1, QuietStep
<1>4. QED
  BY <1>1, <1>2, <1>3 DEF WorldNext

-----------------------------------------------------------------------------
(* The statements of a poll, when a device has one request at a time.      *)

OneRequest == \A c1, c2 \in Conns : c1 = c2

\* A step of the request of d: the others keep their table, request and plan.
LEMMA RequestStep ==
    ASSUME OneRequest, IInv, CleanInv, plan' = plan, NEW d \in Devices, NEW c \in Conns,
           NEW g, handler' = [handler EXCEPT ![d][c] = g],
           \A e \in Devices \ {d} : queue'[e] = queue[e],
           Clean(queue'[d], g, plan[d])
    PROVE  CleanInv'
<1> SUFFICES ASSUME NEW e \in Devices, NEW b \in Conns
             PROVE  Clean(queue'[e], handler'[e][b], plan[e])
  BY DEF CleanInv
<1>0. handler \in [Devices -> [Conns -> HandlerState]]
  BY DEF IInv, TypeOK, ServerTypeOK
<1>1. CASE e = d
  <2>1. b = c
    BY DEF OneRequest
  <2>2. QED
    BY <1>0, <1>1, <2>1
<1>2. CASE e # d
  <2>1. handler'[e][b] = handler[e][b] /\ queue'[e] = queue[e]
    BY <1>0, <1>2
  <2>2. QED
    BY <2>1 DEF CleanInv
<1>3. QED
  BY <1>1, <1>2

\* An update of the table by a request that goes on, not yet to its claim.
LEMMA StatementClean ==
    ASSUME OneRequest, IInv, CleanInv, NEW d \in Devices, NEW c \in Conns, NEW from,
           NEW to \in Steps, NEW I, NEW st \in Statuses, Statement(d, c, from, to, I, st),
           to = "claim" => \A i \in DOMAIN queue[d] \ I :
              queue[d][i].st = "PENDING" => queue[d][i].item \notin handler[d][c].denied,
           to = "claim" => st # "PENDING"
    PROVE  CleanInv'
<1> DEFINE h == handler[d][c]
           g == [h EXCEPT !.pc = to]
           q == queue[d]
           r == SetStatus(q, I, st)
<1>0. /\ queue \in [Devices -> Seq(Row)]
      /\ handler \in [Devices -> [Conns -> HandlerState]]
  BY DEF IInv, TypeOK, ServerTypeOK
<1>1. h \in HandlerState /\ q \in Seq(Row) /\ Clean(q, h, plan[d])
  BY <1>0 DEF CleanInv
<1>2. g.pc = to /\ g.batch = h.batch /\ g.denied = h.denied
  BY <1>1 DEF HandlerState
<1>3. /\ plan' = plan
      /\ queue'[d] = r
      /\ \A e \in Devices \ {d} : queue'[e] = queue[e]
      /\ handler' = [handler EXCEPT ![d][c] = g]
  BY <1>0 DEF Statement, accountVars
<1>4. h.batch \subseteq DOMAIN q
  BY DEF IInv, OnlyClaimedInTransit, Claimed
<1>5. /\ DOMAIN r = DOMAIN q
      /\ \A i \in DOMAIN q : r[i].item = q[i].item
      /\ \A i \in DOMAIN q : r[i].st = IF i \in I THEN st ELSE q[i].st
  BY <1>1, SetStatusRows
<1> HIDE DEF g, r
<1>6. Clean(r, g, plan[d])
  <2>1. g.denied \cap plan[d] = {}
    BY <1>1, <1>2 DEF Clean
  <2>2. \A i \in g.batch : r[i].item \notin g.denied
    BY <1>1, <1>2, <1>4, <1>5 DEF Clean
  <2>3. ASSUME g.pc = "claim", NEW i \in RowsOf(r, "PENDING")
        PROVE  r[i].item \notin g.denied
    <3>1. i \in DOMAIN q /\ i \notin I /\ q[i].st = "PENDING"
      BY <1>2, <1>5, <2>3 DEF RowsOf
    <3>2. QED
      BY <1>2, <1>5, <2>3, <3>1
  <2>4. QED
    BY <2>1, <2>2, <2>3 DEF Clean
<1>7. QED
  BY <1>3, <1>6, RequestStep

\* The statements of the poll, in their order, acknowledgements and sweeps.
LEMMA ServerClean == OneRequest /\ IInv /\ CleanInv /\ ServerNext => CleanInv'
<1> SUFFICES ASSUME OneRequest, IInv, CleanInv, ServerNext PROVE CleanInv'
  OBVIOUS
<1>0. /\ queue \in [Devices -> Seq(Row)]
      /\ handler \in [Devices -> [Conns -> HandlerState]]
  BY DEF IInv, TypeOK, ServerTypeOK
<1>1. ASSUME NEW d \in Devices, NEW c \in Conns, StartPoll(d, c) PROVE CleanInv'
  <2> DEFINE g == [pc |-> "deadletter", batch |-> {}, denied |-> Signals \ plan[d]]
  <2>1. handler' = [handler EXCEPT ![d][c] = g] /\ queue' = queue /\ plan' = plan
    BY <1>1 DEF StartPoll, accountVars
  <2>2. Clean(queue'[d], g, plan[d])
    BY DEF Clean
  <2> HIDE DEF g
  <2>3. QED
    BY <1>1, <2>1, <2>2, RequestStep
<1>2. ASSUME NEW d \in Devices, NEW c \in Conns, DeadLetter(d, c) PROVE CleanInv'
  BY <1>2, StatementClean DEF DeadLetter, Steps, Statuses
<1>3. ASSUME NEW d \in Devices, NEW c \in Conns, Reclaim(d, c) PROVE CleanInv'
  BY <1>3, StatementClean DEF Reclaim, Steps, Statuses
<1>4. ASSUME NEW d \in Devices, NEW c \in Conns, ExpireTtl(d, c) PROVE CleanInv'
  BY <1>4, StatementClean DEF ExpireTtl, Steps, Statuses
<1>5. ASSUME NEW d \in Devices, NEW c \in Conns, Entitle(d, c) PROVE CleanInv'
  <2>1. ASSUME NEW i \in DOMAIN queue[d] \ Unentitled(d), queue[d][i].st = "PENDING"
        PROVE  queue[d][i].item \notin handler[d][c].denied
    <3>1. queue[d][i].item \notin Signals \/ queue[d][i].item \in plan[d]
      BY <2>1 DEF Unentitled, Entitled, RowsOf
    <3>2. handler[d][c].denied \subseteq Signals
      BY <1>0, <1>5 DEF HandlerState
    <3>3. handler[d][c].denied \cap plan[d] = {}
      BY <1>5 DEF CleanInv, Clean
    <3>4. QED
      BY <3>1, <3>2, <3>3
  <2>2. QED
    BY <1>5, <2>1, StatementClean DEF Entitle, Steps, Statuses
<1>6. ASSUME NEW d \in Devices, NEW c \in Conns, Claim(d, c) PROVE CleanInv'
  <2> DEFINE h == handler[d][c]
             q == queue[d]
             I == NextBatch(q)
             g == [h EXCEPT !.pc = "respond", !.batch = I]
             r == ClaimRows(q, I)
  <2>1. h \in HandlerState /\ q \in Seq(Row) /\ Clean(q, h, plan[d]) /\ h.pc = "claim"
    BY <1>0, <1>6 DEF CleanInv, Claim
  <2>2. g.pc = "respond" /\ g.batch = I /\ g.denied = h.denied
    BY <2>1 DEF HandlerState
  <2>3. /\ plan' = plan /\ queue'[d] = r
        /\ \A e \in Devices \ {d} : queue'[e] = queue[e]
        /\ handler' = [handler EXCEPT ![d][c] = g]
    BY <1>0, <1>6 DEF Claim, accountVars
  <2>4. \A i \in DOMAIN q : r[i].item = q[i].item
    BY <2>1, ClaimRowsRows
  <2>5. I \subseteq RowsOf(q, "PENDING") /\ I \subseteq DOMAIN q
    BY DEF NextBatch, RowsOf
  <2> HIDE DEF g, r, I
  <2>6. Clean(r, g, plan[d])
    BY <2>1, <2>2, <2>4, <2>5 DEF Clean
  <2>7. QED
    BY <1>6, <2>3, <2>6, RequestStep
<1>7. ASSUME NEW d \in Devices, NEW c \in Conns, Respond(d, c) \/ PollFails(d, c)
      PROVE  CleanInv'
  <2>1. handler' = [handler EXCEPT ![d][c] = IdleHandler] /\ queue' = queue /\ plan' = plan
    BY <1>7 DEF Respond, PollFails, accountVars
  <2>2. Clean(queue'[d], IdleHandler, plan[d])
    BY DEF Clean, IdleHandler
  <2>3. QED
    BY <1>7, <2>1, <2>2, RequestStep
<1>8. ASSUME NEW d \in Devices, NEW i \in acks[d], Ack(d, i) PROVE CleanInv'
  <2>1. handler' = handler /\ plan' = plan
    BY <1>8 DEF Ack, accountVars
  <2>2. ASSUME NEW e \in Devices PROVE NoneOpened(queue[e], queue'[e], plan[e])
    <3>1. queue'[e] = queue[e] \/ queue'[e] = SetStatus(queue[e], {i}, "ACKED")
      BY <1>0, <1>8, <2>2 DEF Ack
    <3>2. QED
      BY <1>0, <2>2, <3>1, SameOpened, SetStatusOpened DEF Statuses
  <2>3. QED
    BY <2>1, <2>2, TableStep
<1>9. ASSUME NEW p \in Peers, SweepTtl(p) \/ SweepOffline(p) PROVE CleanInv'
  <2>1. handler' = handler /\ plan' = plan
    BY <1>9 DEF SweepTtl, SweepOffline, accountVars
  <2>2. ASSUME NEW e \in Devices PROVE NoneOpened(queue[e], queue'[e], plan[e])
    <3>1. \/ queue'[e] = queue[e]
          \/ queue'[e] = SetStatus(queue[e], PastTtl(queue[e]), "EXPIRED")
          \/ queue'[e] = SetStatus(queue[e], RowsOf(queue[e], "PENDING"), "EXPIRED")
      BY <1>9, <2>2 DEF SweepTtl, SweepOffline
    <3>2. QED
      BY <1>0, <2>2, <3>1, SameOpened, SetStatusOpened DEF Statuses
  <2>3. QED
    BY <2>1, <2>2, TableStep
<1>10. CASE \/ \E d \in Devices : Heartbeat(d) \/ \E i \in acks[d] : AckLost(d, i)
            \/ \E p \in Peers : SweepFails(p)
  <2>1. handler' = handler /\ plan' = plan /\ queue' = queue
    BY <1>10 DEF Heartbeat, AckLost, SweepFails, accountVars
  <2>2. QED
    BY <2>1, QuietStep
<1>11. QED
  BY <1>1, <1>2, <1>3, <1>4, <1>5, <1>6, <1>7, <1>8, <1>9, <1>10 DEF ServerNext

\* The terminal touches neither tables, plans nor requests.
LEMMA TerminalClean == IInv /\ CleanInv /\ TerminalNext => CleanInv'
<1> SUFFICES ASSUME IInv, CleanInv, TerminalNext PROVE CleanInv'
  OBVIOUS
<1>1. handler' = handler /\ plan' = plan /\ queue' = queue
  <2>1. PICK d \in Devices :
           \/ PollTimeout(d) \/ EADeinit(d) \/ EAInit(d)
           \/ \E i \in ea[d].inbox :
                 ExecuteSignal(d, i) \/ SkipSignal(d, i) \/ HandleCommand(d, i)
    BY DEF TerminalNext
  <2>2. CASE PollTimeout(d)
    BY <2>2 DEF PollTimeout, accountVars
  <2>3. CASE EADeinit(d)
    BY <2>3 DEF EADeinit, accountVars
  <2>4. CASE EAInit(d)
    BY <2>4 DEF EAInit, accountVars
  <2>5. ASSUME NEW i \in ea[d].inbox,
               ExecuteSignal(d, i) \/ SkipSignal(d, i) \/ HandleCommand(d, i)
        PROVE  handler' = handler /\ plan' = plan /\ queue' = queue
    <3>1. Dispatch(d, i)
      BY <2>5 DEF ExecuteSignal, SkipSignal, HandleCommand
    <3>2. QED
      BY <3>1 DEF Dispatch, accountVars
  <2>6. QED
    BY <2>1, <2>2, <2>3, <2>4, <2>5
<1>2. QED
  BY <1>1, QuietStep

\* For any number of devices, signals, plans and failures: if the polls of a
\* device do not overlap, no poll hands out a signal that its plan has excluded
\* ever since the request was verified, wherever between the statements the
\* plan changes, signals are queued and sweeps run.
THEOREM EntitledDelivery ==
    ASSUME OneRequest
    PROVE  Spec => []BatchEntitled
<1>1. Init => CleanInv
  BY DEF Init, CleanInv, Clean, IdleHandler
<1>2. IInv /\ CleanInv /\ [Next]_vars => CleanInv'
  <2> SUFFICES ASSUME IInv, CleanInv, [Next]_vars PROVE CleanInv'
    OBVIOUS
  <2>1. CASE UNCHANGED vars
    <3>1. handler' = handler /\ plan' = plan /\ queue' = queue
      BY <2>1 DEF vars
    <3>2. QED
      BY <3>1, QuietStep
  <2>2. QED
    BY <2>1, EngineClean, WorldClean, ServerClean, TerminalClean DEF Next
<1>3. CleanInv => BatchEntitled
  BY DEF CleanInv, Clean, BatchEntitled
<1>4. QED
  BY <1>1, <1>2, <1>3, Invariance, PTL DEF Spec

-----------------------------------------------------------------------------
(***************************************************************************)
(* EdgeQueue implements EdgeDelivery: a row is open while PENDING or       *)
(* IN_FLIGHT, and handed out once a poll has claimed it.  Inserts are      *)
(* offers, the claim hands out, an acknowledgement acknowledges, and every *)
(* other step closes some open rows as expired or changes nothing.         *)
(***************************************************************************)

\* A step that only expires rows, as the abstract specification sees it.
OnlyExpires(q, r) ==
    /\ r \in Seq(Row)
    /\ DOMAIN r = DOMAIN q
    /\ \A i \in DOMAIN q :
          /\ r[i].att = q[i].att
          /\ \/ ItemState(r[i].st) = ItemState(q[i].st)
             \/ ItemState(q[i].st) = "open" /\ ItemState(r[i].st) = "expired"

\* The abstract view of a table has one item per row.
LEMMA ItemsOfSeq ==
    ASSUME NEW q \in Seq(Row)
    PROVE  /\ ItemsOf(q) \in Seq({"open", "acked", "expired"})
           /\ DOMAIN ItemsOf(q) = DOMAIN q
           /\ \A i \in DOMAIN q : ItemsOf(q)[i] = ItemState(q[i].st)
<1>1. \A st : ItemState(st) \in {"open", "acked", "expired"}
  BY DEF ItemState
<1> HIDE DEF ItemState
<1> QED
  BY <1>1 DEF ItemsOf

\* Such a step on every device is an Expire step.
LEMMA ExpiresRefines ==
    ASSUME TypeOK, queue' = [d \in Devices |-> queue'[d]],
           \A d \in Devices : OnlyExpires(queue[d], queue'[d])
    PROVE  Delivery!Expire
<1>1. \A d \in Devices : queue[d] \in Seq(Row) /\ queue'[d] \in Seq(Row)
  BY DEF TypeOK, ServerTypeOK, OnlyExpires
<1>2. \A d \in Devices :
         /\ ItemsOf(queue[d]) \in Seq({"open", "acked", "expired"})
         /\ ItemsOf(queue'[d]) \in Seq({"open", "acked", "expired"})
         /\ DOMAIN ItemsOf(queue'[d]) = DOMAIN ItemsOf(queue[d])
         /\ \A i \in DOMAIN ItemsOf(queue[d]) :
               \/ ItemsOf(queue'[d])[i] = ItemsOf(queue[d])[i]
               \/ ItemsOf(queue[d])[i] = "open" /\ ItemsOf(queue'[d])[i] = "expired"
  <2> SUFFICES ASSUME NEW d \in Devices
               PROVE  /\ ItemsOf(queue[d]) \in Seq({"open", "acked", "expired"})
                      /\ ItemsOf(queue'[d]) \in Seq({"open", "acked", "expired"})
                      /\ DOMAIN ItemsOf(queue'[d]) = DOMAIN ItemsOf(queue[d])
                      /\ \A i \in DOMAIN ItemsOf(queue[d]) :
                            \/ ItemsOf(queue'[d])[i] = ItemsOf(queue[d])[i]
                            \/ /\ ItemsOf(queue[d])[i] = "open"
                               /\ ItemsOf(queue'[d])[i] = "expired"
    OBVIOUS
  <2>1. OnlyExpires(queue[d], queue'[d])
    OBVIOUS
  <2> QED
    BY <1>1, <2>1, ItemsOfSeq DEF OnlyExpires
<1>3. \A d \in Devices : Claimed(d)' = Claimed(d)
  BY DEF OnlyExpires, Claimed
<1> QED
  BY <1>2, <1>3 DEF Delivery!Expire, Delivery!ItemStates

\* An unchanged table expires nothing.
LEMMA SameOnlyExpires ==
    ASSUME NEW q \in Seq(Row) PROVE OnlyExpires(q, q)
BY DEF OnlyExpires

\* The dead-letter, TTL, entitlement and offline statements close open rows;
\* reclaim turns one kind of open row into the other.
LEMMA SetStatusOnlyExpires ==
    ASSUME NEW q \in Seq(Row), NEW I, NEW st \in {"EXPIRED", "PENDING"},
           I \subseteq RowsOf(q, "PENDING") \cup RowsOf(q, "IN_FLIGHT")
    PROVE  OnlyExpires(q, SetStatus(q, I, st))
<1> DEFINE r == SetStatus(q, I, st)
<1>1. /\ r \in Seq(Row)
      /\ DOMAIN r = DOMAIN q
      /\ \A i \in DOMAIN q :
            /\ r[i].att = q[i].att
            /\ r[i].st = IF i \in I THEN st ELSE q[i].st
  BY SetStatusRows DEF Statuses
<1>2. \A i \in I : q[i].st \in {"PENDING", "IN_FLIGHT"}
  BY DEF RowsOf
<1> HIDE DEF r
<1>3. OnlyExpires(q, r)
  BY <1>1, <1>2 DEF OnlyExpires, ItemState
<1> QED
  BY <1>3 DEF r

\* The passing of 30 seconds is invisible to the abstract view.
LEMMA StaleOnlyExpires ==
    ASSUME NEW q \in Seq(Row), NEW i
    PROVE  OnlyExpires(q, [j \in DOMAIN q |-> IF j = i THEN [q[j] EXCEPT !.stale = TRUE]
                                              ELSE q[j]])
<1> DEFINE r == [j \in DOMAIN q |-> IF j = i THEN [q[j] EXCEPT !.stale = TRUE]
                                    ELSE q[j]]
<1>0. RowsKept(q, r)
  BY StaleKept
<1>1. r \in Seq(Row) /\ DOMAIN r = DOMAIN q
  <2>1. DOMAIN r = DOMAIN q
    OBVIOUS
  <2> HIDE DEF r
  <2> QED
    BY <1>0, <2>1 DEF RowsKept
<1>2. \A j \in DOMAIN q : q[j] \in Row
  BY RowFields
<1>3. \A j \in DOMAIN q : r[j].att = q[j].att /\ r[j].st = q[j].st
  BY <1>2 DEF Row
<1> HIDE DEF r
<1>4. OnlyExpires(q, r)
  BY <1>1, <1>3 DEF OnlyExpires
<1> QED
  BY <1>4 DEF r

\* An insert appends an open item that no device has claimed.
LEMMA AppendItems ==
    ASSUME NEW q \in Seq(Row), NEW m \in Items
    PROVE  /\ ItemsOf(Append(q, NewRow(m))) = Append(ItemsOf(q), "open")
           /\ \A i : (i \in DOMAIN Append(q, NewRow(m)) /\ Append(q, NewRow(m))[i].att > 0)
                    <=> (i \in DOMAIN q /\ q[i].att > 0)
<1> DEFINE r == Append(q, NewRow(m))
<1>1. /\ r \in Seq(Row)
      /\ DOMAIN q \subseteq DOMAIN r
      /\ \A i \in DOMAIN q : r[i] = q[i]
      /\ \A i \in DOMAIN r \ DOMAIN q : i = Len(q) + 1 /\ r[i] = NewRow(m)
      /\ Len(r) = Len(q) + 1
  BY AppendRows
<1>2. NewRow(m).att = 0 /\ ItemState(NewRow(m).st) = "open"
  BY DEF NewRow, ItemState
<1>3. ItemsOf(q) \in Seq({"open", "acked", "expired"}) /\ Len(ItemsOf(q)) = Len(q)
  BY ItemsOfSeq
<1>4. /\ ItemsOf(r) \in Seq({"open", "acked", "expired"})
      /\ Len(ItemsOf(r)) = Len(r)
      /\ \A i \in DOMAIN r : ItemsOf(r)[i] = ItemState(r[i].st)
      /\ \A i \in DOMAIN q : ItemsOf(q)[i] = ItemState(q[i].st)
  <2> HIDE DEF r
  <2>1. /\ ItemsOf(r) \in Seq({"open", "acked", "expired"})
        /\ DOMAIN ItemsOf(r) = DOMAIN r
        /\ \A i \in DOMAIN r : ItemsOf(r)[i] = ItemState(r[i].st)
    BY <1>1, ItemsOfSeq
  <2>2. \A i \in DOMAIN q : ItemsOf(q)[i] = ItemState(q[i].st)
    BY ItemsOfSeq
  <2>3. Len(ItemsOf(r)) = Len(r)
    BY <1>1, <2>1
  <2> QED
    BY <2>1, <2>2, <2>3
<1> HIDE DEF r
<1>5. ItemsOf(r) = Append(ItemsOf(q), "open")
  <2> DEFINE a == Append(ItemsOf(q), "open")
  <2>1. /\ a \in Seq({"open", "acked", "expired"})
        /\ Len(a) = Len(q) + 1
        /\ a[Len(q) + 1] = "open"
        /\ \A i \in 1..Len(q) : a[i] = ItemsOf(q)[i]
    BY <1>3
  <2>2. DOMAIN q = 1..Len(q) /\ DOMAIN r = 1..(Len(q) + 1) /\ Len(q) \in Nat
    BY <1>1
  <2> HIDE DEF a
  <2>3. \A i \in 1..(Len(q) + 1) : ItemsOf(r)[i] = a[i]
    <3> TAKE i \in 1..(Len(q) + 1)
    <3>1. CASE i \in 1..Len(q)
      BY <1>1, <1>4, <2>1, <2>2, <3>1
    <3>2. CASE i = Len(q) + 1
      BY <1>1, <1>2, <1>4, <2>1, <2>2, <3>2
    <3> QED
      BY <2>2, <3>1, <3>2
  <2>4. DOMAIN a = 1..(Len(q) + 1) /\ DOMAIN ItemsOf(r) = 1..(Len(q) + 1)
    BY <1>1, <1>4, <2>1, <2>2
  <2>5. ItemsOf(r) = a
    BY <1>4, <2>1, <2>3, <2>4
  <2> QED
    BY <2>5 DEF a
<1>6. \A i : (i \in DOMAIN r /\ r[i].att > 0) <=> (i \in DOMAIN q /\ q[i].att > 0)
  BY <1>1, <1>2
<1> QED
  BY <1>5, <1>6 DEF r

\* An INSERT for the devices D offers one item to each of them.
LEMMA InsertRefines ==
    ASSUME TypeOK, NEW m \in Items, NEW D \in SUBSET Devices,
           queue' = [d \in Devices |-> IF d \in D THEN Append(queue[d], NewRow(m))
                                      ELSE queue[d]]
    PROVE  Delivery!Offer(D)
<1>1. \A d \in Devices : queue[d] \in Seq(Row)
  BY DEF TypeOK, ServerTypeOK
<1>2. \A d \in Devices :
         ItemsOf(queue'[d]) = IF d \in D THEN Append(ItemsOf(queue[d]), "open")
                              ELSE ItemsOf(queue[d])
  BY <1>1, AppendItems
<1>3. \A d \in Devices : Claimed(d)' = Claimed(d)
  <2> TAKE d \in Devices
  <2>1. \A i : (i \in DOMAIN queue'[d] /\ queue'[d][i].att > 0)
                <=> (i \in DOMAIN queue[d] /\ queue[d][i].att > 0)
    BY <1>1, AppendItems
  <2> QED
    BY <2>1 DEF Claimed
<1> HIDE DEF Claimed, ItemsOf
<1> QED
  BY <1>2, <1>3 DEF Delivery!Offer

\* The claim of a poll hands out its batch.
LEMMA ClaimRefines ==
    ASSUME TypeOK, NEW d \in Devices, NEW c \in Conns, Claim(d, c)
    PROVE  Delivery!HandOut(d, NextBatch(queue[d]))
<1> DEFINE B == NextBatch(queue[d])
           r == ClaimRows(queue[d], B)
<1>1. queue \in [Devices -> Seq(Row)]
  BY DEF TypeOK, ServerTypeOK
<1>2. \A i \in B : i \in DOMAIN queue[d] /\ queue[d][i].st = "PENDING"
  BY DEF NextBatch, RowsOf
<1>3. /\ r \in Seq(Row)
      /\ DOMAIN r = DOMAIN queue[d]
      /\ \A i \in DOMAIN queue[d] :
            /\ r[i].att = IF i \in B THEN queue[d][i].att + 1 ELSE queue[d][i].att
            /\ r[i].st = IF i \in B THEN "IN_FLIGHT" ELSE queue[d][i].st
  BY <1>1, ClaimRowsRows
<1>4. queue' = [queue EXCEPT ![d] = r]
  BY DEF Claim
<1>5. \A i \in DOMAIN queue[d] : queue[d][i].att \in Nat
  BY <1>1, RowFields
<1> HIDE DEF B, r
<1>6. \A e \in Devices : ItemsOf(queue'[e]) = ItemsOf(queue[e])
  <2> TAKE e \in Devices
  <2>1. CASE e = d
    <3>1. \A i \in DOMAIN queue[d] : ItemState(r[i].st) = ItemState(queue[d][i].st)
      BY <1>2, <1>3 DEF ItemState
    <3>2. ItemsOf(r) = ItemsOf(queue[d])
      BY <1>3, <3>1 DEF ItemsOf
    <3> QED
      BY <1>1, <1>4, <2>1, <3>2
  <2>2. CASE e # d
    BY <1>1, <1>4, <2>2
  <2> QED
    BY <2>1, <2>2
<1>7. \A e \in Devices : Claimed(e)' = IF e = d THEN Claimed(d) \cup B ELSE Claimed(e)
  <2> TAKE e \in Devices
  <2>1. CASE e = d
    <3>1. queue'[d] = r
      BY <1>1, <1>4
    <3>2. {i \in DOMAIN r : r[i].att > 0} = Claimed(d) \cup B
      BY <1>2, <1>3, <1>5 DEF Claimed
    <3> QED
      BY <2>1, <3>1, <3>2 DEF Claimed
  <2>2. CASE e # d
    BY <1>1, <1>4, <2>2 DEF Claimed
  <2> QED
    BY <2>1, <2>2
<1>8. \A i \in B : i \in DOMAIN ItemsOf(queue[d]) /\ ItemsOf(queue[d])[i] = "open"
  BY <1>2 DEF ItemsOf, ItemState
<1>9. Delivery!HandOut(d, B)
  BY <1>6, <1>7, <1>8 DEF Delivery!HandOut
<1> QED
  BY <1>9 DEF B

\* An acknowledgement closes an item that was handed out.
LEMMA AckRefines ==
    ASSUME TypeOK, OnlyClaimedInTransit, NEW d \in Devices, NEW i \in acks[d], Ack(d, i)
    PROVE  i \in DOMAIN ItemsOf(queue[d]) /\ Delivery!Acknowledge(d, i)
<1> DEFINE r == SetStatus(queue[d], {i}, "ACKED")
<1>1. queue \in [Devices -> Seq(Row)]
  BY DEF TypeOK, ServerTypeOK
<1>2. i \in Claimed(d) /\ i \in DOMAIN queue[d]
  BY DEF OnlyClaimedInTransit, Claimed
<1>3. /\ r \in Seq(Row)
      /\ DOMAIN r = DOMAIN queue[d]
      /\ \A j \in DOMAIN queue[d] :
            /\ r[j].att = queue[d][j].att
            /\ r[j].st = IF j \in {i} THEN "ACKED" ELSE queue[d][j].st
  BY <1>1, SetStatusRows DEF Statuses
<1>4. queue' = [queue EXCEPT ![d] = r]
  BY DEF Ack
<1> HIDE DEF r
<1>5. ItemsOf(r) = [ItemsOf(queue[d]) EXCEPT ![i] = "acked"]
  BY <1>2, <1>3 DEF ItemsOf, ItemState
<1>6. \A e \in Devices : Claimed(e)' = Claimed(e)
  BY <1>1, <1>3, <1>4 DEF Claimed
<1>7. \A e \in Devices : ItemsOf(queue'[e]) =
         IF e = d THEN [ItemsOf(queue[d]) EXCEPT ![i] = "acked"] ELSE ItemsOf(queue[e])
  BY <1>1, <1>4, <1>5
<1>8. i \in DOMAIN ItemsOf(queue[d])
  BY <1>2 DEF ItemsOf
<1> HIDE DEF Claimed, ItemsOf
<1>9. Delivery!Acknowledge(d, i)
  BY <1>2, <1>6, <1>7, <1>8 DEF Delivery!Acknowledge
<1> QED
  BY <1>8, <1>9

-----------------------------------------------------------------------------
\* A step that leaves the tables alone is a stutter.
LEMMA UnchangedRefines ==
    ASSUME UNCHANGED queue PROVE UNCHANGED Delivery!absVars
BY DEF Delivery!absVars, Claimed, ItemsOf

\* Initial states map to initial states.
LEMMA InitRefines == Init => Delivery!AbsInit
<1> SUFFICES ASSUME Init PROVE Delivery!AbsInit
  OBVIOUS
<1>1. \A d \in Devices : ItemsOf(queue[d]) = << >>
  BY DEF Init, ItemsOf
<1>2. \A d \in Devices : Claimed(d) = {}
  BY DEF Init, Claimed
<1> QED
  BY <1>1, <1>2 DEF Delivery!AbsInit

\* Inserts offer items; the engine's other steps stutter.
LEMMA EngineRefines ==
    ASSUME TypeOK, EngineNext PROVE Delivery!AbsNext \/ UNCHANGED queue
<1> USE DEF engineVars, accountVars, terminalVars
<1>1. ASSUME NEW s \in Signals, Enqueue(s) PROVE Delivery!AbsNext
  <2>1. PICK T \in SUBSET Devices :
          queue' = [d \in Devices |->
                      IF /\ d \in T
                         /\ Entitled(d, s)
                         /\ \A i \in DOMAIN queue[d] : queue[d][i].item # s
                      THEN Append(queue[d], NewRow(s))
                      ELSE queue[d]]
    BY <1>1 DEF Enqueue
  <2> DEFINE D == {d \in Devices : /\ d \in T
                                   /\ Entitled(d, s)
                                   /\ \A i \in DOMAIN queue[d] : queue[d][i].item # s}
  <2>2. queue' = [d \in Devices |-> IF d \in D THEN Append(queue[d], NewRow(s))
                                   ELSE queue[d]]
    BY <2>1
  <2>3. D \in SUBSET Devices /\ s \in Items
    BY DEF Items
  <2> HIDE DEF D
  <2>4. Delivery!Offer(D)
    BY <2>2, <2>3, InsertRefines
  <2> QED
    BY <2>3, <2>4 DEF Delivery!AbsNext
<1>2. ASSUME NEW m \in Commands, QueueCommand(m) PROVE Delivery!AbsNext
  <2>1. PICK C \in SUBSET {d \in Devices : Len(queue[d]) < MaxRows} :
          queue' = [d \in Devices |->
                      IF /\ d \in C
                         /\ standing[d] # "REVOKED"
                         /\ \A i \in DOMAIN queue[d] :
                               queue[d][i].item = m =>
                                  queue[d][i].st \notin {"PENDING", "IN_FLIGHT"}
                      THEN Append(queue[d], NewRow(m))
                      ELSE queue[d]]
    BY <1>2 DEF QueueCommand
  <2> DEFINE D == {d \in Devices : /\ d \in C
                                   /\ standing[d] # "REVOKED"
                                   /\ \A i \in DOMAIN queue[d] :
                                         queue[d][i].item = m =>
                                           queue[d][i].st \notin {"PENDING", "IN_FLIGHT"}}
  <2>2. queue' = [d \in Devices |-> IF d \in D THEN Append(queue[d], NewRow(m))
                                   ELSE queue[d]]
    BY <2>1
  <2>3. D \in SUBSET Devices /\ m \in Items
    BY DEF Items
  <2> HIDE DEF D
  <2>4. Delivery!Offer(D)
    BY <2>2, <2>3, InsertRefines
  <2> QED
    BY <2>3, <2>4 DEF Delivery!AbsNext
<1>3. ASSUME NEW s \in Signals, Broadcast(s) \/ EnqueueFails(s) PROVE UNCHANGED queue
  BY <1>3 DEF Broadcast, EnqueueFails
<1>4. ASSUME NEW m \in Commands, ActivateHalt(m) PROVE UNCHANGED queue
  BY <1>4 DEF ActivateHalt
<1>5. ASSUME Resume \/ EngineRestart PROVE UNCHANGED queue
  BY <1>5 DEF Resume, EngineRestart
<1> QED
  BY <1>1, <1>2, <1>3, <1>4, <1>5 DEF EngineNext

\* Time and account changes stutter or expire nothing.
LEMMA WorldRefines ==
    ASSUME TypeOK, WorldNext PROVE Delivery!AbsNext \/ UNCHANGED queue
<1>1. ASSUME NEW d \in Devices, NEW i \in DOMAIN queue[d], FlightStale(d, i)
      PROVE  Delivery!AbsNext
  <2> DEFINE r == [j \in DOMAIN queue[d] |->
                     IF j = i THEN [queue[d][j] EXCEPT !.stale = TRUE] ELSE queue[d][j]]
  <2>1. queue \in [Devices -> Seq(Row)]
    BY DEF TypeOK, ServerTypeOK
  <2>2. OnlyExpires(queue[d], r)
    BY <2>1, StaleOnlyExpires
  <2>3. queue' = [queue EXCEPT ![d] = r]
    BY <1>1 DEF FlightStale
  <2> HIDE DEF r
  <2>4. \A e \in Devices : OnlyExpires(queue[e], queue'[e])
    BY <2>1, <2>2, <2>3, SameOnlyExpires
  <2>5. queue' = [e \in Devices |-> queue'[e]]
    BY <2>1, <2>3
  <2> QED
    BY <2>4, <2>5, ExpiresRefines DEF Delivery!AbsNext
<1>2. ASSUME NEW d \in Devices, SetStanding(d) \/ SetPlan(d) \/ GoOffline(d)
      PROVE  UNCHANGED queue
  BY <1>2 DEF SetStanding, SetPlan, GoOffline
<1>3. ASSUME NEW s \in Signals, TtlPasses(s) PROVE UNCHANGED queue
  BY <1>3 DEF TtlPasses
<1> QED
  BY <1>1, <1>2, <1>3 DEF WorldNext

\* The four status-changing statements of the poll handler.
LEMMA StatementRefines ==
    ASSUME TypeOK, NEW d \in Devices, NEW c \in Conns, NEW from, NEW to,
           NEW I, NEW st \in {"EXPIRED", "PENDING"}, Statement(d, c, from, to, I, st),
           I \subseteq RowsOf(queue[d], "PENDING") \cup RowsOf(queue[d], "IN_FLIGHT")
    PROVE  Delivery!AbsNext
<1> DEFINE r == SetStatus(queue[d], I, st)
<1>1. queue \in [Devices -> Seq(Row)]
  BY DEF TypeOK, ServerTypeOK
<1>2. OnlyExpires(queue[d], r)
  BY <1>1, SetStatusOnlyExpires
<1>3. queue' = [queue EXCEPT ![d] = r]
  BY DEF Statement
<1> HIDE DEF r
<1>4. \A e \in Devices : OnlyExpires(queue[e], queue'[e])
  BY <1>1, <1>2, <1>3, SameOnlyExpires
<1>5. queue' = [e \in Devices |-> queue'[e]]
  BY <1>1, <1>3
<1> QED
  BY <1>4, <1>5, ExpiresRefines DEF Delivery!AbsNext

\* Each statement of poll, ack and sweep is a step of the contract.
LEMMA ServerRefines ==
    ASSUME TypeOK, OnlyClaimedInTransit, ServerNext
    PROVE  Delivery!AbsNext \/ UNCHANGED queue
<1>t. queue \in [Devices -> Seq(Row)]
  BY DEF TypeOK, ServerTypeOK
<1>1. ASSUME NEW d \in Devices, NEW c \in Conns,
             DeadLetter(d, c) \/ Reclaim(d, c) \/ ExpireTtl(d, c) \/ Entitle(d, c)
      PROVE  Delivery!AbsNext
  <2>1. /\ DeadLetters(queue[d]) \subseteq RowsOf(queue[d], "IN_FLIGHT")
        /\ LongInFlight(queue[d]) \subseteq RowsOf(queue[d], "IN_FLIGHT")
        /\ PastTtl(queue[d]) \subseteq RowsOf(queue[d], "PENDING")
        /\ Unentitled(d) \subseteq RowsOf(queue[d], "PENDING")
    BY DEF DeadLetters, LongInFlight, PastTtl, Unentitled
  <2>2. CASE DeadLetter(d, c)
    BY <2>1, <2>2, StatementRefines DEF DeadLetter
  <2>3. CASE Reclaim(d, c)
    BY <2>1, <2>3, StatementRefines DEF Reclaim
  <2>4. CASE ExpireTtl(d, c)
    BY <2>1, <2>4, StatementRefines DEF ExpireTtl
  <2>5. CASE Entitle(d, c)
    BY <2>1, <2>5, StatementRefines DEF Entitle
  <2> QED
    BY <1>1, <2>2, <2>3, <2>4, <2>5
<1>2. ASSUME NEW d \in Devices, NEW c \in Conns, Claim(d, c) PROVE Delivery!AbsNext
  <2>1. Delivery!HandOut(d, NextBatch(queue[d]))
    BY <1>2, ClaimRefines
  <2>2. NextBatch(queue[d]) \in SUBSET DOMAIN ItemsOf(queue[d])
    BY DEF NextBatch, RowsOf, ItemsOf
  <2> QED
    BY <2>1, <2>2 DEF Delivery!AbsNext
<1>3. ASSUME NEW d \in Devices, NEW i \in acks[d], Ack(d, i) PROVE Delivery!AbsNext
  BY <1>3, AckRefines DEF Delivery!AbsNext
<1>4. ASSUME NEW p \in Peers, SweepTtl(p) \/ SweepOffline(p) PROVE Delivery!AbsNext
  <2>1. /\ queue' = [d \in Devices |-> queue'[d]]
        /\ \A d \in Devices :
              \/ queue'[d] = queue[d]
              \/ queue'[d] = SetStatus(queue[d], PastTtl(queue[d]), "EXPIRED")
              \/ queue'[d] = SetStatus(queue[d], RowsOf(queue[d], "PENDING"), "EXPIRED")
    BY <1>4 DEF SweepTtl, SweepOffline
  <2>2. \A d \in Devices : PastTtl(queue[d]) \subseteq RowsOf(queue[d], "PENDING")
    BY DEF PastTtl
  <2>3. \A d \in Devices : OnlyExpires(queue[d], queue'[d])
    BY <1>t, <2>1, <2>2, SameOnlyExpires, SetStatusOnlyExpires
  <2> QED
    BY <2>1, <2>3, ExpiresRefines DEF Delivery!AbsNext
<1>5. ASSUME NEW d \in Devices, NEW c \in Conns,
             StartPoll(d, c) \/ Respond(d, c) \/ PollFails(d, c)
      PROVE  UNCHANGED queue
  BY <1>5 DEF StartPoll, Respond, PollFails
<1>6. ASSUME NEW d \in Devices, Heartbeat(d) \/ \E i \in acks[d] : AckLost(d, i)
      PROVE  UNCHANGED queue
  BY <1>6 DEF Heartbeat, AckLost
<1>7. ASSUME NEW p \in Peers, SweepFails(p) PROVE UNCHANGED queue
  BY <1>7 DEF SweepFails
<1> QED
  BY <1>1, <1>2, <1>3, <1>4, <1>5, <1>6, <1>7 DEF ServerNext

\* The terminal does not touch the tables.
LEMMA TerminalRefines == TerminalNext => UNCHANGED queue
<1>1. ASSUME NEW d \in Devices, PollTimeout(d) PROVE UNCHANGED queue
  BY <1>1 DEF PollTimeout
<1>2. ASSUME NEW d \in Devices, NEW i \in ea[d].inbox, Dispatch(d, i)
      PROVE  UNCHANGED queue
  BY <1>2 DEF Dispatch
<1>3. ASSUME NEW d \in Devices, NEW i \in ea[d].inbox,
             ExecuteSignal(d, i) \/ SkipSignal(d, i) \/ HandleCommand(d, i)
      PROVE  Dispatch(d, i)
  BY <1>3 DEF ExecuteSignal, SkipSignal, HandleCommand
<1>4. ASSUME NEW d \in Devices, EADeinit(d) PROVE UNCHANGED queue
  BY <1>4 DEF EADeinit
<1>5. ASSUME NEW d \in Devices, EAInit(d) PROVE UNCHANGED queue
  BY <1>5 DEF EAInit
<1> QED
  BY <1>1, <1>2, <1>3, <1>4, <1>5 DEF TerminalNext

\* The queue with its polls, reclaims, dead letters, sweeps and late
\* acknowledgements implements the delivery contract of EdgeDelivery.
THEOREM QueueImplementsDelivery == Spec => ImplementsDelivery
<1>1. IInv /\ [Next]_vars => [Delivery!AbsNext]_(Delivery!absVars)
  <2> SUFFICES ASSUME IInv, [Next]_vars
               PROVE  Delivery!AbsNext \/ UNCHANGED Delivery!absVars
    OBVIOUS
  <2>1. CASE Next
    BY <2>1, EngineRefines, WorldRefines, ServerRefines, TerminalRefines, UnchangedRefines
       DEF Next, IInv
  <2>2. CASE UNCHANGED vars
    BY <2>2, UnchangedRefines DEF vars
  <2> QED
    BY <2>1, <2>2
<1> QED
  BY <1>1, InitRefines, Invariance, PTL DEF Spec, ImplementsDelivery, Delivery!AbsSpec
=============================================================================
