---------------------------- MODULE Alerting_proofs ----------------------------
(***************************************************************************)
(* Proofs about the watchdogs, for any number of loops and devices.  A     *)
(* loop does not push a key twice within its cooldown because everything   *)
(* it has pushed is still stamped, and a raise that goes on to stamp and   *)
(* push found no stamp.                                                    *)
(***************************************************************************)
EXTENDS Alerting, TLAPS

ThreadRow == [pc : Pcs, work : SUBSET (Ops \X Keys), read : SUBSET (Devices \cup Keys)]

\* A push is under way in these statements.
Pushing == {"stamp", "push"}
Plain(W) == \A s \in W : s[1] \notin Pushing

-----------------------------------------------------------------------------
(* The invariant.                                                           *)

\* A loop has at most one push under way; its key has been stamped when the
\* push is all that is left, and was not pushed before in this cooldown.
PushOK(t) ==
  /\ \A s, u \in thread[t].work : s[1] \in Pushing /\ u[1] \in Pushing => s = u
  /\ \A s \in thread[t].work : s[1] = "push" => s[2] \in hot
  /\ \A s \in thread[t].work : s[1] \in Pushing => <<t, s[2]>> \notin pushed

\* What a loop marks offline are devices.
ReadOK(t) == thread[t].pc = "offline" => thread[t].read \subseteq Devices

CoolInv ==
  /\ CooldownPerLoop
  /\ \A x \in pushed : x[2] \in hot
  /\ \A t \in Threads : PushOK(t) /\ ReadOK(t)

-----------------------------------------------------------------------------
(* Types.                                                                   *)

\* The keys by name, and the loops of a state.
LEMMA KeysAndLoops ==
  ASSUME TypeOK
  PROVE  /\ {Down, Tick, Drift, Risk, CanaryKey} \subseteq Keys
         /\ \A d \in Devices : {<<"device", d>>, <<"backlog", d>>, <<"emptyacks", d>>} \subseteq Keys
         /\ thread \in [Threads -> ThreadRow] /\ Idle \in ThreadRow
<1>1. {Down, Tick, Drift, Risk} \subseteq EngineKeys
  BY DEF EngineKeys, Down, Tick, Drift, Risk
<1>2. CanaryKey \in DeliveryKeys
  BY DEF DeliveryKeys
<1>3. \A d \in Devices : /\ <<"device", d>> \in DeviceKeys /\ <<"backlog", d>> \in DeliveryKeys
                         /\ <<"emptyacks", d>> \in DeliveryKeys
  BY DEF DeviceKeys, DeliveryKeys, BacklogKeys, EmptyAckKeys
<1>4. thread \in [Threads -> ThreadRow] /\ Idle \in ThreadRow
  BY DEF TypeOK, ThreadRow, Idle, Pcs
<1> QED BY <1>1, <1>2, <1>3, <1>4 DEF Keys

\* The steps of a loop from one statement, or one part of a cycle, to the next.
LEMMA Steps ==
  ASSUME TypeOK, NEW t \in Threads
  PROVE  /\ \A s, next : next \subseteq Ops \X Keys /\ Done(t, s, next)
              => /\ thread' \in [Threads -> ThreadRow]
                 /\ thread'[t].work = (thread[t].work \ {s}) \cup next
                 /\ thread'[t].pc = thread[t].pc /\ thread'[t].read = thread[t].read
                 /\ \A u \in Threads : u # t => thread'[u] = thread[u]
         /\ \A pc \in Pcs : \A work \in SUBSET (Ops \X Keys) : Goto(t, pc, work)
              => /\ thread' \in [Threads -> ThreadRow]
                 /\ thread'[t].work = work /\ thread'[t].pc = pc
                 /\ \A u \in Threads : u # t => thread'[u] = thread[u]
         /\ \A pc \in Pcs : \A work \in SUBSET (Ops \X Keys) : \A read \in SUBSET (Devices \cup Keys) :
              Reads(t, pc, work, read)
              => /\ thread' \in [Threads -> ThreadRow]
                 /\ thread'[t].work = work /\ thread'[t].pc = pc /\ thread'[t].read = read
                 /\ \A u \in Threads : u # t => thread'[u] = thread[u]
<1> USE KeysAndLoops
<1>1. ASSUME NEW s, NEW next, next \subseteq Ops \X Keys, Done(t, s, next)
      PROVE  /\ thread' \in [Threads -> ThreadRow]
             /\ thread'[t].work = (thread[t].work \ {s}) \cup next
             /\ thread'[t].pc = thread[t].pc /\ thread'[t].read = thread[t].read
             /\ \A u \in Threads : u # t => thread'[u] = thread[u]
  BY <1>1 DEF Done, ThreadRow
<1>2. ASSUME NEW pc \in Pcs, NEW work \in SUBSET (Ops \X Keys), Goto(t, pc, work)
      PROVE  /\ thread' \in [Threads -> ThreadRow]
             /\ thread'[t].work = work /\ thread'[t].pc = pc
             /\ \A u \in Threads : u # t => thread'[u] = thread[u]
  BY <1>2 DEF Goto, ThreadRow
<1>3. ASSUME NEW pc \in Pcs, NEW work \in SUBSET (Ops \X Keys),
             NEW read \in SUBSET (Devices \cup Keys), Reads(t, pc, work, read)
      PROVE  /\ thread' \in [Threads -> ThreadRow]
             /\ thread'[t].work = work /\ thread'[t].pc = pc /\ thread'[t].read = read
             /\ \A u \in Threads : u # t => thread'[u] = thread[u]
  BY <1>3 DEF Reads, ThreadRow
<1> QED BY <1>1, <1>2, <1>3

\* The initial state.
LEMMA InitOK == Init => TypeOK /\ CoolInv
<1> SUFFICES ASSUME Init PROVE TypeOK /\ CoolInv
  OBVIOUS
<1>1. thread \in [Threads -> ThreadRow] /\ \A t \in Threads : thread[t].work = {}
  BY DEF Init, ThreadRow, Idle, Pcs
<1>2. dev \in [Devices -> DeviceRow]
  BY DEF Init, DeviceRow
<1>3. up \in BOOLEAN
  BY DEF Init
<1>4. TypeOK
  BY <1>1, <1>2, <1>3, AlertingAssumption DEF Init, TypeOK, ThreadRow, AlertingAssumption
<1>5. \A t \in Threads : PushOK(t) /\ ReadOK(t)
  BY <1>1 DEF PushOK, ReadOK, Init, Idle
<1> QED BY <1>4, <1>5 DEF Init, CoolInv, CooldownPerLoop

\* What a part of a cycle, or a raise or resolve that pushes nothing, does to the
\* loop it is of.
Replans(t) ==
  /\ thread' \in [Threads -> ThreadRow]
  /\ Plain(thread'[t].work) /\ ReadOK(t)'
  /\ \A u \in Threads : u # t => thread'[u] = thread[u]

\* The parts of a cycle, one by one.
LEMMA CycleStep ==
  ASSUME TypeOK, CoolInv, NEW t \in Threads, Cycle(t)
  PROVE  /\ Replans(t) /\ UNCHANGED <<loops, up, feed, flips, table, history>>
         /\ dev' \in [Devices -> DeviceRow] /\ faults' \in 0 .. MaxFaults
<1> USE KeysAndLoops
<1>0. thread[t] \in ThreadRow /\ open \subseteq Keys /\ dev \in [Devices -> DeviceRow]
      /\ faults \in 0 .. MaxFaults
  BY DEF TypeOK
<1>1. ASSUME NEW pc \in Pcs, NEW work \in SUBSET (Ops \X Keys), Plain(work),
             \/ Goto(t, pc, work) /\ pc # "offline"
             \/ \E read \in SUBSET (Devices \cup Keys) :
                  Reads(t, pc, work, read) /\ (pc = "offline" => read \subseteq Devices)
      PROVE  Replans(t)
  BY <1>1, Steps DEF Replans, ReadOK
<1>2. CASE CheckRealtimeEngine(t)
  <2>1. PICK w \in {"raise", "resolve"}, pc \in {"tickFeed", "freshness"} : Goto(t, pc, {<<w, Down>>})
    BY <1>2 DEF CheckRealtimeEngine
  <2>2. Replans(t)
    BY <1>1, <2>1 DEF Pcs, Ops, Plain, Pushing
  <2> QED BY <1>0, <1>2, <2>2 DEF CheckRealtimeEngine, env
<1>3. CASE CheckTickFeed(t)
  <2>1. PICK work \in {{<<"raise", Tick>>}, {<<"resolve", Tick>>, <<"raise", Drift>>},
                       {<<"resolve", Tick>>, <<"resolve", Drift>>}} : Goto(t, "freshness", work)
    BY <1>3 DEF CheckTickFeed
  <2>2. work \in SUBSET (Ops \X Keys) /\ Plain(work) /\ "freshness" \in Pcs
    BY DEF Pcs, Ops, Plain, Pushing
  <2>3. Replans(t)
    BY <1>1, <2>1, <2>2
  <2> QED BY <1>0, <1>3, <2>3 DEF CheckTickFeed, env
<1>4. CASE CheckDeviceFreshness(t)
  <2>1. PICK read \in SUBSET Devices, pc \in {"resolveFresh", "offline"} : Reads(t, pc, {}, read)
    BY <1>4 DEF CheckDeviceFreshness
  <2>2. read \in SUBSET (Devices \cup Keys) /\ pc \in Pcs /\ Plain({})
    BY DEF Pcs, Plain
  <2>3. Replans(t)
    BY <1>1, <2>1, <2>2
  <2> QED BY <1>0, <1>4, <2>3 DEF CheckDeviceFreshness, env
<1>5. CASE MarkOffline(t)
  <2> DEFINE work == {<<"raise", <<"device", d>> >> : d \in thread[t].read}
  <2>1. thread[t].read \subseteq Devices
    BY <1>5 DEF MarkOffline, At, CoolInv, ReadOK
  <2>2. work \in SUBSET (Ops \X Keys) /\ Plain(work) /\ "resolveFresh" \in Pcs
    <3>1. ASSUME NEW w \in work PROVE w \in Ops \X Keys /\ w[1] \notin Pushing
      <4>1. PICK d \in Devices : w = <<"raise", <<"device", d>> >>
        BY <2>1, <3>1
      <4>2. <<"device", d>> \in Keys
        OBVIOUS
      <4> QED BY <4>1, <4>2 DEF Ops, Pushing
    <3> HIDE DEF work
    <3> QED BY <3>1 DEF Pcs, Plain
  <2>3. Replans(t)
    BY <1>1, <1>5, <2>2 DEF MarkOffline
  <2>4. dev' \in [Devices -> DeviceRow]
    <3>1. \A d \in Devices : [dev[d] EXCEPT !.online = @ /\ d \notin thread[t].read] \in DeviceRow
      BY <1>0 DEF DeviceRow
    <3> QED BY <1>0, <1>5, <3>1 DEF MarkOffline
  <2>5. faults' \in 0 .. MaxFaults
    BY <1>0, <1>5, AlertingAssumption DEF MarkOffline, AlertingAssumption
  <2> QED BY <1>5, <2>3, <2>4, <2>5 DEF MarkOffline
<1>6. CASE ResolveFresh(t) \/ ResolveInactive(t) \/ ResolveRisk(t)
  <2>1. PICK ks \in SUBSET Keys : Reads(t, "idle", {<<"resolve", k>> : k \in ks}, {})
    <3>1. (open \cap ScopeDevice) \ {<<"device", d>> : d \in thread[t].read} \in SUBSET Keys
      BY <1>0
    <3>2. {x \in open \cap DeliveryKeys : x[2] \notin thread[t].read} \in SUBSET Keys
      BY <1>0
    <3>3. (open \cap {Risk}) \ thread[t].read \in SUBSET Keys
      BY <1>0
    <3> QED BY <1>6, <3>1, <3>2, <3>3 DEF ResolveFresh, ResolveInactive, ResolveRisk
  <2> DEFINE work == {<<"resolve", k>> : k \in ks}
  <2>2. work \in SUBSET (Ops \X Keys) /\ Plain(work) /\ "idle" \in Pcs
    BY DEF Pcs, Ops, Plain, Pushing
  <2>3. Replans(t)
    BY <1>1, <2>1, <2>2
  <2> QED BY <1>0, <1>6, <2>3 DEF ResolveFresh, ResolveInactive, ResolveRisk, env
<1>7. CASE Reconcile(t)
  <2> DEFINE rows == {d \in Devices : dev[d].recent}
             empties == {<<IF dev[d].empty THEN "raise" ELSE "resolve", <<"emptyacks", d>> >> : d \in rows}
             backlogs == {<<IF dev[d].backlog THEN "raise" ELSE "resolve", <<"backlog", d>> >> : d \in rows}
  <2>1. empties \in SUBSET (Ops \X Keys) /\ Plain(empties)
    <3>1. ASSUME NEW w \in empties PROVE w \in Ops \X Keys /\ w[1] \notin Pushing
      <4>1. PICK d \in Devices, op \in {"raise", "resolve"} : w = <<op, <<"emptyacks", d>> >>
        BY <3>1
      <4>2. <<"emptyacks", d>> \in Keys
        OBVIOUS
      <4> QED BY <4>1, <4>2 DEF Ops, Pushing
    <3> HIDE DEF empties
    <3> QED BY <3>1 DEF Plain
  <2>2. backlogs \in SUBSET (Ops \X Keys) /\ Plain(backlogs)
    <3>1. ASSUME NEW w \in backlogs PROVE w \in Ops \X Keys /\ w[1] \notin Pushing
      <4>1. PICK d \in Devices, op \in {"raise", "resolve"} : w = <<op, <<"backlog", d>> >>
        BY <3>1
      <4>2. <<"backlog", d>> \in Keys
        OBVIOUS
      <4> QED BY <4>1, <4>2 DEF Ops, Pushing
    <3> HIDE DEF backlogs
    <3> QED BY <3>1 DEF Plain
  <2>3. Reads(t, "resolveInactive", empties \cup backlogs, rows)
    BY <1>7 DEF Reconcile
  <2>4. rows \in SUBSET (Devices \cup Keys) /\ "resolveInactive" \in Pcs
    BY DEF Pcs
  <2> HIDE DEF empties, backlogs, rows
  <2>5. empties \cup backlogs \in SUBSET (Ops \X Keys) /\ Plain(empties \cup backlogs)
    BY <2>1, <2>2 DEF Plain
  <2>6. Replans(t)
    BY <1>1, <2>3, <2>4, <2>5
  <2> QED BY <1>0, <1>7, <2>6 DEF Reconcile, env
<1>8. CASE VerifyPrevious(t)
  <2>1. PICK w \in {"raiseCanary", "resolve"} : Goto(t, "cleanUp", {<<w, CanaryKey>>})
    BY <1>8 DEF VerifyPrevious
  <2>2. Replans(t)
    BY <1>1, <2>1 DEF Pcs, Ops, Plain, Pushing
  <2> QED BY <1>0, <1>8, <2>2 DEF VerifyPrevious, env
<1>9. CASE CleanUp(t) \/ EnqueueCanary(t)
  <2>1. Goto(t, "enqueue", {}) \/ Goto(t, "idle", {})
    BY <1>9 DEF CleanUp, EnqueueCanary
  <2>2. Replans(t)
    BY <1>1, <2>1 DEF Pcs, Plain
  <2>3. \A d \in Devices : \A c \in {"none", "sent"} : [dev[d] EXCEPT !.canary = c] \in DeviceRow
    BY <1>0 DEF DeviceRow
  <2>4. dev' \in [Devices -> DeviceRow]
    BY <1>0, <1>9, <2>3 DEF CleanUp, EnqueueCanary
  <2> QED BY <1>0, <1>9, <2>2, <2>4 DEF CleanUp, EnqueueCanary
<1> QED BY <1>2, <1>3, <1>4, <1>5, <1>6, <1>7, <1>8, <1>9 DEF Cycle

\* A cycle starts, or is cut short.
LEMMA StartStep ==
  ASSUME TypeOK, NEW t \in Threads
  PROVE  /\ Start(t) => Replans(t) /\ UNCHANGED <<env, table, history, faults>>
         /\ CycleFails(t) => /\ Replans(t) /\ UNCHANGED <<env, table, history>>
                             /\ faults' \in 0 .. MaxFaults
<1> USE KeysAndLoops
<1>1. ASSUME Start(t) PROVE Replans(t) /\ UNCHANGED <<env, table, history, faults>>
  <2>1. CASE \E pc \in {"probe", "reconcile", "verify"} : Goto(t, pc, {})
    <3>1. PICK pc \in {"probe", "reconcile", "verify"} : Goto(t, pc, {})
      BY <2>1
    <3>2. pc \in Pcs /\ pc # "offline" /\ {} \in SUBSET (Ops \X Keys) /\ Plain({})
      BY DEF Pcs, Plain
    <3>3. Replans(t)
      BY <3>1, <3>2, Steps DEF Replans, ReadOK
    <3> QED BY <1>1, <3>3 DEF Start
  <2>2. CASE \E degraded \in SUBSET {Risk} :
               Reads(t, "resolveRisk", {<<"raise", k>> : k \in degraded}, degraded)
    <3>1. PICK degraded \in SUBSET {Risk} :
            Reads(t, "resolveRisk", {<<"raise", k>> : k \in degraded}, degraded)
      BY <2>2
    <3> DEFINE work == {<<"raise", k>> : k \in degraded}
    <3>2. degraded \in SUBSET (Devices \cup Keys) /\ degraded \subseteq Keys
      OBVIOUS
    <3>3. work \in SUBSET (Ops \X Keys) /\ Plain(work) /\ "resolveRisk" \in Pcs
      BY <3>2 DEF Ops, Plain, Pushing, Pcs
    <3> HIDE DEF work
    <3>4. Reads(t, "resolveRisk", work, degraded)
      BY <3>1 DEF work
    <3> QED BY <1>1, <3>2, <3>3, <3>4, Steps DEF Start, Replans, ReadOK
  <2> QED BY <1>1, <2>1, <2>2 DEF Start
<1>2. ASSUME CycleFails(t)
      PROVE  Replans(t) /\ UNCHANGED <<env, table, history>> /\ faults' \in 0 .. MaxFaults
  <2>1. /\ thread' \in [Threads -> ThreadRow] /\ thread'[t] = Idle
        /\ \A u \in Threads : u # t => thread'[u] = thread[u]
    BY <1>2 DEF CycleFails
  <2>2. Idle.work = {} /\ Idle.pc = "idle"
    BY DEF Idle
  <2>3. faults' \in 0 .. MaxFaults
    BY <1>2, AlertingAssumption DEF CycleFails, TypeOK, AlertingAssumption
  <2> QED BY <1>2, <2>1, <2>2, <2>3 DEF CycleFails, Replans, Plain, ReadOK
<1> QED BY <1>1, <1>2

\* A loop that makes new plans has no push under way.
LEMMA ReplansCool ==
  ASSUME TypeOK, CoolInv, NEW t \in Threads, Replans(t), hot \subseteq hot', UNCHANGED history
  PROVE  CoolInv'
<1>1. pushed' = pushed /\ twice' = twice
  BY DEF history
<1>2. PushOK(t)'
  BY DEF Replans, Plain, PushOK, Pushing
<1>3. ASSUME NEW u \in Threads, u # t PROVE PushOK(u)' /\ ReadOK(u)'
  <2>1. thread'[u] = thread[u] /\ PushOK(u) /\ ReadOK(u)
    BY <1>3 DEF Replans, CoolInv
  <2> QED BY <1>1, <2>1 DEF PushOK, ReadOK
<1>4. CooldownPerLoop' /\ \A x \in pushed' : x[2] \in hot'
  BY <1>1 DEF CoolInv, CooldownPerLoop
<1> QED BY <1>2, <1>3, <1>4 DEF CoolInv, Replans

\* The statements on the alert table.
LEMMA StatementStep ==
  ASSUME TypeOK, CoolInv, NEW t \in Threads, Statement(t)
  PROVE  TypeOK' /\ CoolInv'
<1> USE KeysAndLoops
<1>0. /\ thread[t] \in ThreadRow /\ thread[t].work \subseteq Ops \X Keys /\ PushOK(t) /\ ReadOK(t)
      /\ open \subseteq Keys /\ hot \subseteq Keys
      /\ pushed \subseteq Threads \X Keys /\ twice \subseteq Threads \X Keys
  BY DEF TypeOK, CoolInv, ThreadRow
\* A statement is done that neither pushes nor leads to a push.
<1>1. ASSUME NEW s, Done(t, s, {}), \A w \in thread[t].work : w[1] \notin Pushing
      PROVE  Replans(t)
  BY <1>0, <1>1, Steps DEF Replans, Plain, ReadOK
<1>2. ASSUME NEW k \in Keys, RaiseAlert(t, k) PROVE TypeOK' /\ CoolInv'
  <2>1. /\ \A w \in thread[t].work : w[1] \notin Pushing
        /\ UNCHANGED <<loops, up, feed, dev, hot, history, flips, faults>> /\ open' = open \cup {k}
    BY <1>2 DEF RaiseAlert, Ready, Pushing
  <2>2. CASE k \in hot
    <3>1. Replans(t)
      BY <1>1, <1>2, <2>1, <2>2 DEF RaiseAlert
    <3> QED BY <1>0, <2>1, <3>1, ReplansCool DEF Replans, TypeOK, ThreadRow, history
  <2>3. CASE k \notin hot
    <3>1. Done(t, <<"raise", k>>, {<<"stamp", k>>}) /\ {<<"stamp", k>>} \subseteq Ops \X Keys
      BY <1>2, <2>3 DEF RaiseAlert, Ops
    <3>2. /\ thread' \in [Threads -> ThreadRow]
          /\ thread'[t].work = (thread[t].work \ {<<"raise", k>>}) \cup {<<"stamp", k>>}
          /\ thread'[t].pc = thread[t].pc /\ thread'[t].read = thread[t].read
          /\ \A u \in Threads : u # t => thread'[u] = thread[u]
      BY <3>1, Steps
    <3>3. TypeOK'
      BY <1>0, <2>1, <3>2 DEF TypeOK, ThreadRow, history
    <3>4. <<t, k>> \notin pushed
      BY <2>3 DEF CoolInv
    <3>5. PushOK(t)' /\ ReadOK(t)'
      BY <1>0, <2>1, <3>2, <3>4 DEF PushOK, ReadOK, Pushing, history
    <3>6. ASSUME NEW u \in Threads, u # t PROVE PushOK(u)' /\ ReadOK(u)'
      BY <2>1, <3>2, <3>6 DEF CoolInv, PushOK, ReadOK, history
    <3> QED BY <2>1, <3>3, <3>5, <3>6 DEF CoolInv, CooldownPerLoop, history
  <2> QED BY <2>2, <2>3
<1>3. ASSUME NEW k \in Keys, StampNotified(t, k) PROVE TypeOK' /\ CoolInv'
  <2>1. /\ Done(t, <<"stamp", k>>, {<<"push", k>>}) /\ {<<"push", k>>} \subseteq Ops \X Keys
        /\ UNCHANGED <<loops, up, feed, dev, open, history, flips, faults>> /\ hot' = hot \cup {k}
        /\ <<"stamp", k>> \in thread[t].work
    BY <1>3 DEF StampNotified, Ready, Ops
  <2>2. /\ thread' \in [Threads -> ThreadRow]
        /\ thread'[t].work = (thread[t].work \ {<<"stamp", k>>}) \cup {<<"push", k>>}
        /\ thread'[t].pc = thread[t].pc /\ thread'[t].read = thread[t].read
        /\ \A u \in Threads : u # t => thread'[u] = thread[u]
    BY <2>1, Steps
  <2>3. TypeOK'
    BY <1>0, <2>1, <2>2 DEF TypeOK, ThreadRow, history
  <2>4. \A w \in thread[t].work : w[1] \in Pushing => w = <<"stamp", k>>
    BY <1>0, <2>1 DEF PushOK, Pushing
  <2>5. <<t, k>> \notin pushed
    BY <1>0, <2>1 DEF PushOK, Pushing
  <2>6. PushOK(t)' /\ ReadOK(t)'
    BY <1>0, <2>1, <2>2, <2>4, <2>5 DEF PushOK, ReadOK, Pushing, history
  <2>7. ASSUME NEW u \in Threads, u # t PROVE PushOK(u)' /\ ReadOK(u)'
    BY <2>1, <2>2, <2>7 DEF CoolInv, PushOK, ReadOK, history
  <2> QED BY <2>1, <2>3, <2>6, <2>7 DEF CoolInv, CooldownPerLoop, history
<1>4. ASSUME NEW k \in Keys, Notify(t, k) PROVE TypeOK' /\ CoolInv'
  <2>1. /\ Done(t, <<"push", k>>, {}) /\ UNCHANGED <<loops, up, feed, dev, open, hot, flips, faults>>
        /\ pushed' = pushed \cup {<<t, k>>} /\ twice' = twice \cup ({<<t, k>>} \cap pushed)
        /\ <<"push", k>> \in thread[t].work
    BY <1>4 DEF Notify, Ready
  <2>2. /\ thread' \in [Threads -> ThreadRow]
        /\ thread'[t].work = thread[t].work \ {<<"push", k>>}
        /\ thread'[t].pc = thread[t].pc /\ thread'[t].read = thread[t].read
        /\ \A u \in Threads : u # t => thread'[u] = thread[u]
    BY <2>1, Steps
  <2>3. TypeOK'
    BY <1>0, <2>1, <2>2 DEF TypeOK, ThreadRow
  <2>4. \A w \in thread[t].work : w[1] \in Pushing => w = <<"push", k>>
    BY <1>0, <2>1 DEF PushOK, Pushing
  <2>5. <<t, k>> \notin pushed /\ k \in hot
    BY <1>0, <2>1 DEF PushOK, Pushing
  <2>6. twice' = {}
    BY <2>1, <2>5 DEF CoolInv, CooldownPerLoop
  <2>7. PushOK(t)' /\ ReadOK(t)'
    BY <1>0, <2>2, <2>4 DEF PushOK, ReadOK, Pushing
  <2>8. ASSUME NEW u \in Threads, u # t PROVE PushOK(u)' /\ ReadOK(u)'
    BY <2>1, <2>2, <2>8 DEF CoolInv, PushOK, ReadOK
  <2>9. \A x \in pushed' : x[2] \in hot'
    BY <2>1, <2>5 DEF CoolInv
  <2> QED BY <2>3, <2>6, <2>7, <2>8, <2>9 DEF CoolInv, CooldownPerLoop
<1>5. ASSUME NEW k \in Keys, ResolveAlert(t, k) PROVE TypeOK' /\ CoolInv'
  <2>1. /\ \A w \in thread[t].work : w[1] \notin Pushing
        /\ Done(t, <<"resolve", k>>, {})
        /\ UNCHANGED <<loops, up, feed, dev, hot, history, flips, faults>> /\ open' = open \ {k}
    BY <1>5 DEF ResolveAlert, Ready, Pushing
  <2>2. Replans(t)
    BY <1>1, <2>1
  <2> QED BY <1>0, <2>1, <2>2, ReplansCool DEF Replans, TypeOK, ThreadRow, history
<1>6. ASSUME RaiseCanaryAlert(t) PROVE TypeOK' /\ CoolInv'
  <2>1. /\ \A w \in thread[t].work : w[1] \notin Pushing
        /\ Done(t, <<"raiseCanary", CanaryKey>>, {})
        /\ UNCHANGED <<loops, up, feed, dev, history, flips, faults>>
        /\ open' = open \cup {CanaryKey} /\ hot' = hot \cup {CanaryKey}
    BY <1>6 DEF RaiseCanaryAlert, Ready, Pushing
  <2>2. Replans(t)
    BY <1>1, <2>1
  <2> QED BY <1>0, <2>1, <2>2, ReplansCool DEF Replans, TypeOK, ThreadRow, history
<1>7. \A s \in thread[t].work : s[2] \in Keys
  BY <1>0
<1> QED BY <1>2, <1>3, <1>4, <1>5, <1>6, <1>7 DEF Statement

\* What the watchdogs observe changes no alert and no loop.
LEMMA ObservedStep ==
  ASSUME TypeOK, CoolInv, Observed
  PROVE  TypeOK' /\ CoolInv'
<1>1. Flip
  BY DEF Observed, EngineFlips, FeedChanges, FallsSilent, LicenceChanges, QueueChanges,
         CanaryMoves, SeenAgain
<1>2. UNCHANGED <<loops, open, hot, thread, pushed, twice, faults>> /\ flips' \in 0 .. MaxFlips
  BY <1>1, AlertingAssumption DEF Flip, history, TypeOK, AlertingAssumption
<1>3. CoolInv'
  BY <1>2 DEF CoolInv, CooldownPerLoop, PushOK, ReadOK
<1>4. up' \in BOOLEAN /\ feed' \in {"fresh", "drift", "stale"}
  BY DEF Observed, EngineFlips, FeedChanges, FallsSilent, LicenceChanges, QueueChanges,
         CanaryMoves, SeenAgain, TypeOK
<1>5. dev' \in [Devices -> DeviceRow]
  <2>0. dev \in [Devices -> DeviceRow]
    BY DEF TypeOK
  <2>1. CASE EngineFlips \/ FeedChanges
    BY <2>0, <2>1 DEF EngineFlips, FeedChanges
  <2>2. ASSUME NEW d \in Devices, FallsSilent(d) PROVE dev' \in [Devices -> DeviceRow]
    BY <2>0, <2>2 DEF FallsSilent, DeviceRow
  <2>3. ASSUME NEW d \in Devices, LicenceChanges(d) PROVE dev' \in [Devices -> DeviceRow]
    BY <2>0, <2>3 DEF LicenceChanges, DeviceRow
  <2>4. ASSUME NEW d \in Devices, QueueChanges(d) PROVE dev' \in [Devices -> DeviceRow]
    <3>1. PICK r, b, e \in BOOLEAN :
            dev' = [dev EXCEPT ![d].recent = r, ![d].backlog = b, ![d].empty = e]
      BY <2>4 DEF QueueChanges
    <3>2. [dev[d] EXCEPT !.recent = r, !.backlog = b, !.empty = e] \in DeviceRow
      BY <2>0 DEF DeviceRow
    <3>3. dev' = [dev EXCEPT ![d] = [dev[d] EXCEPT !.recent = r, !.backlog = b, !.empty = e]]
      BY <2>0, <3>1
    <3> QED BY <2>0, <3>2, <3>3
  <2>5. ASSUME NEW d \in Devices, CanaryMoves(d) PROVE dev' \in [Devices -> DeviceRow]
    BY <2>0, <2>5 DEF CanaryMoves, DeviceRow
  <2>6. ASSUME NEW d \in Devices, NEW b \in BOOLEAN, SeenAgain(d, b)
        PROVE  dev' \in [Devices -> DeviceRow]
    <3>1. PICK o \in BOOLEAN : dev' = [dev EXCEPT ![d].silent = FALSE, ![d].online = o]
      <4> DEFINE o == dev[d].online \/ b
      <4>1. dev' = [dev EXCEPT ![d].silent = FALSE, ![d].online = o]
        BY <2>6 DEF SeenAgain
      <4>2. o \in BOOLEAN
        OBVIOUS
      <4> HIDE DEF o
      <4> QED BY <4>1, <4>2
    <3>2. [dev[d] EXCEPT !.silent = FALSE, !.online = o] \in DeviceRow
      BY <2>0 DEF DeviceRow
    <3>3. dev' = [dev EXCEPT ![d] = [dev[d] EXCEPT !.silent = FALSE, !.online = o]]
      BY <2>0, <3>1
    <3> QED BY <2>0, <3>2, <3>3
  <2> QED BY <2>1, <2>2, <2>3, <2>4, <2>5, <2>6 DEF Observed
<1>6. TypeOK'
  BY <1>2, <1>4, <1>5 DEF TypeOK
<1> QED BY <1>3, <1>6

\* Every step keeps types and cooldowns.
LEMMA NextOK == TypeOK /\ CoolInv /\ [Next]_vars => TypeOK' /\ CoolInv'
<1> SUFFICES ASSUME TypeOK, CoolInv, [Next]_vars PROVE TypeOK' /\ CoolInv'
  OBVIOUS
<1>1. CASE UNCHANGED vars
  BY <1>1 DEF vars, TypeOK, CoolInv, CooldownPerLoop, PushOK, ReadOK
<1>2. ASSUME NEW k \in Keys, CooldownOver(k) PROVE TypeOK' /\ CoolInv'
  <2>1. /\ hot' = hot \ {k} /\ pushed' = {x \in pushed : x[2] # k}
        /\ UNCHANGED <<loops, up, feed, dev, open, thread, twice, flips, faults>>
        /\ \A t \in Threads : <<"push", k>> \notin thread[t].work
    BY <1>2 DEF CooldownOver
  <2>2. TypeOK'
    BY <2>1 DEF TypeOK
  <2>3. ASSUME NEW t \in Threads PROVE PushOK(t)' /\ ReadOK(t)'
    <3>1. PushOK(t) /\ ReadOK(t) /\ thread[t].work \subseteq Ops \X Keys
      BY DEF CoolInv, TypeOK
    <3>2. \A s \in thread[t].work : s[1] = "push" => s[2] # k
      BY <2>1, <3>1
    <3> QED BY <2>1, <3>1, <3>2 DEF PushOK, ReadOK
  <2> QED BY <2>1, <2>2, <2>3 DEF CoolInv, CooldownPerLoop
<1>3. ASSUME NEW t \in Threads, Start(t) \/ CycleFails(t) PROVE TypeOK' /\ CoolInv'
  <2>1. Replans(t) /\ UNCHANGED <<env, table, history>> /\ faults' \in 0 .. MaxFaults
    BY <1>3, StartStep DEF TypeOK
  <2> QED BY <2>1, ReplansCool DEF Replans, TypeOK, ThreadRow, env, table, history
<1>4. ASSUME NEW t \in Threads, Cycle(t) PROVE TypeOK' /\ CoolInv'
  <2>1. /\ Replans(t) /\ UNCHANGED <<loops, up, feed, flips, table, history>>
        /\ dev' \in [Devices -> DeviceRow] /\ faults' \in 0 .. MaxFaults
    BY <1>4, CycleStep
  <2> QED BY <2>1, ReplansCool DEF Replans, TypeOK, ThreadRow, table, history
<1> QED BY <1>1, <1>2, <1>3, <1>4, StatementStep, ObservedStep DEF Next

\* Alerts, loops and device rows keep their types.
THEOREM AlertingTypes == Spec => []TypeOK
<1>1. Spec => [](TypeOK /\ CoolInv)
  BY InitOK, NextOK, PTL DEF Spec
<1> QED BY <1>1, PTL

\* No loop pushes one key twice within its cooldown.
THEOREM Cooldown == Spec => []CooldownPerLoop
<1>1. Spec => [](TypeOK /\ CoolInv)
  BY InitOK, NextOK, PTL DEF Spec
<1>2. CoolInv => CooldownPerLoop
  BY DEF CoolInv
<1> QED BY <1>1, <1>2, PTL
=============================================================================
