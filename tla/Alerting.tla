------------------------------- MODULE Alerting -------------------------------
(***************************************************************************)
(* The three watchdogs of the control plane (control/src/modules/          *)
(* monitoring) and the table system.connectivity_alerts they share.  Each  *)
(* process of the control plane runs each watchdog on a timer; a cycle     *)
(* never overlaps itself but interleaves with every other one, statement   *)
(* by statement.  A cycle reads a condition, then raises or resolves the   *)
(* alerts it is about.                                                     *)
(***************************************************************************)
EXTENDS Naturals, FiniteSets

CONSTANTS
  Devices,      \* edge devices bound to a licence
  Threads,      \* watchdog loops: records [proc, svc]
  Deployments,  \* sets of loops that may be running together
  MaxFlips,     \* bound: changes of the conditions that are watched
  MaxFaults     \* bound: cycles cut short by an exception or a restart

Services == {"connectivity", "reconciliation", "canary", "risk"}

ASSUME AlertingAssumption ==
  /\ \A t \in Threads : t.svc \in Services
  /\ Deployments \subseteq SUBSET Threads
  /\ MaxFlips \in Nat /\ MaxFaults \in Nat

VARIABLES
  loops,    \* the loops that are running
  up,       \* the realtime engine answers its health probe
  feed,     \* ticks: "fresh", "drift" (source clock behind), "stale"
  dev,      \* rows of licensing.devices and what the queue holds for them
  open,     \* alert keys whose row is OPEN
  hot,      \* alert keys whose notified_at lies within the cooldown
  thread,   \* where each loop is: next statement, statements left, devices read
  pushed,   \* (history) loops and the keys they pushed in the current cooldown
  twice,    \* (history) loops and the keys they pushed again within it
  flips, faults

env == <<loops, up, feed, dev, flips>>
table == <<open, hot>>
history == <<pushed, twice>>
vars == <<loops, up, feed, dev, open, hot, thread, pushed, twice, flips, faults>>

EngineKeys == {<<k, "engine">> : k \in {"down", "tick", "drift", "risk"}}
DeviceKeys == {<<"device", d>> : d \in Devices}
BacklogKeys == {<<"backlog", d>> : d \in Devices}
EmptyAckKeys == {<<"emptyacks", d>> : d \in Devices}
CanaryKey == <<"canary", "stale">>
DeliveryKeys == BacklogKeys \cup EmptyAckKeys \cup {CanaryKey}
Keys == EngineKeys \cup DeviceKeys \cup DeliveryKeys

\* The reconciliation and the canary insert their rows with scope 'DEVICE' too.
ScopeDevice == DeviceKeys \cup DeliveryKeys

Down == <<"down", "engine">>
Tick == <<"tick", "engine">>
Drift == <<"drift", "engine">>
Risk == <<"risk", "engine">>

Ops == {"raise", "resolve", "stamp", "push", "raiseCanary"}
Pcs == {"idle", "probe", "tickFeed", "freshness", "offline", "resolveFresh",
        "reconcile", "resolveInactive", "verify", "cleanUp", "enqueue",
        "resolveRisk"}

DeviceRow ==
  [licensed : BOOLEAN,    \* not revoked, bound licence ACTIVE or TRIALING
   silent : BOOLEAN,      \* last_seen_at more than three minutes ago
   online : BOOLEAN,      \* connection_status = 'ONLINE'
   recent : BOOLEAN,      \* queue rows of the last 24 hours
   backlog : BOOLEAN,     \* an open queue row older than five minutes
   empty : BOOLEAN,       \* more than three empty acknowledgements in 24 h
   canary : {"none", "sent", "closed", "stale"}]

Idle == [pc |-> "idle", work |-> {}, read |-> {}]

Init ==
  /\ loops \in Deployments
  /\ up = TRUE /\ feed = "fresh"
  /\ dev = [d \in Devices |->
       [licensed |-> TRUE, silent |-> FALSE, online |-> TRUE, recent |-> TRUE,
        backlog |-> FALSE, empty |-> FALSE, canary |-> "none"]]
  /\ open = {} /\ hot = {}
  /\ thread = [t \in Threads |-> Idle]
  /\ pushed = {} /\ twice = {}
  /\ flips = 0 /\ faults = 0

-----------------------------------------------------------------------------
(* What the watchdogs observe.                                              *)

Flip == /\ flips < MaxFlips
        /\ flips' = flips + 1
        /\ UNCHANGED <<loops, open, hot, thread, history, faults>>

EngineFlips == /\ Flip
               /\ up' = ~up
               /\ UNCHANGED <<feed, dev>>

FeedChanges == /\ Flip
               /\ \E f \in {"fresh", "drift", "stale"} \ {feed} : feed' = f
               /\ UNCHANGED <<up, dev>>

\* The device stops polling.
FallsSilent(d) ==
  /\ Flip
  /\ ~dev[d].silent
  /\ dev' = [dev EXCEPT ![d].silent = TRUE]
  /\ UNCHANGED <<up, feed>>

\* Any request refreshes last_seen_at; only a lease heartbeat or an ingest
\* request also sets connection_status.
SeenAgain(d, marksOnline) ==
  /\ Flip
  /\ dev[d].silent
  /\ dev' = [dev EXCEPT ![d].silent = FALSE, ![d].online = @ \/ marksOnline]
  /\ UNCHANGED <<up, feed>>

LicenceChanges(d) ==
  /\ Flip
  /\ dev' = [dev EXCEPT ![d].licensed = ~@]
  /\ UNCHANGED <<up, feed>>

\* What the queue holds for the device; without recent rows there is neither
\* a backlog nor an empty acknowledgement to count.
QueueChanges(d) ==
  /\ Flip
  /\ \E r, b, e \in BOOLEAN :
       /\ r \/ ~(b \/ e)
       /\ <<r, b, e>> # <<dev[d].recent, dev[d].backlog, dev[d].empty>>
       /\ dev' = [dev EXCEPT ![d].recent = r, ![d].backlog = b, ![d].empty = e]
  /\ UNCHANGED <<up, feed>>

\* The canary row is acknowledged or expired by the queue, or it passes its 15
\* minutes after three deliveries while it is still open.
CanaryMoves(d) ==
  /\ Flip
  /\ \/ /\ dev[d].canary \in {"sent", "stale"}
        /\ dev' = [dev EXCEPT ![d].canary = "closed"]
     \/ /\ dev[d].canary = "sent"
        /\ dev' = [dev EXCEPT ![d].canary = "stale"]
  /\ UNCHANGED <<up, feed>>

\* Ten minutes since the last push.  A push ends within its five-second
\* timeout, so none of the key is under way.
CooldownOver(k) ==
  /\ k \in hot
  /\ \A t \in Threads : <<"push", k>> \notin thread[t].work
  /\ hot' = hot \ {k}
  /\ pushed' = {x \in pushed : x[2] # k}
  /\ UNCHANGED <<loops, up, feed, dev, open, thread, twice, flips, faults>>

-----------------------------------------------------------------------------
(* Statements: the two writes on the alert table, shared by all watchdogs.  *)

\* The push that follows a raise comes before any other statement of the loop.
Ready(t, s) ==
  /\ s \in thread[t].work
  /\ s[1] \in {"stamp", "push"} \/ \A w \in thread[t].work : w[1] \notin {"stamp", "push"}

\* Statement s is done, and those in next follow it.
Done(t, s, next) == thread' = [thread EXCEPT ![t].work = (@ \ {s}) \cup next]

\* INSERT .. ON CONFLICT DO UPDATE status = 'OPEN' RETURNING notified_at.
RaiseAlert(t, k) ==
  /\ Ready(t, <<"raise", k>>)
  /\ open' = open \cup {k}
  /\ Done(t, <<"raise", k>>, IF k \in hot THEN {} ELSE {<<"stamp", k>>})
  /\ UNCHANGED <<loops, up, feed, dev, hot, history, flips, faults>>

\* Mutant: the push is sent without stamping notified_at.
StampNotifiedNever(t, k) ==
  /\ Ready(t, <<"stamp", k>>)
  /\ Done(t, <<"stamp", k>>, {<<"push", k>>})
  /\ UNCHANGED <<loops, up, feed, dev, open, hot, history, flips, faults>>

\* UPDATE .. SET notified_at = now(), before the push is sent.
StampNotified(t, k) ==
  /\ Ready(t, <<"stamp", k>>)
  /\ hot' = hot \cup {k}
  /\ Done(t, <<"stamp", k>>, {<<"push", k>>})
  /\ UNCHANGED <<loops, up, feed, dev, open, history, flips, faults>>

\* Errors and timeouts of the push are swallowed.
Notify(t, k) ==
  /\ Ready(t, <<"push", k>>)
  /\ pushed' = pushed \cup {<<t, k>>}
  /\ twice' = twice \cup ({<<t, k>>} \cap pushed)
  /\ Done(t, <<"push", k>>, {})
  /\ UNCHANGED <<loops, up, feed, dev, open, hot, flips, faults>>

ResolveAlert(t, k) ==
  /\ Ready(t, <<"resolve", k>>)
  /\ open' = open \ {k}
  /\ Done(t, <<"resolve", k>>, {})
  /\ UNCHANGED <<loops, up, feed, dev, hot, history, flips, faults>>

\* The canary's own raise: notified_at is stamped only outside the cooldown,
\* the push is sent in any case.  Its three statements are one step: nobody
\* else reads what lies between them.
RaiseCanaryAlert(t) ==
  /\ Ready(t, <<"raiseCanary", CanaryKey>>)
  /\ open' = open \cup {CanaryKey}
  /\ hot' = hot \cup {CanaryKey}
  /\ Done(t, <<"raiseCanary", CanaryKey>>, {})
  /\ UNCHANGED <<loops, up, feed, dev, history, flips, faults>>

-----------------------------------------------------------------------------
(* Cycles.  A step is taken when the statements of the one before are done. *)

At(t, pc) == thread[t].pc = pc /\ thread[t].work = {}

Goto(t, pc, work) == thread' = [thread EXCEPT ![t].pc = pc, ![t].work = work]

Reads(t, pc, work, read) == thread' = [thread EXCEPT ![t] = [pc |-> pc, work |-> work, read |-> read]]

\* The timer fires and no cycle of the loop is running; for the risk gates an
\* administrator's request arrives.
Start(t) ==
  /\ t \in loops
  /\ At(t, "idle")
  /\ \/ t.svc = "connectivity" /\ Goto(t, "probe", {})
     \/ t.svc = "reconciliation" /\ Goto(t, "reconcile", {})
     \/ t.svc = "canary" /\ Goto(t, "verify", {})
     \/ /\ t.svc = "risk"
        /\ \E degraded \in SUBSET {Risk} :
             Reads(t, "resolveRisk", {<<"raise", k>> : k \in degraded}, degraded)
  /\ UNCHANGED <<env, table, history, faults>>

\* Mutant: a healthy probe does not resolve the alert of an earlier one.
CheckRealtimeEngineKeeps(t) ==
  /\ At(t, "probe")
  /\ IF up THEN Goto(t, "tickFeed", {})
           ELSE Goto(t, "freshness", {<<"raise", Down>>})
  /\ UNCHANGED <<env, table, history, faults>>

CheckRealtimeEngine(t) ==
  /\ At(t, "probe")
  /\ IF up THEN Goto(t, "tickFeed", {<<"resolve", Down>>})
           ELSE Goto(t, "freshness", {<<"raise", Down>>})
  /\ UNCHANGED <<env, table, history, faults>>

CheckTickFeed(t) ==
  /\ At(t, "tickFeed")
  /\ Goto(t, "freshness",
          IF feed = "stale" THEN {<<"raise", Tick>>}
          ELSE {<<"resolve", Tick>>,
                <<IF feed = "drift" THEN "raise" ELSE "resolve", Drift>>})
  /\ UNCHANGED <<env, table, history, faults>>

\* SELECT of the silent devices.
CheckDeviceFreshness(t) ==
  /\ At(t, "freshness")
  /\ LET stale == {d \in Devices : dev[d].licensed /\ dev[d].online /\ dev[d].silent}
     IN  Reads(t, IF stale = {} THEN "resolveFresh" ELSE "offline", {}, stale)
  /\ UNCHANGED <<env, table, history, faults>>

\* Mutant: the alerts are raised for the devices still ONLINE after the update.
MarkOfflineFirst(t) ==
  /\ At(t, "offline")
  /\ dev' = [d \in Devices |->
               [dev[d] EXCEPT !.online = @ /\ d \notin thread[t].read]]
  /\ Goto(t, "resolveFresh",
          {<<"raise", <<"device", d>> >> : d \in {x \in thread[t].read : dev'[x].online}})
  /\ UNCHANGED <<loops, up, feed, flips, table, history, faults>>

\* UPDATE .. SET connection_status = 'OFFLINE'; its failure is swallowed.
MarkOffline(t) ==
  /\ At(t, "offline")
  /\ \/ /\ dev' = [d \in Devices |->
                    [dev[d] EXCEPT !.online = @ /\ d \notin thread[t].read]]
        /\ UNCHANGED faults
     \/ /\ faults < MaxFaults
        /\ faults' = faults + 1
        /\ UNCHANGED dev
  /\ Goto(t, "resolveFresh", {<<"raise", <<"device", d>> >> : d \in thread[t].read})
  /\ UNCHANGED <<loops, up, feed, flips, table, history>>

\* Every OPEN row of scope DEVICE that this cycle did not raise is resolved.
ResolveFresh(t) ==
  /\ At(t, "resolveFresh")
  /\ Reads(t, "idle", {<<"resolve", k>> : k \in
             (open \cap ScopeDevice) \ {<<"device", d>> : d \in thread[t].read}}, {})
  /\ UNCHANGED <<env, table, history, faults>>

\* Mutant: alerts are only raised; a condition that clears resolves nothing.
ReconcileRaises(t) ==
  /\ At(t, "reconcile")
  /\ LET rows == {d \in Devices : dev[d].recent}
     IN  Reads(t, "resolveInactive",
           {<<"raise", <<"emptyacks", d>> >> : d \in {x \in rows : dev[x].empty}}
           \cup {<<"raise", <<"backlog", d>> >> : d \in {x \in rows : dev[x].backlog}},
           rows)
  /\ UNCHANGED <<env, table, history, faults>>

\* One pass over the devices with queue rows of the last 24 hours.
Reconcile(t) ==
  /\ At(t, "reconcile")
  /\ LET rows == {d \in Devices : dev[d].recent}
     IN  Reads(t, "resolveInactive",
           {<<IF dev[d].empty THEN "raise" ELSE "resolve", <<"emptyacks", d>> >> : d \in rows}
           \cup {<<IF dev[d].backlog THEN "raise" ELSE "resolve", <<"backlog", d>> >> : d \in rows},
           rows)
  /\ UNCHANGED <<env, table, history, faults>>

\* OPEN delivery alerts whose key does not end in the id of such a device: the
\* canary's key ends in no device id at all.
ResolveInactive(t) ==
  /\ At(t, "resolveInactive")
  /\ Reads(t, "idle", {<<"resolve", k>> : k \in
             {x \in open \cap DeliveryKeys : x[2] \notin thread[t].read}}, {})
  /\ UNCHANGED <<env, table, history, faults>>

VerifyPrevious(t) ==
  /\ At(t, "verify")
  /\ Goto(t, "cleanUp", {IF \E d \in Devices : dev[d].canary = "stale"
                         THEN <<"raiseCanary", CanaryKey>>
                         ELSE <<"resolve", CanaryKey>>})
  /\ UNCHANGED <<env, table, history, faults>>

\* DELETE of the canary rows closed for an hour, or created two hours ago.
CleanUp(t) ==
  /\ At(t, "cleanUp")
  /\ \E old \in SUBSET {d \in Devices : dev[d].canary # "none"} :
       dev' = [d \in Devices |->
         IF d \in old THEN [dev[d] EXCEPT !.canary = "none"] ELSE dev[d]]
  /\ Goto(t, "enqueue", {})
  /\ UNCHANGED <<loops, up, feed, flips, table, history, faults>>

\* One canary row for every licensed device that is not silent.  A device
\* silent for less than half an hour may still get one; an older unacknowledged
\* row stands for the newer one.
EnqueueCanary(t) ==
  /\ At(t, "enqueue")
  /\ \E late \in SUBSET {d \in Devices : dev[d].silent} :
       dev' = [d \in Devices |->
         IF dev[d].licensed /\ (~dev[d].silent \/ d \in late)
            /\ dev[d].canary # "stale"
         THEN [dev[d] EXCEPT !.canary = "sent"] ELSE dev[d]]
  /\ Goto(t, "idle", {})
  /\ UNCHANGED <<loops, up, feed, flips, table, history, faults>>

ResolveRisk(t) ==
  /\ At(t, "resolveRisk")
  /\ Reads(t, "idle", {<<"resolve", k>> : k \in (open \cap {Risk}) \ thread[t].read}, {})
  /\ UNCHANGED <<env, table, history, faults>>

\* An exception ends the cycle, or the process restarts.
CycleFails(t) ==
  /\ faults < MaxFaults
  /\ thread[t] # Idle
  /\ thread' = [thread EXCEPT ![t] = Idle]
  /\ faults' = faults + 1
  /\ UNCHANGED <<env, table, history>>

-----------------------------------------------------------------------------
Observed ==
  \/ EngineFlips \/ FeedChanges
  \/ \E d \in Devices :
       \/ FallsSilent(d) \/ LicenceChanges(d) \/ QueueChanges(d) \/ CanaryMoves(d)
       \/ \E b \in BOOLEAN : SeenAgain(d, b)

Statement(t) ==
  \/ \E s \in thread[t].work :
       \/ RaiseAlert(t, s[2]) \/ StampNotified(t, s[2]) \/ Notify(t, s[2])
       \/ ResolveAlert(t, s[2])
  \/ RaiseCanaryAlert(t)

Cycle(t) ==
  \/ CheckRealtimeEngine(t) \/ CheckTickFeed(t) \/ CheckDeviceFreshness(t)
  \/ MarkOffline(t) \/ ResolveFresh(t)
  \/ Reconcile(t) \/ ResolveInactive(t)
  \/ VerifyPrevious(t) \/ CleanUp(t) \/ EnqueueCanary(t)
  \/ ResolveRisk(t)

Next ==
  \/ Observed
  \/ \E k \in Keys : CooldownOver(k)
  \/ \E t \in Threads : Start(t) \/ Statement(t) \/ Cycle(t) \/ CycleFails(t)

\* The timers of the loops fire, and a statement ends.  An administrator's
\* report is never owed.
Fairness ==
  \A t \in Threads :
    WF_vars(Statement(t) \/ Cycle(t) \/ (t.svc # "risk" /\ Start(t)))

Spec == Init /\ [][Next]_vars /\ Fairness
-----------------------------------------------------------------------------
(* Properties.                                                              *)

Runs(svc) == \E t \in loops : t.svc = svc

\* Every variable has its type.
TypeOK ==
  /\ loops \in Deployments
  /\ up \in BOOLEAN /\ feed \in {"fresh", "drift", "stale"}
  /\ dev \in [Devices -> DeviceRow]
  /\ open \subseteq Keys /\ hot \subseteq Keys
  /\ thread \in [Threads -> [pc : Pcs, work : SUBSET (Ops \X Keys),
                            read : SUBSET (Devices \cup Keys)]]
  /\ pushed \subseteq Threads \X Keys /\ twice \subseteq Threads \X Keys
  /\ flips \in 0 .. MaxFlips /\ faults \in 0 .. MaxFaults

\* No loop pushes one key twice within the cooldown, however its cycles
\* interleave with those of other processes, fail or restart (raiseAlert: the
\* stamp precedes the push).  The canary pushes at every cycle by design.
CooldownPerLoop == twice = {}

\* A realtime engine that stays down is reported and the alert stays OPEN; one
\* that stays up has it resolved for good.  Probes of several processes that
\* overlap a change of the engine may answer late, but not for ever
\* (checkRealtimeEngine).
EngineAlertTracks ==
  /\ <>[](Runs("connectivity") /\ ~up) => <>[](Down \in open)
  /\ <>[]up => <>[](Down \notin open)

\* A backlog that persists is reported again and again, although another
\* watchdog resolves its alert in between, and is resolved for good once the
\* queue is drained or idle (reconcile).
BacklogRereported ==
  \A d \in Devices :
    /\ <>[](Runs("reconciliation") /\ dev[d].recent /\ dev[d].backlog)
         => []<>(<<"backlog", d>> \in open)
    /\ <>[](~dev[d].backlog) => <>[](<<"backlog", d>> \notin open)

\* A licensed device that falls silent while ONLINE is reported, unless it is
\* heard of again, loses its licence, or a cycle is cut short between marking
\* it OFFLINE and raising the alert (checkDeviceFreshness).
SilenceReported ==
  \A d \in Devices :
    Runs("connectivity") /\ dev[d].silent /\ dev[d].online /\ dev[d].licensed
      ~> \/ <<"device", d>> \in open
         \/ ~dev[d].silent \/ ~dev[d].licensed
         \/ faults > 0

=============================================================================
